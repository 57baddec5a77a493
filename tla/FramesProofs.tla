----------------------------- MODULE FramesProofs -----------------------------
(***************************************************************************)
(* Theorems about the frames as they are built, for any inputs within the  *)
(* types of the build functions, any values and any first capacity: that   *)
(* the calls of every script are in order, and what the builder makes of   *)
(* them.                                                                   *)
(***************************************************************************)
EXTENDS Frames, FlatBuilderProofs

-----------------------------------------------------------------------------
(* Parts of scripts. *)

\* The calls t are in s, after the first o.
PartAt(s, o, t) ==
  /\ o \in Nat /\ o + Len(t) <= Len(s)
  /\ \A i \in 1 .. Len(t) : s[o + i] = t[i]

Part(s, t) == IsBuffer(t) /\ \E o \in Nat : PartAt(s, o, t)

\* Two sequences in a row.
LEMMA Joined ==
  ASSUME NEW x, NEW y, IsBuffer(x), IsBuffer(y)
  PROVE  /\ IsBuffer(x \o y) /\ Len(x \o y) = Len(x) + Len(y)
         /\ Len(x) \in Nat /\ Len(y) \in Nat
         /\ PartAt(x \o y, 0, x) /\ PartAt(x \o y, Len(x), y)
<1>1. PICK S : x \in Seq(S)
  BY DEF IsBuffer
<1>2. PICK T : y \in Seq(T)
  BY DEF IsBuffer
<1> DEFINE U == S \cup T
<1>3. x \in Seq(U) /\ y \in Seq(U)
  BY <1>1, <1>2
<1> HIDE DEF U
<1>4. /\ x \o y \in Seq(U) /\ Len(x \o y) = Len(x) + Len(y)
      /\ Len(x) \in Nat /\ Len(y) \in Nat
  BY <1>3
<1>5. \A i \in 1 .. Len(x) : (x \o y)[0 + i] = x[i]
  BY <1>3, <1>4
<1>6. \A i \in 1 .. Len(y) : (x \o y)[Len(x) + i] = y[i]
  BY <1>3, <1>4
<1> QED BY <1>4, <1>5, <1>6 DEF IsBuffer, PartAt

\* A part of a part.
LEMMA PartOfPart ==
  ASSUME NEW s, NEW t, NEW u, NEW o, NEW p, Len(s) \in Nat, IsBuffer(t), IsBuffer(u),
         PartAt(s, o, t), PartAt(t, p, u)
  PROVE  PartAt(s, o + p, u)
<1>1. Len(t) \in Nat /\ Len(u) \in Nat
  BY Buffers
<1>2. o \in Nat /\ p \in Nat /\ o + Len(t) <= Len(s) /\ p + Len(u) <= Len(t)
  BY DEF PartAt
<1>3. ASSUME NEW i \in 1 .. Len(u) PROVE s[(o + p) + i] = u[i]
  <2>1. p + i \in 1 .. Len(t) /\ (o + p) + i = o + (p + i)
    BY <1>1, <1>2
  <2>2. t[p + i] = u[i] /\ s[o + (p + i)] = t[p + i]
    BY <2>1 DEF PartAt
  <2> QED BY <2>1, <2>2
<1> QED BY <1>1, <1>2, <1>3 DEF PartAt

LEMMA PartJoined ==
  ASSUME NEW s, Len(s) \in Nat, NEW x, NEW y, IsBuffer(x), IsBuffer(y), Part(s, x \o y)
  PROVE  Part(s, x) /\ Part(s, y)
<1>1. /\ IsBuffer(x \o y) /\ Len(x) \in Nat
      /\ PartAt(x \o y, 0, x) /\ PartAt(x \o y, Len(x), y)
  BY Joined
<1>2. PICK o \in Nat : PartAt(s, o, x \o y)
  BY DEF Part
<1> DEFINE z == x \o y
<1>3. PartAt(s, o + 0, x) /\ PartAt(s, o + Len(x), y)
  <2>1. IsBuffer(z) /\ PartAt(s, o, z) /\ PartAt(z, 0, x) /\ PartAt(z, Len(x), y)
    BY <1>1, <1>2
  <2> HIDE DEF z
  <2> QED BY <2>1, PartOfPart
<1>4. o + 0 \in Nat /\ o + Len(x) \in Nat
  BY <1>1
<1> QED BY <1>3, <1>4 DEF Part

\* A row of sequences, each put after those before it.
Chain(g, f, k) == g = [i \in 1 .. k |-> IF i = 1 THEN f[i] ELSE g[i - 1] \o f[i]]

\* FlattenSeq is the end of the chain.
LEMMA Chained ==
  ASSUME NEW f, NEW n \in Nat \ {0}, Len(f) = n
  PROVE  \E g : Chain(g, f, n) /\ FlattenSeq(f) = g[n]
<1>1. ASSUME NEW k \in 1 .. n PROVE \E g : Chain(g, f, k)
  <2> DEFINE T == {j \in 1 .. n : ~\E g : Chain(g, f, j)}
  <2> SUFFICES ASSUME T # {} PROVE FALSE
    OBVIOUS
  <2>1. Min(T) \in T /\ \A y \in T : Min(T) <= y
    <3>1. T \in SUBSET Nat
      OBVIOUS
    <3> HIDE DEF T
    <3> QED BY <3>1, Smallest
  <2> DEFINE m == Min(T)
  <2>2. m \in 1 .. n /\ ~(\E g : Chain(g, f, m)) /\ \A y \in T : m <= y
    BY <2>1
  <2> HIDE DEF m
  <2>3. CASE m = 1
    <3> DEFINE g == [i \in 1 .. 1 |-> f[i]]
    <3>1. g = [i \in 1 .. 1 |-> IF i = 1 THEN f[i] ELSE g[i - 1] \o f[i]]
      OBVIOUS
    <3> HIDE DEF g
    <3> QED BY <2>2, <2>3, <3>1 DEF Chain
  <2>4. CASE m # 1
    <3>1. m - 1 \in 1 .. n /\ ~(m <= m - 1)
      BY <2>2, <2>4
    <3>2. m - 1 \notin T
      BY <2>2, <3>1
    <3>3. PICK h : Chain(h, f, m - 1)
      BY <3>1, <3>2
    <3> DEFINE g == [i \in 1 .. m |-> IF i = m THEN h[m - 1] \o f[m] ELSE h[i]]
    <3>4. ASSUME NEW i \in 1 .. m
          PROVE  g[i] = IF i = 1 THEN f[i] ELSE g[i - 1] \o f[i]
      <4>1. CASE i = m
        <5>1. m - 1 \in 1 .. m /\ m - 1 # m
          BY <2>2, <3>1
        <5> QED BY <2>4, <4>1, <5>1
      <4>2. CASE i # m
        <5>1. i \in 1 .. m - 1 /\ (i # 1 => i - 1 \in 1 .. m /\ i - 1 # m)
          BY <2>2, <4>2
        <5>2. h[i] = IF i = 1 THEN f[i] ELSE h[i - 1] \o f[i]
          BY <3>3, <5>1 DEF Chain
        <5> QED BY <4>2, <5>1, <5>2
      <4> QED BY <4>1, <4>2
    <3>5. g = [i \in 1 .. m |-> g[i]]
      OBVIOUS
    <3> HIDE DEF g
    <3>6. Chain(g, f, m)
      BY <3>4, <3>5 DEF Chain
    <3> QED BY <2>2, <3>6
  <2> QED BY <2>3, <2>4
<1> DEFINE c == CHOOSE g : Chain(g, f, n)
<1>2. Chain(c, f, n)
  BY <1>1
<1>3. FlattenSeq(f) = c[n]
  BY DEF FlattenSeq, Chain
<1> HIDE DEF c
<1> QED BY <1>2, <1>3

\* Sequences in a row, one for each of f.
LEMMA Flattened ==
  ASSUME NEW f, NEW n \in Nat, Len(f) = n, f = [i \in 1 .. n |-> f[i]],
         \A i \in 1 .. n : IsBuffer(f[i])
  PROVE  /\ IsBuffer(FlattenSeq(f))
         /\ \A i \in 1 .. n : Part(FlattenSeq(f), f[i])
<1>1. CASE n = 0
  <2>1. FlattenSeq(f) = f
    BY <1>1 DEF FlattenSeq
  <2>2. f \in Seq({})
    BY <1>1
  <2>3. \A i \in 1 .. n : FALSE
    BY <1>1
  <2>4. IsBuffer(FlattenSeq(f))
    BY <2>1, <2>2 DEF IsBuffer
  <2> QED BY <2>3, <2>4
<1>2. CASE n # 0
  <2> DEFINE Good(s, k) == IsBuffer(s) /\ \A i \in 1 .. k : Part(s, f[i])
  <2>3. PICK g : Chain(g, f, n) /\ FlattenSeq(f) = g[n]
    BY <1>2, Chained
  <2>4. ASSUME NEW k \in 1 .. n
        PROVE  g[k] = IF k = 1 THEN f[k] ELSE g[k - 1] \o f[k]
    BY <2>3 DEF Chain
  <2>5. \A k \in 1 .. n : Good(g[k], k)
    <3> DEFINE T == {k \in 1 .. n : ~Good(g[k], k)}
    <3> SUFFICES ASSUME T # {} PROVE FALSE
      OBVIOUS
    <3>1. Min(T) \in T /\ \A y \in T : Min(T) <= y
      <4>1. T \in SUBSET Nat
        OBVIOUS
      <4> HIDE DEF T
      <4> QED BY <4>1, Smallest
    <3> DEFINE m == Min(T)
    <3>2. m \in 1 .. n /\ ~Good(g[m], m) /\ \A y \in T : m <= y
      BY <3>1
    <3> HIDE DEF m
    <3>3. IsBuffer(f[m])
      BY <3>2
    <3>4. CASE m = 1
      <4>1. g[m] = f[m]
        BY <2>4, <3>2, <3>4
      <4>2. PartAt(f[m], 0, f[m])
        BY <3>3, Buffers DEF PartAt
      <4>3. Part(f[m], f[m])
        BY <3>3, <4>2 DEF Part
      <4>4. \A i \in 1 .. m : i = m
        BY <3>4
      <4> QED BY <3>2, <3>3, <4>1, <4>3, <4>4
    <3>5. CASE m # 1
      <4>1. m - 1 \in 1 .. n /\ ~(m <= m - 1)
        BY <3>2, <3>5
      <4>2. Good(g[m - 1], m - 1)
        BY <3>2, <4>1
      <4> DEFINE x == g[m - 1]
                 y == f[m]
                 z == g[m]
      <4>3. z = x \o y /\ IsBuffer(x) /\ IsBuffer(y) /\ \A i \in 1 .. m - 1 : Part(x, f[i])
        BY <2>4, <3>2, <3>3, <3>5, <4>2
      <4> HIDE DEF x, y, z
      <4>4. IsBuffer(z) /\ PartAt(z, 0, x) /\ PartAt(z, Len(x), y) /\ Len(x) \in Nat
        BY <4>3, Joined
      <4>5. Part(z, y)
        BY <4>3, <4>4 DEF Part
      <4>6. ASSUME NEW i \in 1 .. m - 1 PROVE Part(z, f[i])
        <5>1. PICK o \in Nat : PartAt(x, o, f[i]) /\ IsBuffer(f[i])
          BY <4>3 DEF Part
        <5>2. Len(z) \in Nat
          BY <4>4, Buffers
        <5>3. PartAt(z, 0 + o, f[i]) /\ 0 + o \in Nat
          BY <4>3, <4>4, <5>1, <5>2, PartOfPart
        <5> QED BY <5>1, <5>3 DEF Part
      <4>7. \A i \in 1 .. m : i = m \/ i \in 1 .. m - 1
        BY <3>2
      <4> QED BY <3>2, <4>4, <4>5, <4>6, <4>7 DEF y, z
    <3> QED BY <3>4, <3>5
  <2>6. n \in 1 .. n
    BY <1>2
  <2> QED BY <2>3, <2>5, <2>6
<1> QED BY <1>1, <1>2

LEMMA PartEach ==
  ASSUME NEW s, Len(s) \in Nat, NEW f, NEW n \in Nat, Len(f) = n, f = [i \in 1 .. n |-> f[i]],
         \A i \in 1 .. n : IsBuffer(f[i]), Part(s, FlattenSeq(f)), NEW i \in 1 .. n
  PROVE  Part(s, f[i])
<1> DEFINE t == FlattenSeq(f)
           u == f[i]
<1>1. IsBuffer(t) /\ Part(t, u)
  BY Flattened
<1>2. Part(s, t)
  OBVIOUS
<1> HIDE DEF t, u
<1>3. PICK o \in Nat : PartAt(s, o, t)
  BY <1>2 DEF Part
<1>4. PICK p \in Nat : PartAt(t, p, u) /\ IsBuffer(u)
  BY <1>1 DEF Part
<1>5. PartAt(s, o + p, u) /\ o + p \in Nat
  BY <1>1, <1>3, <1>4, PartOfPart
<1> QED BY <1>4, <1>5 DEF Part, u

-----------------------------------------------------------------------------
(* The order of the calls. *)

\* What a call of the builder is given, by the types of its parameters; no
\* table has so many slots that the size of its vtable is not a u16.
IsCall(c) ==
  /\ c.op \in {"string", "bytes"} => c.bytes \in Seq(Byte)
  /\ c.op = "vector" => Len(c.of) \in Nat /\ DOMAIN c.of = 1 .. Len(c.of)
  /\ c.op = "zeros" => c.n \in Nat
  /\ c.op = "start" => c.n \in Nat /\ 4 + 2 * c.n < U16Size
  /\ c.op \in {"u32", "offset"} => c.id \in Nat
  /\ c.op = "u32" => c.v \in 0 .. (U32Size - 1)

\* The calls that return a Ref, those that add to the open table, and the
\* names of the Refs that a call is given.
Makes(c) == c.op \in {"string", "bytes", "payload", "vector", "end"}

Adds(c) == c.op \in {"u32", "offset"}

Uses(c) == IF c.op = "vector" THEN {c.of[i] : i \in DOMAIN c.of}
           ELSE IF c.op \in {"offset", "finish"} THEN {c.of} ELSE {}

\* In script s: call j made an object in the buffer that call i is for.
MadeFor(s, j, i) == Makes(s[j]) /\ \A k \in j .. i - 1 : s[k].op # "finish"

\* Call j started the table that is open at call i.
Open(s, j, i) ==
  s[j].op = "start" /\ \A k \in j + 1 .. i - 1 : s[k].op \notin {"start", "end", "finish"}

\* What the build functions do in order: a Ref is named once in its buffer and
\* after that used, a field is added once to an open table, the inner
\* FlatBuffer is finished before it is a payload, and the outer one is last.
InOrder(s, i) ==
  /\ \A key \in Uses(s[i]) : \E j \in 1 .. i - 1 : MadeFor(s, j, i) /\ s[j].as = key
  /\ Makes(s[i]) => ~ \E j \in 1 .. i - 1 : MadeFor(s, j, i) /\ s[j].as = s[i].as
  /\ Adds(s[i]) \/ s[i].op = "end" =>
       \E j \in 1 .. i - 1 :
         /\ Open(s, j, i)
         /\ Adds(s[i]) => /\ s[i].id < s[j].n
                          /\ \A k \in j + 1 .. i - 1 : Adds(s[k]) => s[k].id # s[i].id
  /\ s[i].op = "payload" => \E j \in 1 .. i - 1 : s[j].op = "finish"
  /\ s[i].op = "finish" /\ i < Len(s) => \A j \in 1 .. i - 1 : s[j].op # "finish"

\* The names of what the calls of t before i make.
NamesBefore(t, i) == {t[j].as : j \in {k \in 1 .. i - 1 : Makes(t[k])}}

Named(t) == NamesBefore(t, Len(t) + 1)

\* Call i adds to, or ends, a table that t has open.
InOpen(t, i) ==
  \E j \in 1 .. i - 1 :
    /\ Open(t, j, i)
    /\ Adds(t[i]) => /\ t[i].id < t[j].n
                     /\ \A k \in j + 1 .. i - 1 : Adds(t[k]) => t[k].id # t[i].id

\* Call i of t is in order after calls that made what K names; after says
\* that an inner FlatBuffer is finished.
FitsAt(t, i, K, after) ==
  /\ IsCall(t[i])
  /\ Uses(t[i]) \subseteq K \cup NamesBefore(t, i)
  /\ Makes(t[i]) => t[i].as \notin K \cup NamesBefore(t, i)
  /\ Adds(t[i]) \/ t[i].op = "end" => InOpen(t, i)
  /\ t[i].op = "payload" => after
  /\ t[i].op = "finish" => i = Len(t)

Fits(t, K, after) == IsBuffer(t) /\ \A i \in 1 .. Len(t) : FitsAt(t, i, K, after)

\* No call of t finishes.
GoesOn(t) == \A i \in 1 .. Len(t) : t[i].op # "finish"

\* Calls in the middle of a buffer, that name N.
Segment(t, K, N) == Fits(t, K, FALSE) /\ GoesOn(t) /\ Named(t) = N

\* What is open in a part is open in the whole.
LEMMA InOpenPart ==
  ASSUME NEW t, NEW u, Len(t) \in Nat, Len(u) \in Nat, NEW o, PartAt(t, o, u),
         NEW i \in 1 .. Len(u), InOpen(u, i)
  PROVE  InOpen(t, o + i)
<1>1. /\ o \in Nat /\ o + Len(u) <= Len(t)
      /\ \A k \in 1 .. Len(u) : t[o + k] = u[k]
  BY DEF PartAt
<1>2. PICK j \in 1 .. i - 1 :
        /\ Open(u, j, i)
        /\ Adds(u[i]) => /\ u[i].id < u[j].n
                         /\ \A k \in j + 1 .. i - 1 : Adds(u[k]) => u[k].id # u[i].id
  BY DEF InOpen
<1>3. /\ o + j \in 1 .. (o + i) - 1 /\ t[o + j] = u[j] /\ t[o + i] = u[i]
      /\ j \in 1 .. Len(u)
  BY <1>1
<1>4. ASSUME NEW k \in (o + j) + 1 .. (o + i) - 1
      PROVE  k - o \in j + 1 .. i - 1 /\ t[k] = u[k - o]
  <2>1. k - o \in j + 1 .. i - 1 /\ k - o \in 1 .. Len(u) /\ o + (k - o) = k
    BY <1>1
  <2> QED BY <1>1, <2>1
<1>5. Open(t, o + j, o + i)
  BY <1>2, <1>3, <1>4 DEF Open
<1> QED BY <1>2, <1>3, <1>4, <1>5 DEF InOpen

\* The names of two rows of calls.
LEMMA NamesJoined ==
  ASSUME NEW x, NEW y, IsBuffer(x), IsBuffer(y)
  PROVE  /\ \A i \in 1 .. Len(x) : NamesBefore(x \o y, i) = NamesBefore(x, i)
         /\ \A i \in 1 .. Len(y) + 1 :
              NamesBefore(x \o y, Len(x) + i) = Named(x) \cup NamesBefore(y, i)
         /\ Named(x \o y) = Named(x) \cup Named(y)
<1> DEFINE z == x \o y
           m == Len(x)
           n == Len(y)
<1>1. /\ IsBuffer(z) /\ Len(z) = m + n /\ m \in Nat /\ n \in Nat
      /\ PartAt(z, 0, x) /\ PartAt(z, m, y)
  BY Joined
<1> HIDE DEF z
<1>2. \A k \in 1 .. m : z[k] = x[k]
  BY <1>1 DEF PartAt
<1>3. \A k \in 1 .. n : z[m + k] = y[k]
  BY <1>1 DEF PartAt
<1>4. ASSUME NEW i \in 1 .. m PROVE NamesBefore(z, i) = NamesBefore(x, i)
  <2>1. \A k \in 1 .. i - 1 : z[k] = x[k]
    BY <1>1, <1>2
  <2> QED BY <2>1 DEF NamesBefore
<1>5. ASSUME NEW i \in 1 .. n + 1
      PROVE  NamesBefore(z, m + i) = Named(x) \cup NamesBefore(y, i)
  <2>1. NamesBefore(z, m + i) \subseteq Named(x) \cup NamesBefore(y, i)
    <3> SUFFICES ASSUME NEW k \in 1 .. (m + i) - 1, Makes(z[k])
                 PROVE  z[k].as \in Named(x) \cup NamesBefore(y, i)
      BY DEF NamesBefore
    <3>1. CASE k <= m
      <4>1. k \in 1 .. (m + 1) - 1 /\ z[k] = x[k]
        BY <1>1, <1>2, <3>1
      <4> QED BY <4>1 DEF Named, NamesBefore
    <3>2. CASE ~(k <= m)
      <4>1. k - m \in 1 .. i - 1 /\ z[k] = y[k - m]
        <5>1. k - m \in 1 .. i - 1 /\ k - m \in 1 .. n /\ m + (k - m) = k
          BY <1>1, <3>2
        <5> QED BY <1>3, <5>1
      <4> QED BY <4>1 DEF NamesBefore
    <3> QED BY <3>1, <3>2
  <2>2. Named(x) \subseteq NamesBefore(z, m + i)
    <3> SUFFICES ASSUME NEW k \in 1 .. (m + 1) - 1, Makes(x[k])
                 PROVE  x[k].as \in NamesBefore(z, m + i)
      BY DEF NamesBefore, Named
    <3>1. k \in 1 .. (m + i) - 1 /\ z[k] = x[k]
      BY <1>1, <1>2
    <3> QED BY <3>1 DEF NamesBefore
  <2>3. NamesBefore(y, i) \subseteq NamesBefore(z, m + i)
    <3> SUFFICES ASSUME NEW k \in 1 .. i - 1, Makes(y[k])
                 PROVE  y[k].as \in NamesBefore(z, m + i)
      BY DEF NamesBefore
    <3>1. m + k \in 1 .. (m + i) - 1 /\ z[m + k] = y[k]
      BY <1>1, <1>3
    <3> QED BY <3>1 DEF NamesBefore
  <2> QED BY <2>1, <2>2, <2>3
<1>6. Named(z) = Named(x) \cup Named(y)
  <2>1. n + 1 \in 1 .. n + 1 /\ Len(z) + 1 = m + (n + 1)
    BY <1>1
  <2> QED BY <1>5, <2>1 DEF Named
<1> QED BY <1>4, <1>5, <1>6 DEF z

\* Calls that fit, after calls that go on and fit.
LEMMA FitsJoined ==
  ASSUME NEW K, NEW N, NEW x, Segment(x, K, N), NEW y, Fits(y, K \cup N, FALSE)
  PROVE  Fits(x \o y, K, FALSE)
<1> DEFINE z == x \o y
           m == Len(x)
           n == Len(y)
<1>1. IsBuffer(x) /\ IsBuffer(y) /\ GoesOn(x) /\ Named(x) = N
  BY DEF Segment, Fits
<1>2. /\ IsBuffer(z) /\ Len(z) = m + n /\ m \in Nat /\ n \in Nat
      /\ PartAt(z, 0, x) /\ PartAt(z, m, y)
  BY <1>1, Joined
<1>3. /\ \A i \in 1 .. m : NamesBefore(z, i) = NamesBefore(x, i)
      /\ \A i \in 1 .. n + 1 : NamesBefore(z, m + i) = N \cup NamesBefore(y, i)
  BY <1>1, NamesJoined
<1> HIDE DEF z
<1>4. ASSUME NEW i \in 1 .. m PROVE FitsAt(z, i, K, FALSE)
  <2>1. FitsAt(x, i, K, FALSE) /\ x[i].op # "finish"
    BY <1>1 DEF Segment, Fits, GoesOn
  <2>2. z[i] = x[i] /\ 0 + i = i
    BY <1>2 DEF PartAt
  <2>3. InOpen(x, i) => InOpen(z, i)
    BY <1>2, <2>2, InOpenPart
  <2> QED BY <1>3, <2>1, <2>2, <2>3 DEF FitsAt
<1>5. ASSUME NEW i \in 1 .. n PROVE FitsAt(z, m + i, K, FALSE)
  <2>1. FitsAt(y, i, K \cup N, FALSE)
    BY DEF Fits
  <2>2. z[m + i] = y[i]
    BY <1>2 DEF PartAt
  <2>3. InOpen(y, i) => InOpen(z, m + i)
    BY <1>2, InOpenPart
  <2>4. NamesBefore(z, m + i) = N \cup NamesBefore(y, i)
    <3>1. i \in 1 .. n + 1
      BY <1>2
    <3> QED BY <1>3, <3>1
  <2>5. i = n => m + i = Len(z)
    BY <1>2
  <2> QED BY <2>1, <2>2, <2>3, <2>4, <2>5 DEF FitsAt
<1>6. ASSUME NEW i \in 1 .. Len(z) PROVE FitsAt(z, i, K, FALSE)
  <2>1. CASE i <= m
    <3>1. i \in 1 .. m
      BY <1>2, <2>1
    <3> QED BY <1>4, <3>1
  <2>2. CASE ~(i <= m)
    <3>1. i - m \in 1 .. n /\ m + (i - m) = i
      BY <1>2, <2>2
    <3> QED BY <1>5, <3>1
  <2> QED BY <2>1, <2>2
<1> QED BY <1>2, <1>6 DEF Fits, z

\* A segment after a segment is one.
LEMMA SegmentJoined ==
  ASSUME NEW K, NEW N, NEW x, Segment(x, K, N), NEW M, NEW y, Segment(y, K \cup N, M)
  PROVE  Segment(x \o y, K, N \cup M)
<1>1. IsBuffer(x) /\ IsBuffer(y) /\ GoesOn(x) /\ GoesOn(y) /\ Named(x) = N /\ Named(y) = M
  BY DEF Segment, Fits
<1>2. Fits(x \o y, K, FALSE)
  BY FitsJoined DEF Segment
<1>3. Named(x \o y) = N \cup M
  BY <1>1, NamesJoined
<1> DEFINE z == x \o y
<1>4. /\ Len(z) = Len(x) + Len(y) /\ Len(x) \in Nat /\ Len(y) \in Nat
      /\ PartAt(z, 0, x) /\ PartAt(z, Len(x), y)
  BY <1>1, Joined
<1> HIDE DEF z
<1>5. GoesOn(z)
  <2> SUFFICES ASSUME NEW i \in 1 .. Len(z) PROVE z[i].op # "finish"
    BY DEF GoesOn
  <2>1. CASE i <= Len(x)
    <3>1. i \in 1 .. Len(x) /\ 0 + i = i
      BY <1>4, <2>1
    <3> QED BY <1>1, <1>4, <3>1 DEF GoesOn, PartAt
  <2>2. CASE ~(i <= Len(x))
    <3>1. i - Len(x) \in 1 .. Len(y) /\ Len(x) + (i - Len(x)) = i
      BY <1>4, <2>2
    <3> QED BY <1>1, <1>4, <3>1 DEF GoesOn, PartAt
  <2> QED BY <2>1, <2>2
<1> QED BY <1>2, <1>3, <1>5 DEF Segment, z

\* A segment fits where more is named, if it does not name that.
LEMMA SegmentMore ==
  ASSUME NEW t, NEW K, NEW N, Segment(t, K, N), NEW L, K \subseteq L, L \cap N = {}
  PROVE  Segment(t, L, N)
<1>1. Fits(t, K, FALSE) /\ Named(t) = N
  BY DEF Segment
<1>2. Len(t) \in Nat
  BY <1>1, Buffers DEF Fits
<1>3. ASSUME NEW i \in 1 .. Len(t) PROVE FitsAt(t, i, L, FALSE)
  <2>1. FitsAt(t, i, K, FALSE)
    BY <1>1 DEF Fits
  <2>2. Makes(t[i]) => t[i].as \in N
    <3>1. i \in 1 .. (Len(t) + 1) - 1
      BY <1>2
    <3> QED BY <1>1, <3>1 DEF Named, NamesBefore
  <2> QED BY <2>1, <2>2 DEF FitsAt
<1> QED BY <1>1, <1>3 DEF Fits, Segment

\* No calls.
LEMMA SegmentNone ==
  ASSUME NEW t, NEW K, IsBuffer(t), Len(t) = 0
  PROVE  Segment(t, K, {})
<1>1. \A i \in 1 .. Len(t) : FALSE
  OBVIOUS
<1>2. Named(t) = {}
  <2>1. \A k \in 1 .. (Len(t) + 1) - 1 : FALSE
    OBVIOUS
  <2> QED BY <2>1 DEF Named, NamesBefore
<1>3. Fits(t, K, FALSE)
  BY <1>1 DEF Fits
<1>4. GoesOn(t)
  BY <1>1 DEF GoesOn
<1> QED BY <1>2, <1>3, <1>4 DEF Segment

\* A row of segments, no two of which name the same.
LEMMA SegmentEach ==
  ASSUME NEW f, NEW n \in Nat, Len(f) = n, f = [i \in 1 .. n |-> f[i]], NEW K, NEW N,
         \A i \in 1 .. n : Segment(f[i], K, N[i]),
         \A i, j \in 1 .. n : i # j => N[i] \cap N[j] = {},
         \A i \in 1 .. n : K \cap N[i] = {}
  PROVE  Segment(FlattenSeq(f), K, UNION {N[i] : i \in 1 .. n})
<1>1. CASE n = 0
  <2>1. FlattenSeq(f) = f
    BY <1>1 DEF FlattenSeq
  <2>2. f \in Seq({})
    BY <1>1
  <2>3. UNION {N[i] : i \in 1 .. n} = {}
    <3>1. \A i \in 1 .. n : FALSE
      BY <1>1
    <3> QED BY <3>1
  <2> DEFINE t == FlattenSeq(f)
             N0 == UNION {N[i] : i \in 1 .. n}
  <2>4. IsBuffer(t) /\ Len(t) = 0
    BY <1>1, <2>1, <2>2 DEF IsBuffer
  <2>5. N0 = {}
    BY <2>3
  <2> HIDE DEF t, N0
  <2>6. Segment(t, K, N0)
    BY <2>4, <2>5, SegmentNone
  <2> QED BY <2>6 DEF t, N0
<1>2. CASE n # 0
  <2>1. PICK g : Chain(g, f, n) /\ FlattenSeq(f) = g[n]
    BY <1>2, Chained
  <2>2. ASSUME NEW k \in 1 .. n
        PROVE  g[k] = IF k = 1 THEN f[k] ELSE g[k - 1] \o f[k]
    BY <2>1 DEF Chain
  <2> DEFINE All(k) == UNION {N[i] : i \in 1 .. k}
             T == {k \in 1 .. n : ~Segment(g[k], K, All(k))}
  <2>3. T = {}
    <3> SUFFICES ASSUME T # {} PROVE FALSE
      OBVIOUS
    <3>1. Min(T) \in T /\ \A y \in T : Min(T) <= y
      <4>1. T \in SUBSET Nat
        OBVIOUS
      <4> HIDE DEF T
      <4> QED BY <4>1, Smallest
    <3> DEFINE m == Min(T)
    <3>2. m \in 1 .. n /\ ~Segment(g[m], K, All(m)) /\ \A y \in T : m <= y
      BY <3>1
    <3> HIDE DEF m
    <3>3. Segment(f[m], K, N[m])
      BY <3>2
    <3>4. CASE m = 1
      <4>1. g[m] = f[m]
        BY <2>2, <3>2, <3>4
      <4>2. All(m) = N[m]
        <5>1. 1 .. m = {m}
          BY <3>4
        <5> QED BY <5>1
      <4> HIDE DEF All
      <4> QED BY <3>2, <3>3, <4>1, <4>2
    <3>5. CASE m # 1
      <4>1. m - 1 \in 1 .. n /\ ~(m <= m - 1)
        BY <3>2, <3>5
      <4>2. Segment(g[m - 1], K, All(m - 1))
        BY <3>2, <4>1
      <4>3. g[m] = g[m - 1] \o f[m]
        BY <2>2, <3>2, <3>5
      <4>4. All(m) = All(m - 1) \cup N[m]
        <5>1. 1 .. m = (1 .. m - 1) \cup {m}
          BY <3>2, <4>1
        <5> QED BY <5>1
      <4>5. (K \cup All(m - 1)) \cap N[m] = {}
        <5>1. \A i \in 1 .. m - 1 : N[i] \cap N[m] = {}
          <6>1. \A i \in 1 .. m - 1 : i \in 1 .. n /\ i # m
            BY <3>2
          <6> QED BY <3>2, <6>1
        <5>2. K \cap N[m] = {}
          BY <3>2
        <5> QED BY <5>1, <5>2
      <4> DEFINE A == All(m - 1)
                 M == N[m]
                 u == g[m - 1]
                 v == f[m]
      <4>6. Segment(u, K, A) /\ Segment(v, K, M) /\ (K \cup A) \cap M = {} /\ g[m] = u \o v
        BY <3>3, <4>2, <4>3, <4>5
      <4>7. All(m) = A \cup M
        BY <4>4
      <4> HIDE DEF A, M, All, u, v
      <4>8. Segment(v, K \cup A, M)
        BY <4>6, SegmentMore
      <4>9. Segment(u \o v, K, A \cup M)
        BY <4>6, <4>8, SegmentJoined
      <4> QED BY <3>2, <4>6, <4>7, <4>9
    <3> QED BY <3>4, <3>5
  <2>4. n \in 1 .. n
    BY <1>2
  <2>5. Segment(g[n], K, All(n))
    BY <2>3, <2>4
  <2> QED BY <2>1, <2>5
<1> QED BY <1>1, <1>2

\* t ends with the finish of what is called name.
Finishes(t, name) ==
  IsBuffer(t) /\ Len(t) >= 1 /\ t[Len(t)].op = "finish" /\ t[Len(t)].of = Key(name, 0)

\* Calls that start one table, add to it and end it: call e ends what j opened.
OneTable(t, j, e) ==
  /\ j \in Nat /\ e \in Nat /\ 1 <= j /\ j < e /\ e <= Len(t)
  /\ t[j].op = "start" /\ t[e].op = "end"
  /\ \A k \in j + 1 .. e - 1 : t[k].op \notin {"start", "end", "finish"}
  /\ \A k \in 1 .. Len(t) : Adds(t[k]) => k \in j + 1 .. e - 1 /\ t[k].id < t[j].n
  /\ \A k \in 1 .. Len(t) : t[k].op = "end" => k = e
  /\ \A k, l \in 1 .. Len(t) : Adds(t[k]) /\ Adds(t[l]) /\ t[k].id = t[l].id => k = l

\* What such a table is given, it is given while it is open.
LEMMA OneTableOpen ==
  ASSUME NEW t, NEW j, NEW e, OneTable(t, j, e), NEW i \in 1 .. Len(t),
         Adds(t[i]) \/ t[i].op = "end"
  PROVE  InOpen(t, i)
<1>1. i \in j + 1 .. e /\ j \in Nat /\ e \in Nat /\ 1 <= j /\ j < e /\ e <= Len(t)
  BY DEF OneTable
<1>2. Open(t, j, i)
  <2>1. \A k \in j + 1 .. i - 1 : k \in j + 1 .. e - 1
    BY <1>1
  <2> QED BY <2>1 DEF OneTable, Open
<1>3. ASSUME Adds(t[i])
      PROVE  t[i].id < t[j].n /\ \A k \in j + 1 .. i - 1 : Adds(t[k]) => t[k].id # t[i].id
  <2>1. \A k \in j + 1 .. i - 1 : k \in 1 .. Len(t) /\ k # i
    BY <1>1
  <2> QED BY <1>3, <2>1 DEF OneTable
<1>4. j \in 1 .. i - 1
  BY <1>1
<1> QED BY <1>2, <1>3, <1>4 DEF InOpen

\* What calls name and use, if M are those that make something.
NamesRight(t, M, K) ==
  /\ M = {k \in 1 .. Len(t) : Makes(t[k])}
  /\ \A k \in M : t[k].as \notin K
  /\ \A k, l \in M : t[k].as = t[l].as => k = l
  /\ \A k \in 1 .. Len(t) : \A key \in Uses(t[k]) :
       key \in K \/ \E l \in M : l < k /\ t[l].as = key

\* Calls that are typed, right in their names and in their table fit.
LEMMA CallsFit ==
  ASSUME NEW t, IsBuffer(t), NEW M, NEW K, NamesRight(t, M, K), NEW after \in BOOLEAN,
         \A k \in 1 .. Len(t) : IsCall(t[k]),
         \A k \in 1 .. Len(t) : Adds(t[k]) \/ t[k].op = "end" => InOpen(t, k),
         \A k \in 1 .. Len(t) : t[k].op = "payload" => after,
         \A k \in 1 .. Len(t) : t[k].op = "finish" => k = Len(t)
  PROVE  Fits(t, K, after) /\ Named(t) = {t[k].as : k \in M}
<1>1. Len(t) \in Nat
  BY Buffers
<1>2. Named(t) = {t[k].as : k \in M}
  <2>1. {k \in 1 .. (Len(t) + 1) - 1 : Makes(t[k])} = M
    <3>1. (Len(t) + 1) - 1 = Len(t)
      BY <1>1
    <3> QED BY <3>1 DEF NamesRight
  <2> QED BY <2>1 DEF Named, NamesBefore
<1>3. ASSUME NEW i \in 1 .. Len(t) PROVE FitsAt(t, i, K, after)
  <2>1. ASSUME NEW key \in Uses(t[i]) PROVE key \in K \cup NamesBefore(t, i)
    <3>1. CASE key \in K
      BY <3>1
    <3>2. CASE \E l \in M : l < i /\ t[l].as = key
      <4>1. PICK l \in M : l < i /\ t[l].as = key
        BY <3>2
      <4>2. l \in 1 .. Len(t) /\ Makes(t[l])
        BY DEF NamesRight
      <4>3. l \in 1 .. i - 1
        BY <1>1, <4>1, <4>2
      <4> QED BY <4>1, <4>2, <4>3 DEF NamesBefore
    <3> QED BY <3>1, <3>2 DEF NamesRight
  <2>2. ASSUME Makes(t[i]) PROVE t[i].as \notin K \cup NamesBefore(t, i)
    <3>1. i \in M
      BY <2>2 DEF NamesRight
    <3>2. ASSUME NEW l \in 1 .. i - 1, Makes(t[l]) PROVE t[l].as # t[i].as
      <4>1. l \in 1 .. Len(t) /\ l # i
        BY <1>1
      <4>2. l \in M
        BY <3>2, <4>1 DEF NamesRight
      <4> QED BY <3>1, <4>1, <4>2 DEF NamesRight
    <3> QED BY <3>1, <3>2 DEF NamesRight, NamesBefore
  <2> QED BY <2>1, <2>2 DEF FitsAt
<1>4. Fits(t, K, after)
  BY <1>3 DEF Fits
<1> QED BY <1>2, <1>4

\* A script of an inner part and a wrapper, each in order, is in order.
LEMMA TwoInOrder ==
  ASSUME NEW x, NEW y, Fits(x, {}, FALSE), NEW name, Finishes(x, name), Fits(y, {}, TRUE),
         NEW i \in 1 .. Len(x \o y)
  PROVE  IsCall((x \o y)[i]) /\ InOrder(x \o y, i)
<1> DEFINE s == x \o y
           m == Len(x)
           n == Len(y)
<1>1. /\ IsBuffer(s) /\ Len(s) = m + n /\ m \in Nat /\ n \in Nat
      /\ PartAt(s, 0, x) /\ PartAt(s, m, y)
  BY Joined DEF Fits
<1>2. m >= 1 /\ x[m].op = "finish"
  BY DEF Finishes
<1> HIDE DEF s
<1>3. \A k \in 1 .. m : s[k] = x[k]
  BY <1>1 DEF PartAt
<1>4. \A k \in 1 .. n : s[m + k] = y[k]
  BY <1>1 DEF PartAt
<1>5. CASE i <= m
  <2>1. i \in 1 .. m
    BY <1>1, <1>5 DEF s
  <2> HIDE DEF m, n
  <2>2. FitsAt(x, i, {}, FALSE) /\ s[i] = x[i]
    BY <1>3, <2>1 DEF Fits, m
  <2>3. \A k \in 1 .. i - 1 : k \in 1 .. m /\ s[k] = x[k] /\ x[k].op # "finish"
    <3> SUFFICES ASSUME NEW k \in 1 .. i - 1
                 PROVE  k \in 1 .. m /\ s[k] = x[k] /\ x[k].op # "finish"
      OBVIOUS
    <3>1. k \in 1 .. m /\ k # m
      BY <1>1, <2>1
    <3>2. FitsAt(x, k, {}, FALSE)
      BY <3>1 DEF Fits, m
    <3> QED BY <1>3, <3>1, <3>2 DEF FitsAt, m
  <2>4. ASSUME NEW key \in Uses(s[i])
        PROVE  \E j \in 1 .. i - 1 : MadeFor(s, j, i) /\ s[j].as = key
    <3>1. PICK j \in 1 .. i - 1 : Makes(x[j]) /\ x[j].as = key
      BY <2>2, <2>4 DEF FitsAt, NamesBefore
    <3>2. \A k \in j .. i - 1 : s[k].op # "finish"
      BY <2>1, <2>3
    <3> QED BY <2>3, <3>1, <3>2 DEF MadeFor
  <2>5. Makes(s[i]) => ~ \E j \in 1 .. i - 1 : MadeFor(s, j, i) /\ s[j].as = s[i].as
    BY <2>2, <2>3 DEF FitsAt, NamesBefore, MadeFor
  <2>6. Adds(s[i]) \/ s[i].op = "end" => InOpen(s, i)
    <3>1. Len(s) \in Nat /\ Len(x) \in Nat /\ PartAt(s, 0, x) /\ i \in 1 .. Len(x)
      BY <1>1, <2>1 DEF m
    <3>2. InOpen(x, i) => InOpen(s, 0 + i)
      BY <3>1, InOpenPart
    <3>3. 0 + i = i
      BY <2>1
    <3> QED BY <2>2, <3>2, <3>3 DEF FitsAt
  <2>7. s[i].op # "payload"
    BY <2>2 DEF FitsAt
  <2> QED BY <2>2, <2>3, <2>4, <2>5, <2>6, <2>7 DEF FitsAt, InOrder, InOpen, s
<1>6. CASE ~(i <= m)
  <2> DEFINE h == i - m
  <2>1. h \in 1 .. n /\ i = m + h
    BY <1>1, <1>6 DEF s
  <2> HIDE DEF m, n, h
  <2>2. FitsAt(y, h, {}, TRUE) /\ s[i] = y[h]
    BY <1>4, <2>1 DEF Fits, n
  <2>3. \A k \in 1 .. h - 1 : k \in 1 .. n /\ s[m + k] = y[k] /\ y[k].op # "finish"
    <3> SUFFICES ASSUME NEW k \in 1 .. h - 1
                 PROVE  k \in 1 .. n /\ s[m + k] = y[k] /\ y[k].op # "finish"
      OBVIOUS
    <3>1. k \in 1 .. n /\ k # n
      BY <1>1, <2>1
    <3>2. FitsAt(y, k, {}, TRUE)
      BY <3>1 DEF Fits, n
    <3> QED BY <1>4, <3>1, <3>2 DEF FitsAt, n
  <2>4. \A k \in m + 1 .. i - 1 : k - m \in 1 .. h - 1 /\ m + (k - m) = k
    BY <1>1, <2>1
  <2>5. m \in 1 .. i - 1 /\ s[m].op = "finish"
    BY <1>1, <1>2, <1>3, <2>1 DEF m
  <2>6. ASSUME NEW key \in Uses(s[i])
        PROVE  \E j \in 1 .. i - 1 : MadeFor(s, j, i) /\ s[j].as = key
    <3>1. PICK j \in 1 .. h - 1 : Makes(y[j]) /\ y[j].as = key
      BY <2>2, <2>6 DEF FitsAt, NamesBefore
    <3>2. m + j \in 1 .. i - 1 /\ s[m + j] = y[j]
      BY <1>1, <2>1, <2>3
    <3>3. \A k \in m + j .. i - 1 : s[k].op # "finish"
      <4>1. \A k \in m + j .. i - 1 : k \in m + 1 .. i - 1
        BY <1>1, <2>1
      <4> QED BY <2>3, <2>4, <4>1
    <3> QED BY <3>1, <3>2, <3>3 DEF MadeFor
  <2>7. ASSUME Makes(s[i]), NEW j \in 1 .. i - 1, MadeFor(s, j, i), s[j].as = s[i].as
        PROVE  FALSE
    <3>1. ~(m \in j .. i - 1)
      BY <2>5, <2>7 DEF MadeFor
    <3>2. j \in m + 1 .. i - 1
      BY <1>1, <2>1, <2>5, <3>1
    <3>3. j - m \in 1 .. h - 1 /\ s[j] = y[j - m]
      BY <2>3, <2>4, <3>2
    <3> QED BY <2>2, <2>7, <3>3 DEF FitsAt, NamesBefore, MadeFor
  <2>8. Adds(s[i]) \/ s[i].op = "end" => InOpen(s, i)
    <3>1. Len(s) \in Nat /\ Len(y) \in Nat /\ PartAt(s, m, y) /\ h \in 1 .. Len(y)
      BY <1>1, <2>1 DEF n
    <3>2. InOpen(y, h) => InOpen(s, m + h)
      BY <3>1, InOpenPart
    <3> QED BY <2>1, <2>2, <3>2 DEF FitsAt
  <2>9. s[i].op = "finish" => i = Len(s)
    BY <1>1, <2>1, <2>2 DEF FitsAt, n
  <2>10. i < Len(s) => s[i].op # "finish"
    BY <1>1, <2>1, <2>9
  <2>11. IsCall(s[i])
    BY <2>2 DEF FitsAt
  <2> QED BY <2>5, <2>6, <2>7, <2>8, <2>10, <2>11 DEF InOrder, InOpen, s
<1> QED BY <1>1, <1>5, <1>6 DEF s

-----------------------------------------------------------------------------
(* The calls of the build functions, one by one. *)

\* The calls for an entry with a code.
LEMMA LogEntryCoded ==
  ASSUME NEW vector, NEW i, NEW e, e.code # None
  PROVE  LET t == LogEntry(vector, i, e)
             at == Key(vector, i) IN
         /\ IsBuffer(t) /\ Len(t) = 10
         /\ t[1] = Str("name", at, e.name) /\ t[2] = Str("author", at, e.author)
         /\ t[3] = Str("code", at, e.code) /\ t[4] = Start(6) /\ t[5] = U32(0, e.id)
         /\ t[6] = U32(1, e.ts) /\ t[7] = Off(3, "name", at) /\ t[8] = Off(4, "author", at)
         /\ t[9] = Off(5, "code", at) /\ t[10] = End(vector, i)
<1> DEFINE at == Key(vector, i)
           c1 == Str("name", at, e.name)
           c2 == Str("author", at, e.author)
           c3 == Str("code", at, e.code)
           c4 == Start(6)
           c5 == U32(0, e.id)
           c6 == U32(1, e.ts)
           c7 == Off(3, "name", at)
           c8 == Off(4, "author", at)
           c9 == Off(5, "code", at)
           c10 == End(vector, i)
           C == {c1, c2, c3, c4, c5, c6, c7, c8, c9, c10}
<1>1. LogEntry(vector, i, e) = <<c1, c2>> \o <<c3>> \o <<c4, c5, c6, c7, c8>> \o <<c9>> \o <<c10>>
  BY DEF LogEntry, When
<1> HIDE DEF c1, c2, c3, c4, c5, c6, c7, c8, c9, c10
<1> DEFINE t == <<c1, c2>> \o <<c3>> \o <<c4, c5, c6, c7, c8>> \o <<c9>> \o <<c10>>
<1>2. <<c1, c2>> \in Seq(C) /\ <<c3>> \in Seq(C) /\ <<c4, c5, c6, c7, c8>> \in Seq(C)
      /\ <<c9>> \in Seq(C) /\ <<c10>> \in Seq(C)
  OBVIOUS
<1>3. t \in Seq(C)
  BY <1>2
<1>4. Len(t) = 10
  OBVIOUS
<1>5. /\ t[1] = c1 /\ t[2] = c2 /\ t[3] = c3 /\ t[4] = c4 /\ t[5] = c5 /\ t[6] = c6
      /\ t[7] = c7 /\ t[8] = c8 /\ t[9] = c9 /\ t[10] = c10
  OBVIOUS
<1> QED BY <1>1, <1>3, <1>4, <1>5 DEF IsBuffer, c1, c2, c3, c4, c5, c6, c7, c8, c9, c10

\* The calls for an entry without one.
LEMMA LogEntryBare ==
  ASSUME NEW vector, NEW i, NEW e, e.code = None
  PROVE  LET t == LogEntry(vector, i, e)
             at == Key(vector, i) IN
         /\ IsBuffer(t) /\ Len(t) = 8
         /\ t[1] = Str("name", at, e.name) /\ t[2] = Str("author", at, e.author)
         /\ t[3] = Start(5) /\ t[4] = U32(0, e.id) /\ t[5] = U32(1, e.ts)
         /\ t[6] = Off(3, "name", at) /\ t[7] = Off(4, "author", at) /\ t[8] = End(vector, i)
<1> DEFINE at == Key(vector, i)
           c1 == Str("name", at, e.name)
           c2 == Str("author", at, e.author)
           c3 == Start(5)
           c4 == U32(0, e.id)
           c5 == U32(1, e.ts)
           c6 == Off(3, "name", at)
           c7 == Off(4, "author", at)
           c8 == End(vector, i)
           C == {c1, c2, c3, c4, c5, c6, c7, c8}
<1>1. LogEntry(vector, i, e) = <<c1, c2>> \o <<>> \o <<c3, c4, c5, c6, c7>> \o <<>> \o <<c8>>
  BY DEF LogEntry, When
<1> HIDE DEF c1, c2, c3, c4, c5, c6, c7, c8
<1> DEFINE t == <<c1, c2>> \o <<>> \o <<c3, c4, c5, c6, c7>> \o <<>> \o <<c8>>
<1>2. <<c1, c2>> \in Seq(C) /\ <<>> \in Seq(C) /\ <<c3, c4, c5, c6, c7>> \in Seq(C)
      /\ <<c8>> \in Seq(C)
  OBVIOUS
<1>3. t \in Seq(C)
  BY <1>2
<1>4. Len(t) = 8
  OBVIOUS
<1>5. /\ t[1] = c1 /\ t[2] = c2 /\ t[3] = c3 /\ t[4] = c4 /\ t[5] = c5 /\ t[6] = c6
      /\ t[7] = c7 /\ t[8] = c8
  OBVIOUS
<1> QED BY <1>1, <1>3, <1>4, <1>5 DEF IsBuffer, c1, c2, c3, c4, c5, c6, c7, c8

\* The calls for an entry of configs.
LEMMA ConfigEntryCalls ==
  ASSUME NEW i, NEW e
  PROVE  LET t == ConfigEntry(i, e)
             at == Key("config", i) IN
         /\ IsBuffer(t) /\ Len(t) = 9
         /\ t[1] = Str("name", at, e.name) /\ t[2] = Str("author", at, e.author)
         /\ t[3] = Gap(8) /\ t[4] = Start(5) /\ t[5] = U32(0, e.id) /\ t[6] = U32(1, e.ts)
         /\ t[7] = Off(3, "name", at) /\ t[8] = Off(4, "author", at) /\ t[9] = End("config", i)
<1> DEFINE at == Key("config", i)
           c1 == Str("name", at, e.name)
           c2 == Str("author", at, e.author)
           c3 == Gap(8)
           c4 == Start(5)
           c5 == U32(0, e.id)
           c6 == U32(1, e.ts)
           c7 == Off(3, "name", at)
           c8 == Off(4, "author", at)
           c9 == End("config", i)
           C == {c1, c2, c3, c4, c5, c6, c7, c8, c9}
<1>1. ConfigEntry(i, e) = <<c1, c2, c3, c4, c5, c6, c7, c8, c9>>
  BY DEF ConfigEntry
<1> HIDE DEF c1, c2, c3, c4, c5, c6, c7, c8, c9
<1> DEFINE t == <<c1, c2, c3, c4, c5, c6, c7, c8, c9>>
<1>2. t \in Seq(C) /\ Len(t) = 9
  OBVIOUS
<1>3. /\ t[1] = c1 /\ t[2] = c2 /\ t[3] = c3 /\ t[4] = c4 /\ t[5] = c5 /\ t[6] = c6
      /\ t[7] = c7 /\ t[8] = c8 /\ t[9] = c9
  OBVIOUS
<1> QED BY <1>1, <1>2, <1>3 DEF IsBuffer, c1, c2, c3, c4, c5, c6, c7, c8, c9

\* The calls for the strings of a language.
LEMMA LangStringsBuffer ==
  ASSUME NEW i, NEW l
  PROVE  /\ IsBuffer(LangStrings(i, l))
         /\ LET x == When(l.translations # None, <<Str("translations", i, l.translations)>>)
                y == <<Str("langCode", i, l.code), Str("english", i, l.english)>>
                z == When(l.native # l.english, <<Str("native", i, l.native)>>) IN
            LangStrings(i, l) = (x \o y) \o z /\ IsBuffer(x) /\ IsBuffer(y) /\ IsBuffer(z)
               /\ IsBuffer(x \o y)
<1> DEFINE c1 == Str("translations", i, l.translations)
           c2 == Str("langCode", i, l.code)
           c3 == Str("english", i, l.english)
           c4 == Str("native", i, l.native)
           x == When(l.translations # None, <<c1>>)
           y == <<c2, c3>>
           z == When(l.native # l.english, <<c4>>)
<1>1. LangStrings(i, l) = (x \o y) \o z
  BY DEF LangStrings
<1> HIDE DEF c1, c2, c3, c4
<1>2. x \in Seq({c1}) /\ y \in Seq({c2, c3}) /\ z \in Seq({c4})
  <2>1. x \in {<<c1>>, <<>>} /\ z \in {<<c4>>, <<>>}
    BY DEF When
  <2>2. <<c1>> \in Seq({c1}) /\ <<>> \in Seq({c1}) /\ y \in Seq({c2, c3})
        /\ <<c4>> \in Seq({c4}) /\ <<>> \in Seq({c4})
    OBVIOUS
  <2> QED BY <2>1, <2>2
<1>3. IsBuffer(x) /\ IsBuffer(y) /\ IsBuffer(z)
  BY <1>2 DEF IsBuffer
<1> HIDE DEF x, y, z
<1>4. IsBuffer(x \o y) /\ IsBuffer((x \o y) \o z)
  BY <1>3, Joined
<1> QED BY <1>1, <1>3, <1>4 DEF x, y, z, c1, c2, c3, c4

\* The calls for the table of a language, English or not.
LEMMA LangTableCalls ==
  ASSUME NEW i, NEW l
  PROVE  LET t == LangTable(i, l)
             n == Len(t)
             native == Off(5, IF l.native = l.english THEN "english" ELSE "native", i) IN
         /\ IsBuffer(t) /\ n = (IF l.translations # None THEN 6 ELSE 5)
         /\ t[1] = Start(7) /\ t[2] = Off(2, "langCode", i) /\ t[3] = Off(4, "english", i)
         /\ t[4] = native /\ t[n] = End("lang", i)
         /\ l.translations # None => t[5] = Off(6, "translations", i)
<1> DEFINE c1 == Start(7)
           c2 == Off(2, "langCode", i)
           c3 == Off(4, "english", i)
           c4 == Off(5, IF l.native = l.english THEN "english" ELSE "native", i)
           c5 == Off(6, "translations", i)
           c6 == End("lang", i)
           C == {c1, c2, c3, c4, c5, c6}
           w == IF l.translations # None THEN <<c5>> ELSE <<>>
           t == <<c1, c2, c3, c4>> \o w \o <<c6>>
<1>1. LangTable(i, l) = t
  BY DEF LangTable, When
<1> HIDE DEF c1, c2, c3, c4, c5, c6
<1>2. <<c1, c2, c3, c4>> \in Seq(C) /\ w \in Seq(C) /\ <<c6>> \in Seq(C)
  <2>1. <<c1, c2, c3, c4>> \in Seq(C) /\ <<c6>> \in Seq(C) /\ <<c5>> \in Seq(C)
        /\ <<>> \in Seq(C)
    OBVIOUS
  <2> HIDE DEF C
  <2>2. w \in Seq(C)
    BY <2>1
  <2> QED BY <2>1, <2>2
<1> HIDE DEF w
<1>3. t \in Seq(C)
  BY <1>2
<1>4. CASE l.translations # None
  <2> DEFINE u == <<c1, c2, c3, c4>> \o <<c5>> \o <<c6>>
  <2>1. t = u
    BY <1>4 DEF w
  <2>2. /\ Len(u) = 6 /\ u[1] = c1 /\ u[2] = c2 /\ u[3] = c3 /\ u[4] = c4 /\ u[5] = c5
        /\ u[6] = c6
    OBVIOUS
  <2> HIDE DEF u, t
  <2> QED BY <1>1, <1>3, <1>4, <2>1, <2>2 DEF IsBuffer, c1, c2, c3, c4, c5, c6
<1>5. CASE l.translations = None
  <2> DEFINE u == <<c1, c2, c3, c4>> \o <<>> \o <<c6>>
  <2>1. t = u
    BY <1>5 DEF w
  <2>2. /\ Len(u) = 5 /\ u[1] = c1 /\ u[2] = c2 /\ u[3] = c3 /\ u[4] = c4 /\ u[5] = c6
    OBVIOUS
  <2> HIDE DEF u, t
  <2> QED BY <1>1, <1>3, <1>5, <2>1, <2>2 DEF IsBuffer, c1, c2, c3, c4, c5, c6
<1> QED BY <1>4, <1>5

\* The calls of a wrapper after its payload.
WrapperEnd(type) ==
  <<Payload, Start(2), U32(0, type), Off(1, "payload", 0), End("wrapper", 0),
    Finished("wrapper")>>

\* The calls of a wrapper.
LEMMA WrapperBuffer ==
  ASSUME NEW forced, NEW type
  PROVE  LET x == When(forced, <<ForceCall>>)
             y == WrapperEnd(type) IN
         /\ Wrapper(forced, type) = x \o y /\ IsBuffer(x) /\ IsBuffer(y) /\ Len(y) = 6
         /\ y[1] = Payload /\ y[2] = Start(2) /\ y[3] = U32(0, type)
         /\ y[4] = Off(1, "payload", 0) /\ y[5] = End("wrapper", 0)
         /\ y[6] = Finished("wrapper")
<1> DEFINE c1 == Payload
           c2 == Start(2)
           c3 == U32(0, type)
           c4 == Off(1, "payload", 0)
           c5 == End("wrapper", 0)
           c6 == Finished("wrapper")
           c7 == ForceCall
           x == When(forced, <<c7>>)
           y == <<c1, c2, c3, c4, c5, c6>>
<1>1. Wrapper(forced, type) = x \o y /\ WrapperEnd(type) = y
  BY DEF Wrapper, WrapperEnd
<1> HIDE DEF c1, c2, c3, c4, c5, c6, c7
<1>2. x \in {<<c7>>, <<>>}
  BY DEF When
<1>3. <<c7>> \in Seq({c7}) /\ <<>> \in Seq({c7}) /\ y \in Seq({c1, c2, c3, c4, c5, c6})
  OBVIOUS
<1>4. x \in Seq({c7})
  BY <1>2, <1>3
<1>5. Len(y) = 6 /\ y[1] = c1 /\ y[2] = c2 /\ y[3] = c3 /\ y[4] = c4 /\ y[5] = c5 /\ y[6] = c6
  OBVIOUS
<1> HIDE DEF x, y
<1>6. IsBuffer(x) /\ IsBuffer(y)
  BY <1>3, <1>4 DEF IsBuffer
<1>7. x = When(forced, <<ForceCall>>)
  BY DEF x, c7
<1> QED BY <1>1, <1>5, <1>6, <1>7 DEF c1, c2, c3, c4, c5, c6

\* The calls for a case-11 reply.
LEMMA Case11Calls ==
  ASSUME NEW m
  PROVE  LET t == Case11Inner(m) IN
         /\ IsBuffer(t) /\ Len(t) = 6
         /\ t[1] = Str("text", 0, m.text) /\ t[2] = Start(3) /\ t[3] = U32(0, m.id)
         /\ t[4] = Off(2, "text", 0) /\ t[5] = End("root", 0) /\ t[6] = Finished("root")
<1> DEFINE c1 == Str("text", 0, m.text)
           c2 == Start(3)
           c3 == U32(0, m.id)
           c4 == Off(2, "text", 0)
           c5 == End("root", 0)
           c6 == Finished("root")
           t == <<c1, c2, c3, c4, c5, c6>>
<1>1. Case11Inner(m) = t
  BY DEF Case11Inner
<1> HIDE DEF c1, c2, c3, c4, c5, c6
<1>2. t \in Seq({c1, c2, c3, c4, c5, c6})
  OBVIOUS
<1>3. Len(t) = 6 /\ t[1] = c1 /\ t[2] = c2 /\ t[3] = c3 /\ t[4] = c4 /\ t[5] = c5 /\ t[6] = c6
  OBVIOUS
<1> QED BY <1>1, <1>2, <1>3 DEF IsBuffer, c1, c2, c3, c4, c5, c6

\* The calls for a reply to a create, after those for its entry.
CreateEnd(m) ==
  <<Refs("entries", <<Key("entry", 1)>>), Start(3), U32(0, m.type), Off(1, "entries", 0),
    End("root", 0), Finished("root")>>

\* The calls for a reply to a create.
LEMMA CreateCalls ==
  ASSUME NEW m
  PROVE  LET x == LogEntry("entry", 1, m.entry)
             t == CreateEnd(m) IN
         /\ CreateInner(m) = x \o t /\ IsBuffer(x) /\ IsBuffer(t) /\ Len(t) = 6
         /\ t[1] = Refs("entries", <<Key("entry", 1)>>) /\ t[2] = Start(3)
         /\ t[3] = U32(0, m.type) /\ t[4] = Off(1, "entries", 0) /\ t[5] = End("root", 0)
         /\ t[6] = Finished("root")
<1> DEFINE c1 == Refs("entries", <<Key("entry", 1)>>)
           c2 == Start(3)
           c3 == U32(0, m.type)
           c4 == Off(1, "entries", 0)
           c5 == End("root", 0)
           c6 == Finished("root")
           t == <<c1, c2, c3, c4, c5, c6>>
           x == LogEntry("entry", 1, m.entry)
<1>1. CreateInner(m) = x \o t /\ CreateEnd(m) = t
  BY DEF CreateInner, CreateEnd
<1>2. IsBuffer(x)
  BY LogEntryCoded, LogEntryBare
<1> HIDE DEF c1, c2, c3, c4, c5, c6, x
<1>3. t \in Seq({c1, c2, c3, c4, c5, c6})
  OBVIOUS
<1>4. Len(t) = 6 /\ t[1] = c1 /\ t[2] = c2 /\ t[3] = c3 /\ t[4] = c4 /\ t[5] = c5 /\ t[6] = c6
  OBVIOUS
<1> QED BY <1>1, <1>2, <1>3, <1>4 DEF IsBuffer, c1, c2, c3, c4, c5, c6, x

\* A segment of a script for each of a list.
LEMMA ForList ==
  ASSUME NEW seq, IsList(seq)
  PROVE  DOMAIN seq = 1 .. Len(seq) /\ Len(seq) \in Nat
BY DEF IsList

\* The calls for the entries of configs.
ConfigCalls(m) == ForEach(m.configs, LAMBDA i : ConfigEntry(i, m.configs[i]))

\* The calls for the entries of scripts or styles.
LogCalls(vector, es) == ForEach(es, LAMBDA i : LogEntry(vector, i, es[i]))

\* The calls for the strings of the languages.
StringCalls(m) == ForEach(m.langs, LAMBDA i : LangStrings(i, m.langs[i]))

\* The calls for the tables of the languages.
LangCalls(m) ==
  ForEach(LangOrder(m.langs),
          LAMBDA i : LangTable(LangOrder(m.langs)[i], m.langs[LangOrder(m.langs)[i]]))

\* The order of the languages has each of them once.
LEMMA LangOrderAll ==
  ASSUME NEW langs, IsList(langs)
  PROVE  LET o == LangOrder(langs)
             n == Len(langs) IN
         /\ DOMAIN o = 1 .. n
         /\ \A l \in 1 .. n : \E i \in 1 .. n : o[i] = l
         /\ \A i \in 1 .. n : o[i] \in 1 .. n
         /\ \A i, j \in 1 .. n : o[i] = o[j] => i = j
<1> DEFINE o == LangOrder(langs)
           n == Len(langs)
<1>1. n \in Nat /\ DOMAIN langs = 1 .. n
  BY ForList
<1>2. CASE n = 5
  <2>1. o = <<1, 4, 3, 2, 5>>
    BY <1>2 DEF LangOrder
  <2>2. DOMAIN o = 1 .. 5 /\ o[1] = 1 /\ o[2] = 4 /\ o[3] = 3 /\ o[4] = 2 /\ o[5] = 5
    BY <2>1
  <2> HIDE DEF o
  <2>3. \A l \in 1 .. 5 : \E i \in 1 .. 5 : o[i] = l
    BY <2>2
  <2>4. 1 .. 5 = {1, 2, 3, 4, 5}
    OBVIOUS
  <2>5. \A i \in 1 .. 5 : o[i] \in 1 .. 5
    BY <2>2, <2>4
  <2>6. \A i, j \in 1 .. 5 : o[i] = o[j] => i = j
    BY <2>2, <2>4
  <2> QED BY <1>2, <2>2, <2>3, <2>5, <2>6 DEF o
<1>3. CASE n # 5
  <2>1. o = [i \in 1 .. n |-> i]
    BY <1>1, <1>3 DEF LangOrder
  <2> QED BY <2>1
<1> QED BY <1>2, <1>3

\* The calls for the strings and bytes of the module itself.
ExtraCalls(m) ==
  <<Gap(4), Bytes("extra", m.extra), Str("admin", 0, Admin), Bytes("skins", m.skins),
    Str("token", 0, m.token)>>

\* The calls for the vectors and the root table of the module.
RootCalls(m) ==
  <<Refs("langs", Keys("lang", m.langs)), Refs("scripts", Keys("script", m.scripts)),
    Refs("styles", Keys("style", m.styles)), Refs("configs", Keys("config", m.configs)),
    Start(13), Off(4, "configs", 0), Off(5, "scripts", 0), Off(6, "styles", 0),
    Off(7, "langs", 0), Off(1, "extra", 0), Gap(4), Str("user", 0, m.user),
    Off(2, "user", 0), Off(9, "skins", 0), U32(3, m.checksum), U32(8, m.enabled),
    U32(12, m.capacity), Off(11, "token", 0), End("root", 0), Finished("root")>>

\* The script of a module is these segments in a row.
LEMMA ModuleCalls ==
  ASSUME NEW m
  PROVE  ModuleInner(m) =
           ConfigCalls(m) \o LogCalls("script", m.scripts) \o LogCalls("style", m.styles)
           \o StringCalls(m) \o ExtraCalls(m) \o LangCalls(m) \o RootCalls(m)
BY DEF ModuleInner, ConfigCalls, LogCalls, StringCalls, ExtraCalls, LangCalls, RootCalls

\* The calls for the vectors and the root table, one by one.
LEMMA RootElements ==
  ASSUME NEW m
  PROVE  LET t == RootCalls(m) IN
         /\ IsBuffer(t) /\ Len(t) = 20
         /\ t[1] = Refs("langs", Keys("lang", m.langs))
         /\ t[2] = Refs("scripts", Keys("script", m.scripts))
         /\ t[3] = Refs("styles", Keys("style", m.styles))
         /\ t[4] = Refs("configs", Keys("config", m.configs)) /\ t[5] = Start(13)
         /\ t[6] = Off(4, "configs", 0) /\ t[7] = Off(5, "scripts", 0)
         /\ t[8] = Off(6, "styles", 0) /\ t[9] = Off(7, "langs", 0)
         /\ t[10] = Off(1, "extra", 0) /\ t[11] = Gap(4) /\ t[12] = Str("user", 0, m.user)
         /\ t[13] = Off(2, "user", 0) /\ t[14] = Off(9, "skins", 0)
         /\ t[15] = U32(3, m.checksum) /\ t[16] = U32(8, m.enabled)
         /\ t[17] = U32(12, m.capacity) /\ t[18] = Off(11, "token", 0)
         /\ t[19] = End("root", 0) /\ t[20] = Finished("root")
<1> DEFINE c1 == Refs("langs", Keys("lang", m.langs))
           c2 == Refs("scripts", Keys("script", m.scripts))
           c3 == Refs("styles", Keys("style", m.styles))
           c4 == Refs("configs", Keys("config", m.configs))
           c5 == Start(13)
           c6 == Off(4, "configs", 0)
           c7 == Off(5, "scripts", 0)
           c8 == Off(6, "styles", 0)
           c9 == Off(7, "langs", 0)
           c10 == Off(1, "extra", 0)
           c11 == Gap(4)
           c12 == Str("user", 0, m.user)
           c13 == Off(2, "user", 0)
           c14 == Off(9, "skins", 0)
           c15 == U32(3, m.checksum)
           c16 == U32(8, m.enabled)
           c17 == U32(12, m.capacity)
           c18 == Off(11, "token", 0)
           c19 == End("root", 0)
           c20 == Finished("root")
           C == {c1, c2, c3, c4, c5, c6, c7, c8, c9, c10, c11, c12, c13, c14, c15, c16, c17,
                 c18, c19, c20}
           t == <<c1, c2, c3, c4, c5, c6, c7, c8, c9, c10, c11, c12, c13, c14, c15, c16, c17,
                  c18, c19, c20>>
<1>1. RootCalls(m) = t
  BY DEF RootCalls
<1> HIDE DEF c1, c2, c3, c4, c5, c6, c7, c8, c9, c10, c11, c12, c13, c14, c15, c16, c17, c18,
             c19, c20
<1>2. t \in Seq(C)
  OBVIOUS
<1>3. /\ Len(t) = 20
      /\ t[1] = c1 /\ t[2] = c2 /\ t[3] = c3 /\ t[4] = c4 /\ t[5] = c5 /\ t[6] = c6
      /\ t[7] = c7 /\ t[8] = c8 /\ t[9] = c9 /\ t[10] = c10 /\ t[11] = c11 /\ t[12] = c12
      /\ t[13] = c13 /\ t[14] = c14 /\ t[15] = c15 /\ t[16] = c16 /\ t[17] = c17
      /\ t[18] = c18 /\ t[19] = c19 /\ t[20] = c20
  OBVIOUS
<1> HIDE DEF t
<1>4. IsBuffer(t)
  BY <1>2 DEF IsBuffer
<1> QED BY <1>1, <1>3, <1>4 DEF c1, c2, c3, c4, c5, c6, c7, c8, c9, c10, c11, c12, c13, c14,
             c15, c16, c17, c18, c19, c20

\* The two parts of a script.
InnerPart(m) ==
  CASE m.kind = "module" -> ModuleInner(m)
    [] m.kind = "create" -> CreateInner(m)
    [] m.kind = "case11" -> Case11Inner(m)

\* The part of a script for the wrapper.
OuterPart(m) ==
  CASE m.kind = "module" -> Wrapper(TRUE, m.version)
    [] m.kind = "create" -> Wrapper(FALSE, 3)
    [] m.kind = "case11" -> Wrapper(FALSE, 11)

\* Two sequences in a row end as the second does.
LEMMA FinishesJoined ==
  ASSUME NEW x, NEW y, NEW name, IsBuffer(x), Finishes(y, name)
  PROVE  Finishes(x \o y, name)
<1> DEFINE z == x \o y
           n == Len(y)
           k == Len(x)
<1>1. /\ IsBuffer(z) /\ Len(z) = k + n /\ k \in Nat /\ n \in Nat
      /\ PartAt(z, k, y)
  BY Joined DEF Finishes
<1>2. n >= 1 /\ y[n].op = "finish" /\ y[n].of = Key(name, 0)
  BY DEF Finishes
<1> HIDE DEF z
<1>3. z[k + n] = y[n]
  BY <1>1, <1>2 DEF PartAt
<1> HIDE DEF n, k
<1>4. z[Len(z)] = y[n] /\ Len(z) >= 1
  BY <1>1, <1>2, <1>3
<1> QED BY <1>1, <1>2, <1>4 DEF Finishes, z

\* A wrapper ends with the finish of its table.
LEMMA WrapperFinishes ==
  ASSUME NEW forced, NEW type
  PROVE  Finishes(Wrapper(forced, type), "wrapper")
<1> DEFINE x == When(forced, <<ForceCall>>)
           y == WrapperEnd(type)
<1>1. /\ Wrapper(forced, type) = x \o y /\ IsBuffer(x) /\ IsBuffer(y) /\ Len(y) = 6
      /\ y[6] = Finished("wrapper")
  BY WrapperBuffer
<1> HIDE DEF x, y
<1>2. Finishes(y, "wrapper")
  BY <1>1 DEF Finishes, Finished
<1> QED BY <1>1, <1>2, FinishesJoined

-----------------------------------------------------------------------------
(* Each build function is in order. *)

\* What the calls for entry i of a list name.
EntryNames(vector, i) ==
  LET at == Key(vector, i) IN {Key("name", at), Key("author", at), Key("code", at), at}

\* The widths of a table's vtable.
LEMMA TableWidths == \A n \in 0 .. 13 : IsCall(Start(n))
<1>1. U16Size \in Int
  <2>1. Base \in Int
    BY BaseAssumption
  <2> QED BY <2>1 DEF U16Size
<1>2. ASSUME NEW n \in 0 .. 13 PROVE n \in Nat /\ 4 + 2 * n < U16Size
  BY <1>1, WidthAssumption
<1> QED BY <1>2 DEF IsCall, Start

\* Such calls are a segment if they neither finish nor need a payload.
LEMMA SegmentOf ==
  ASSUME NEW t, IsBuffer(t), NEW M, NEW K, NamesRight(t, M, K),
         \A k \in 1 .. Len(t) : IsCall(t[k]),
         \A k \in 1 .. Len(t) : Adds(t[k]) \/ t[k].op = "end" => InOpen(t, k),
         \A k \in 1 .. Len(t) : t[k].op \notin {"payload", "finish"}
  PROVE  Segment(t, K, Named(t)) /\ Named(t) = {t[k].as : k \in M}
<1>1. Fits(t, K, FALSE) /\ Named(t) = {t[k].as : k \in M}
  BY CallsFit
<1> QED BY <1>1 DEF Segment, GoesOn

\* An entry with a code (build_log_entry) is a segment.
LEMMA EntryCodedFits ==
  ASSUME NEW vector \in {"script", "style", "entry"}, NEW i, NEW e, IsEntry(e), e.code # None,
         NEW K, K \cap EntryNames(vector, i) = {}
  PROVE  LET t == LogEntry(vector, i, e) IN
         /\ Segment(t, K, Named(t)) /\ Named(t) \subseteq EntryNames(vector, i)
         /\ Key(vector, i) \in Named(t)
<1> DEFINE t == LogEntry(vector, i, e)
           at == Key(vector, i)
           M == {1, 2, 3, 10}
<1>1. /\ IsBuffer(t) /\ Len(t) = 10
      /\ t[1] = Str("name", at, e.name) /\ t[2] = Str("author", at, e.author)
      /\ t[3] = Str("code", at, e.code) /\ t[4] = Start(6) /\ t[5] = U32(0, e.id)
      /\ t[6] = U32(1, e.ts) /\ t[7] = Off(3, "name", at) /\ t[8] = Off(4, "author", at)
      /\ t[9] = Off(5, "code", at) /\ t[10] = End(vector, i)
  BY LogEntryCoded
<1> HIDE DEF t
<1>2. /\ t[1].op = "string" /\ t[1].as = Key("name", at)
      /\ t[2].op = "string" /\ t[2].as = Key("author", at)
      /\ t[3].op = "string" /\ t[3].as = Key("code", at)
      /\ t[4].op = "start" /\ t[4].n = 6
      /\ t[5].op = "u32" /\ t[5].id = 0 /\ t[6].op = "u32" /\ t[6].id = 1
      /\ t[7].op = "offset" /\ t[7].id = 3 /\ t[7].of = Key("name", at)
      /\ t[8].op = "offset" /\ t[8].id = 4 /\ t[8].of = Key("author", at)
      /\ t[9].op = "offset" /\ t[9].id = 5 /\ t[9].of = Key("code", at)
      /\ t[10].op = "end" /\ t[10].as = at
  BY <1>1 DEF Str, Start, U32, Off, End
<1>3. 1 .. Len(t) = {1, 2, 3, 4, 5, 6, 7, 8, 9, 10}
  BY <1>1
<1>4. \A k \in 1 .. Len(t) : IsCall(t[k])
  <2>1. IsCall(t[4])
    BY <1>1, TableWidths
  <2>2. \A k \in {1, 2, 3} : IsCall(t[k])
    <3>1. {e.name, e.author, e.code} \subseteq Seq(Byte)
      BY DEF IsEntry
    <3>2. t[1].bytes = e.name /\ t[2].bytes = e.author /\ t[3].bytes = e.code
      BY <1>1 DEF Str
    <3> QED BY <1>2, <3>1, <3>2 DEF IsCall
  <2>3. \A k \in {5, 6} : IsCall(t[k])
    <3>1. {e.id, e.ts} \subseteq 0 .. (U32Size - 1)
      BY DEF IsEntry, Word
    <3>2. t[5].v = e.id /\ t[6].v = e.ts
      BY <1>1 DEF U32
    <3> QED BY <1>2, <3>1, <3>2 DEF IsCall
  <2>4. \A k \in {7, 8, 9, 10} : IsCall(t[k])
    BY <1>2 DEF IsCall
  <2> QED BY <1>3, <2>1, <2>2, <2>3, <2>4
<1>5. NamesRight(t, M, K)
  <2>1. M = {k \in 1 .. Len(t) : Makes(t[k])}
    BY <1>2, <1>3 DEF Makes
  <2>2. \A k \in M : t[k].as \notin K
    BY <1>2 DEF EntryNames
  <2>3. \A k, l \in M : t[k].as = t[l].as => k = l
    BY <1>2 DEF Key
  <2>4. ASSUME NEW k \in 1 .. Len(t), NEW key \in Uses(t[k])
        PROVE  \E l \in M : l < k /\ t[l].as = key
    <3>1. k \in {7, 8, 9} /\ key = t[k].of
      BY <1>2, <1>3, <2>4 DEF Uses
    <3>2. k - 6 \in M /\ k - 6 < k /\ t[k - 6].as = t[k].of
      BY <1>2, <3>1
    <3> QED BY <3>1, <3>2
  <2> QED BY <2>1, <2>2, <2>3, <2>4 DEF NamesRight
<1>6. OneTable(t, 4, 10)
  <2>1. \A k \in 4 + 1 .. 10 - 1 : k \in {5, 6, 7, 8, 9}
    OBVIOUS
  <2>2. \A k \in {5, 6, 7, 8, 9} : t[k].op \in {"u32", "offset"} /\ t[k].id < t[4].n
    BY <1>2
  <2>3. \A k \in 1 .. Len(t) : Adds(t[k]) => k \in {5, 6, 7, 8, 9}
    BY <1>2, <1>3 DEF Adds
  <2>4. \A k, l \in {5, 6, 7, 8, 9} : t[k].id = t[l].id => k = l
    BY <1>2
  <2>5. \A k \in 1 .. Len(t) : t[k].op = "end" => k = 10
    BY <1>2, <1>3
  <2> QED BY <1>1, <1>2, <2>1, <2>2, <2>3, <2>4, <2>5 DEF OneTable
<1>7. \A k \in 1 .. Len(t) : t[k].op \notin {"payload", "finish"}
  BY <1>2, <1>3
<1>8. Segment(t, K, Named(t)) /\ Named(t) = {t[k].as : k \in M}
  <2>1. \A k \in 1 .. Len(t) : Adds(t[k]) \/ t[k].op = "end" => InOpen(t, k)
    BY <1>6, OneTableOpen
  <2> QED BY <1>1, <1>4, <1>5, <1>7, <2>1, SegmentOf
<1> QED BY <1>2, <1>8 DEF EntryNames, t

\* An entry without one is.
LEMMA EntryBareFits ==
  ASSUME NEW vector \in {"script", "style", "entry"}, NEW i, NEW e, IsEntry(e), e.code = None,
         NEW K, K \cap EntryNames(vector, i) = {}
  PROVE  LET t == LogEntry(vector, i, e) IN
         /\ Segment(t, K, Named(t)) /\ Named(t) \subseteq EntryNames(vector, i)
         /\ Key(vector, i) \in Named(t)
<1> DEFINE t == LogEntry(vector, i, e)
           at == Key(vector, i)
           M == {1, 2, 8}
<1>1. /\ IsBuffer(t) /\ Len(t) = 8
      /\ t[1] = Str("name", at, e.name) /\ t[2] = Str("author", at, e.author)
      /\ t[3] = Start(5) /\ t[4] = U32(0, e.id) /\ t[5] = U32(1, e.ts)
      /\ t[6] = Off(3, "name", at) /\ t[7] = Off(4, "author", at) /\ t[8] = End(vector, i)
  BY LogEntryBare
<1> HIDE DEF t
<1>2. /\ t[1].op = "string" /\ t[1].as = Key("name", at)
      /\ t[2].op = "string" /\ t[2].as = Key("author", at)
      /\ t[3].op = "start" /\ t[3].n = 5
      /\ t[4].op = "u32" /\ t[4].id = 0 /\ t[5].op = "u32" /\ t[5].id = 1
      /\ t[6].op = "offset" /\ t[6].id = 3 /\ t[6].of = Key("name", at)
      /\ t[7].op = "offset" /\ t[7].id = 4 /\ t[7].of = Key("author", at)
      /\ t[8].op = "end" /\ t[8].as = at
  BY <1>1 DEF Str, Start, U32, Off, End
<1>3. 1 .. Len(t) = {1, 2, 3, 4, 5, 6, 7, 8}
  BY <1>1
<1>4. \A k \in 1 .. Len(t) : IsCall(t[k])
  <2>1. IsCall(t[3])
    BY <1>1, TableWidths
  <2>2. \A k \in {1, 2} : IsCall(t[k])
    <3>1. {e.name, e.author} \subseteq Seq(Byte)
      BY DEF IsEntry
    <3>2. t[1].bytes = e.name /\ t[2].bytes = e.author
      BY <1>1 DEF Str
    <3> QED BY <1>2, <3>1, <3>2 DEF IsCall
  <2>3. \A k \in {4, 5} : IsCall(t[k])
    <3>1. {e.id, e.ts} \subseteq 0 .. (U32Size - 1)
      BY DEF IsEntry, Word
    <3>2. t[4].v = e.id /\ t[5].v = e.ts
      BY <1>1 DEF U32
    <3> QED BY <1>2, <3>1, <3>2 DEF IsCall
  <2>4. \A k \in {6, 7, 8} : IsCall(t[k])
    BY <1>2 DEF IsCall
  <2> QED BY <1>3, <2>1, <2>2, <2>3, <2>4
<1>5. NamesRight(t, M, K)
  <2>1. M = {k \in 1 .. Len(t) : Makes(t[k])}
    BY <1>2, <1>3 DEF Makes
  <2>2. \A k \in M : t[k].as \notin K
    BY <1>2 DEF EntryNames
  <2>3. \A k, l \in M : t[k].as = t[l].as => k = l
    BY <1>2 DEF Key
  <2>4. ASSUME NEW k \in 1 .. Len(t), NEW key \in Uses(t[k])
        PROVE  \E l \in M : l < k /\ t[l].as = key
    <3>1. k \in {6, 7} /\ key = t[k].of
      BY <1>2, <1>3, <2>4 DEF Uses
    <3>2. k - 5 \in M /\ k - 5 < k /\ t[k - 5].as = t[k].of
      BY <1>2, <3>1
    <3> QED BY <3>1, <3>2
  <2> QED BY <2>1, <2>2, <2>3, <2>4 DEF NamesRight
<1>6. OneTable(t, 3, 8)
  <2>1. \A k \in 3 + 1 .. 8 - 1 : k \in {4, 5, 6, 7}
    OBVIOUS
  <2>2. \A k \in {4, 5, 6, 7} : t[k].op \in {"u32", "offset"} /\ t[k].id < t[3].n
    BY <1>2
  <2>3. \A k \in 1 .. Len(t) : Adds(t[k]) => k \in {4, 5, 6, 7}
    BY <1>2, <1>3 DEF Adds
  <2>4. \A k, l \in {4, 5, 6, 7} : t[k].id = t[l].id => k = l
    BY <1>2
  <2>5. \A k \in 1 .. Len(t) : t[k].op = "end" => k = 8
    BY <1>2, <1>3
  <2> QED BY <1>1, <1>2, <2>1, <2>2, <2>3, <2>4, <2>5 DEF OneTable
<1>7. \A k \in 1 .. Len(t) : t[k].op \notin {"payload", "finish"}
  BY <1>2, <1>3
<1>8. Segment(t, K, Named(t)) /\ Named(t) = {t[k].as : k \in M}
  <2>1. \A k \in 1 .. Len(t) : Adds(t[k]) \/ t[k].op = "end" => InOpen(t, k)
    BY <1>6, OneTableOpen
  <2> QED BY <1>1, <1>4, <1>5, <1>7, <2>1, SegmentOf
<1> QED BY <1>2, <1>8 DEF EntryNames, t

\* An entry of configs (build_log_entry_with_gap) is.
LEMMA ConfigEntryFits ==
  ASSUME NEW i, NEW e, IsEntry(e), NEW K, K \cap EntryNames("config", i) = {}
  PROVE  LET t == ConfigEntry(i, e) IN
         /\ Segment(t, K, Named(t)) /\ Named(t) \subseteq EntryNames("config", i)
         /\ Key("config", i) \in Named(t)
<1> DEFINE t == ConfigEntry(i, e)
           at == Key("config", i)
           M == {1, 2, 9}
<1>1. /\ IsBuffer(t) /\ Len(t) = 9
      /\ t[1] = Str("name", at, e.name) /\ t[2] = Str("author", at, e.author)
      /\ t[3] = Gap(8) /\ t[4] = Start(5) /\ t[5] = U32(0, e.id) /\ t[6] = U32(1, e.ts)
      /\ t[7] = Off(3, "name", at) /\ t[8] = Off(4, "author", at) /\ t[9] = End("config", i)
  BY ConfigEntryCalls
<1> HIDE DEF t
<1>2. /\ t[1].op = "string" /\ t[1].as = Key("name", at)
      /\ t[2].op = "string" /\ t[2].as = Key("author", at)
      /\ t[3].op = "zeros" /\ t[3].n = 8
      /\ t[4].op = "start" /\ t[4].n = 5
      /\ t[5].op = "u32" /\ t[5].id = 0 /\ t[6].op = "u32" /\ t[6].id = 1
      /\ t[7].op = "offset" /\ t[7].id = 3 /\ t[7].of = Key("name", at)
      /\ t[8].op = "offset" /\ t[8].id = 4 /\ t[8].of = Key("author", at)
      /\ t[9].op = "end" /\ t[9].as = at
  BY <1>1 DEF Str, Gap, Start, U32, Off, End
<1>3. 1 .. Len(t) = {1, 2, 3, 4, 5, 6, 7, 8, 9}
  BY <1>1
<1>4. \A k \in 1 .. Len(t) : IsCall(t[k])
  <2>1. IsCall(t[4])
    BY <1>1, TableWidths
  <2>2. \A k \in {1, 2} : IsCall(t[k])
    <3>1. {e.name, e.author} \subseteq Seq(Byte)
      BY DEF IsEntry
    <3>2. t[1].bytes = e.name /\ t[2].bytes = e.author
      BY <1>1 DEF Str
    <3> QED BY <1>2, <3>1, <3>2 DEF IsCall
  <2>3. \A k \in {5, 6} : IsCall(t[k])
    <3>1. {e.id, e.ts} \subseteq 0 .. (U32Size - 1)
      BY DEF IsEntry, Word
    <3>2. t[5].v = e.id /\ t[6].v = e.ts
      BY <1>1 DEF U32
    <3> QED BY <1>2, <3>1, <3>2 DEF IsCall
  <2>4. \A k \in {3, 7, 8, 9} : IsCall(t[k])
    BY <1>2 DEF IsCall
  <2> QED BY <1>3, <2>1, <2>2, <2>3, <2>4
<1>5. NamesRight(t, M, K)
  <2>1. M = {k \in 1 .. Len(t) : Makes(t[k])}
    BY <1>2, <1>3 DEF Makes
  <2>2. \A k \in M : t[k].as \notin K
    BY <1>2 DEF EntryNames
  <2>3. \A k, l \in M : t[k].as = t[l].as => k = l
    BY <1>2 DEF Key
  <2>4. ASSUME NEW k \in 1 .. Len(t), NEW key \in Uses(t[k])
        PROVE  \E l \in M : l < k /\ t[l].as = key
    <3>1. k \in {7, 8} /\ key = t[k].of
      BY <1>2, <1>3, <2>4 DEF Uses
    <3>2. k - 6 \in M /\ k - 6 < k /\ t[k - 6].as = t[k].of
      BY <1>2, <3>1
    <3> QED BY <3>1, <3>2
  <2> QED BY <2>1, <2>2, <2>3, <2>4 DEF NamesRight
<1>6. OneTable(t, 4, 9)
  <2>1. \A k \in 4 + 1 .. 9 - 1 : k \in {5, 6, 7, 8}
    OBVIOUS
  <2>2. \A k \in {5, 6, 7, 8} : t[k].op \in {"u32", "offset"} /\ t[k].id < t[4].n
    BY <1>2
  <2>3. \A k \in 1 .. Len(t) : Adds(t[k]) => k \in {5, 6, 7, 8}
    BY <1>2, <1>3 DEF Adds
  <2>4. \A k, l \in {5, 6, 7, 8} : t[k].id = t[l].id => k = l
    BY <1>2
  <2>5. \A k \in 1 .. Len(t) : t[k].op = "end" => k = 9
    BY <1>2, <1>3
  <2> QED BY <1>1, <1>2, <2>1, <2>2, <2>3, <2>4, <2>5 DEF OneTable
<1>7. \A k \in 1 .. Len(t) : t[k].op \notin {"payload", "finish"}
  BY <1>2, <1>3
<1>8. Segment(t, K, Named(t)) /\ Named(t) = {t[k].as : k \in M}
  <2>1. \A k \in 1 .. Len(t) : Adds(t[k]) \/ t[k].op = "end" => InOpen(t, k)
    BY <1>6, OneTableOpen
  <2> QED BY <1>1, <1>4, <1>5, <1>7, <2>1, SegmentOf
<1> QED BY <1>2, <1>8 DEF EntryNames, t

\* What the calls for the strings of a language name.
StringNames(i) ==
  {Key("translations", i), Key("langCode", i), Key("english", i), Key("native", i)}

\* A call that makes a string fits alone.
LEMMA StringFits ==
  ASSUME NEW name, NEW i, NEW str \in Seq(Byte), NEW K, Key(name, i) \notin K
  PROVE  Segment(<<Str(name, i, str)>>, K, {Key(name, i)})
<1> DEFINE c == Str(name, i, str)
           t == <<c>>
           M == {1}
<1>1. c.op = "string" /\ c.as = Key(name, i) /\ c.bytes = str
  BY DEF Str
<1> HIDE DEF c
<1>2. t \in Seq({c}) /\ Len(t) = 1 /\ t[1] = c
  OBVIOUS
<1> HIDE DEF t
<1>3. IsBuffer(t) /\ 1 .. Len(t) = {1}
  BY <1>2 DEF IsBuffer
<1>4. NamesRight(t, M, K)
  <2>1. \A k \in 1 .. Len(t) : Uses(t[k]) = {}
    BY <1>1, <1>2, <1>3 DEF Uses
  <2> QED BY <1>1, <1>2, <1>3, <2>1 DEF NamesRight, Makes
<1>5. \A k \in 1 .. Len(t) : IsCall(t[k]) /\ ~Adds(t[k]) /\ t[k].op \notin {"end", "payload", "finish"}
  BY <1>1, <1>2, <1>3 DEF IsCall, Adds
<1>6. Segment(t, K, Named(t)) /\ Named(t) = {t[k].as : k \in M}
  BY <1>3, <1>4, <1>5, SegmentOf
<1>7. Named(t) = {Key(name, i)}
  BY <1>1, <1>2, <1>6
<1> QED BY <1>6, <1>7 DEF t, c

\* The strings of a language are, and the names its table uses are among them.
LEMMA LangStringsFit ==
  ASSUME NEW i, NEW l, IsLanguage(l), NEW K, K \cap StringNames(i) = {}
  PROVE  LET t == LangStrings(i, l) IN
         /\ Segment(t, K, Named(t)) /\ Named(t) \subseteq StringNames(i)
         /\ {Key("langCode", i), Key("english", i)} \subseteq Named(t)
         /\ l.translations # None => Key("translations", i) \in Named(t)
         /\ l.native # l.english => Key("native", i) \in Named(t)
<1> DEFINE k1 == Key("translations", i)
           k2 == Key("langCode", i)
           k3 == Key("english", i)
           k4 == Key("native", i)
           c1 == Str("translations", i, l.translations)
           c2 == Str("langCode", i, l.code)
           c3 == Str("english", i, l.english)
           c4 == Str("native", i, l.native)
           x == When(l.translations # None, <<c1>>)
           z == When(l.native # l.english, <<c4>>)
           N1 == IF l.translations # None THEN {k1} ELSE {}
           N4 == IF l.native # l.english THEN {k4} ELSE {}
<1>1. /\ l.code \in Seq(Byte) /\ l.english \in Seq(Byte) /\ l.native \in Seq(Byte)
      /\ l.translations # None => l.translations \in Seq(Byte)
  BY DEF IsLanguage
<1>2. k1 # k2 /\ k1 # k3 /\ k1 # k4 /\ k2 # k3 /\ k2 # k4 /\ k3 # k4
  BY DEF Key
<1>3. {k1, k2, k3, k4} \cap K = {} /\ StringNames(i) = {k1, k2, k3, k4}
  BY DEF StringNames
<1>4. <<c2, c3>> = <<c2>> \o <<c3>>
  OBVIOUS
<1>5. LangStrings(i, l) = (x \o (<<c2>> \o <<c3>>)) \o z
  BY <1>4 DEF LangStrings
<1>6. ASSUME NEW L PROVE Segment(<<>>, L, {})
  <2>1. IsBuffer(<<>>) /\ Len(<<>>) = 0
    <3>1. <<>> \in Seq({}) /\ Len(<<>>) = 0
      OBVIOUS
    <3> QED BY <3>1 DEF IsBuffer
  <2> QED BY <2>1, SegmentNone
<1> HIDE DEF k1, k2, k3, k4
<1>7. Segment(x, K, N1)
  <2>1. CASE l.translations # None
    <3>1. Segment(<<c1>>, K, {k1})
      BY <1>1, <1>3, <2>1, StringFits DEF k1
    <3> QED BY <2>1, <3>1 DEF When
  <2>2. CASE l.translations = None
    BY <1>6, <2>2 DEF When
  <2> QED BY <2>1, <2>2
<1>8. Segment(<<c2>>, K \cup N1, {k2})
  BY <1>1, <1>2, <1>3, StringFits DEF k2
<1>9. Segment(<<c3>>, (K \cup N1) \cup {k2}, {k3})
  BY <1>1, <1>2, <1>3, StringFits DEF k3
<1> DEFINE L == (K \cup N1) \cup ({k2} \cup {k3})
<1>10. Segment(z, L, N4)
  <2>1. CASE l.native # l.english
    <3>1. Segment(<<c4>>, L, {k4})
      BY <1>1, <1>2, <1>3, <2>1, StringFits DEF k4
    <3> QED BY <2>1, <3>1 DEF When
  <2>2. CASE l.native = l.english
    BY <1>6, <2>2 DEF When
  <2> QED BY <2>1, <2>2
<1> DEFINE y == <<c2>> \o <<c3>>
           M == {k2} \cup {k3}
<1>11. Segment(y, K \cup N1, M)
  BY <1>8, <1>9, SegmentJoined
<1> HIDE DEF x, y, z, N1, N4
<1>12. Segment(x \o y, K, N1 \cup M)
  BY <1>7, <1>11, SegmentJoined
<1> DEFINE u == x \o y
           P == N1 \cup M
<1>13. Segment(u, K, P) /\ Segment(z, K \cup P, N4)
  <2>1. K \cup P = L
    OBVIOUS
  <2> QED BY <1>10, <1>12, <2>1
<1> HIDE DEF u, P, M
<1>14. Segment(u \o z, K, P \cup N4)
  BY <1>13, SegmentJoined
<1>15. Named(u \o z) = P \cup N4
  BY <1>14 DEF Segment
<1>16. LangStrings(i, l) = u \o z
  BY <1>5 DEF u, y
<1>17. P \cup N4 = N1 \cup {k2, k3} \cup N4
  BY DEF P, M
<1> DEFINE t == LangStrings(i, l)
<1>18. Segment(t, K, Named(t)) /\ Named(t) = N1 \cup {k2, k3} \cup N4
  BY <1>14, <1>15, <1>16, <1>17
<1> HIDE DEF t
<1>19. /\ Named(t) \subseteq {k1, k2, k3, k4} /\ {k2, k3} \subseteq Named(t)
       /\ l.translations # None => k1 \in Named(t)
       /\ l.native # l.english => k4 \in Named(t)
  BY <1>18 DEF N1, N4
<1> QED BY <1>3, <1>18, <1>19 DEF t, k1, k2, k3, k4

\* The table of a language is, after its strings.
LEMMA LangTableFits ==
  ASSUME NEW i, NEW l, IsLanguage(l), NEW K, Key("lang", i) \notin K,
         {Key("langCode", i), Key("english", i)} \subseteq K,
         l.translations # None => Key("translations", i) \in K,
         l.native # l.english => Key("native", i) \in K
  PROVE  LET t == LangTable(i, l) IN
         Segment(t, K, Named(t)) /\ Named(t) = {Key("lang", i)}
<1> DEFINE t == LangTable(i, l)
           n == Len(t)
           native == IF l.native = l.english THEN "english" ELSE "native"
           M == {n}
<1>1. /\ IsBuffer(t) /\ n = (IF l.translations # None THEN 6 ELSE 5)
      /\ t[1] = Start(7) /\ t[2] = Off(2, "langCode", i) /\ t[3] = Off(4, "english", i)
      /\ t[4] = Off(5, native, i) /\ t[n] = End("lang", i)
      /\ l.translations # None => t[5] = Off(6, "translations", i)
  BY LangTableCalls
<1>2. Key(native, i) \in K
  OBVIOUS
<1> HIDE DEF t, native
<1>3. /\ n \in {5, 6} /\ n \in Nat /\ t[n].op = "end" /\ t[n].as = Key("lang", i)
      /\ t[1].op = "start" /\ t[1].n = 7
      /\ t[2].op = "offset" /\ t[2].id = 2 /\ t[2].of \in K
      /\ t[3].op = "offset" /\ t[3].id = 4 /\ t[3].of \in K
      /\ t[4].op = "offset" /\ t[4].id = 5 /\ t[4].of \in K
      /\ n = 6 => t[5].op = "offset" /\ t[5].id = 6 /\ t[5].of \in K
  BY <1>1, <1>2 DEF Start, Off, End
<1> HIDE DEF n
<1> DEFINE A == IF n = 6 THEN {2, 3, 4, 5} ELSE {2, 3, 4}
<1>4. \A k \in 1 + 1 .. n - 1 : k \in A
  <2>1. CASE n = 6
    BY <2>1
  <2>2. CASE n = 5
    BY <2>2
  <2> QED BY <1>3, <2>1, <2>2
<1>5. \A k \in A : /\ t[k].op = "offset" /\ t[k].of \in K /\ t[k].id < t[1].n
  BY <1>3
<1>6. \A k, j \in A : t[k].id = t[j].id => k = j
  BY <1>3
<1>7. \A k \in 1 .. n : k = 1 \/ k = n \/ k \in A
  <2>1. \A k \in 1 .. n : k = 1 \/ k = n \/ k \in 1 + 1 .. n - 1
    BY <1>3
  <2> QED BY <1>4, <2>1
<1> HIDE DEF A
<1>8. \A k \in 1 .. n : IsCall(t[k])
  <2>1. IsCall(t[1])
    BY <1>1, TableWidths
  <2>2. IsCall(t[n])
    BY <1>3 DEF IsCall
  <2>3. \A k \in A : IsCall(t[k])
    <3>1. \A k \in A : t[k].id \in Nat
      BY <1>3 DEF A
    <3> QED BY <1>5, <3>1 DEF IsCall
  <2> QED BY <1>7, <2>1, <2>2, <2>3
<1>9. NamesRight(t, M, K)
  <2>1. M = {k \in 1 .. n : Makes(t[k])}
    <3>1. n \in 1 .. n
      BY <1>3
    <3> QED BY <1>3, <1>5, <1>7, <3>1 DEF Makes
  <2>2. \A k \in 1 .. n : \A key \in Uses(t[k]) : key \in K
    BY <1>3, <1>5, <1>7 DEF Uses
  <2> QED BY <1>3, <2>1, <2>2 DEF NamesRight, n
<1>10. OneTable(t, 1, n)
  <2>1. \A k \in 1 + 1 .. n - 1 : t[k].op = "offset"
    BY <1>4, <1>5
  <2>2. \A k \in 1 .. n : Adds(t[k]) => k \in A
    BY <1>3, <1>7 DEF Adds
  <2>3. \A k \in A : k \in 1 + 1 .. n - 1
    BY <1>3 DEF A
  <2>4. \A k \in 1 .. n : t[k].op = "end" => k = n
    BY <1>3, <1>5, <1>7
  <2>5. 1 \in Nat /\ n \in Nat /\ 1 < n /\ n <= Len(t)
    BY <1>3 DEF n
  <2> QED BY <1>3, <1>5, <1>6, <2>1, <2>2, <2>3, <2>4, <2>5 DEF OneTable, n
<1>11. \A k \in 1 .. n : t[k].op \notin {"payload", "finish"}
  BY <1>3, <1>5, <1>7
<1>12. Segment(t, K, Named(t)) /\ Named(t) = {t[k].as : k \in M}
  <2>1. \A k \in 1 .. n : Adds(t[k]) \/ t[k].op = "end" => InOpen(t, k)
    BY <1>10, OneTableOpen DEF n
  <2> HIDE DEF M
  <2>2. /\ IsBuffer(t) /\ \A k \in 1 .. Len(t) : IsCall(t[k])
        /\ \A k \in 1 .. Len(t) : Adds(t[k]) \/ t[k].op = "end" => InOpen(t, k)
        /\ \A k \in 1 .. Len(t) : t[k].op \notin {"payload", "finish"}
    BY <1>1, <1>8, <1>11, <2>1 DEF n
  <2> QED BY <1>9, <2>2, SegmentOf
<1> QED BY <1>3, <1>12 DEF t

\* The strings and bytes of the module itself are.
LEMMA ExtraFits ==
  ASSUME NEW m, IsModule(m), NEW K,
         K \cap {Key("extra", 0), Key("admin", 0), Key("skins", 0), Key("token", 0)} = {}
  PROVE  LET t == ExtraCalls(m) IN
         /\ Segment(t, K, Named(t))
         /\ Named(t) = {Key("extra", 0), Key("admin", 0), Key("skins", 0), Key("token", 0)}
<1> DEFINE c1 == Gap(4)
           c2 == Bytes("extra", m.extra)
           c3 == Str("admin", 0, Admin)
           c4 == Bytes("skins", m.skins)
           c5 == Str("token", 0, m.token)
           t == <<c1, c2, c3, c4, c5>>
           M == {2, 3, 4, 5}
<1>1. /\ c1.op = "zeros" /\ c1.n = 4
      /\ c2.op = "bytes" /\ c2.as = Key("extra", 0) /\ c2.bytes = m.extra
      /\ c3.op = "string" /\ c3.as = Key("admin", 0) /\ c3.bytes = Admin
      /\ c4.op = "bytes" /\ c4.as = Key("skins", 0) /\ c4.bytes = m.skins
      /\ c5.op = "string" /\ c5.as = Key("token", 0) /\ c5.bytes = m.token
  BY DEF Gap, Bytes, Str
<1>2. ExtraCalls(m) = t
  BY DEF ExtraCalls
<1> HIDE DEF c1, c2, c3, c4, c5
<1>3. t \in Seq({c1, c2, c3, c4, c5}) /\ Len(t) = 5
      /\ t[1] = c1 /\ t[2] = c2 /\ t[3] = c3 /\ t[4] = c4 /\ t[5] = c5
  OBVIOUS
<1> HIDE DEF t
<1>4. IsBuffer(t) /\ 1 .. Len(t) = {1, 2, 3, 4, 5}
  BY <1>3 DEF IsBuffer
<1>5. {m.extra, Admin, m.skins, m.token} \subseteq Seq(Byte)
  BY AdminAssumption DEF IsModule
<1>6. \A k \in 1 .. Len(t) : IsCall(t[k])
  BY <1>1, <1>3, <1>4, <1>5 DEF IsCall
<1>7. NamesRight(t, M, K)
  <2>1. M = {k \in 1 .. Len(t) : Makes(t[k])}
    BY <1>1, <1>3, <1>4 DEF Makes
  <2>2. \A k \in M : t[k].as \notin K
    BY <1>1, <1>3
  <2>3. \A k, l \in M : t[k].as = t[l].as => k = l
    BY <1>1, <1>3 DEF Key
  <2>4. \A k \in 1 .. Len(t) : Uses(t[k]) = {}
    BY <1>1, <1>3, <1>4 DEF Uses
  <2> QED BY <2>1, <2>2, <2>3, <2>4 DEF NamesRight
<1>8. \A k \in 1 .. Len(t) : ~Adds(t[k]) /\ t[k].op \notin {"end", "payload", "finish"}
  BY <1>1, <1>3, <1>4 DEF Adds
<1>9. Segment(t, K, Named(t)) /\ Named(t) = {t[k].as : k \in M}
  BY <1>4, <1>6, <1>7, <1>8, SegmentOf
<1>10. {t[k].as : k \in M} = {Key("extra", 0), Key("admin", 0), Key("skins", 0), Key("token", 0)}
  BY <1>1, <1>3
<1> QED BY <1>2, <1>9, <1>10

\* A vector of the tables of a list.
LEMMA ListCall ==
  ASSUME NEW name, NEW vector, NEW seq, IsList(seq)
  PROVE  LET c == Refs(name, Keys(vector, seq)) IN
         /\ IsCall(c) /\ c.op = "vector" /\ c.as = Key(name, 0)
         /\ Uses(c) = {Key(vector, i) : i \in 1 .. Len(seq)}
<1> DEFINE of == Keys(vector, seq)
           c == Refs(name, of)
           n == Len(seq)
<1>1. n \in Nat /\ of = [i \in 1 .. n |-> Key(vector, i)]
  BY ForList DEF Keys
<1> HIDE DEF of, n
<1>2. of \in Seq({Key(vector, i) : i \in 1 .. n}) /\ DOMAIN of = 1 .. n
  BY <1>1
<1>3. Len(of) \in Nat /\ DOMAIN of = 1 .. Len(of)
  BY <1>2
<1>4. c.op = "vector" /\ c.as = Key(name, 0) /\ c.of = of
  BY DEF Refs
<1> HIDE DEF c
<1>5. IsCall(c)
  BY <1>3, <1>4 DEF IsCall
<1>6. Uses(c) = {Key(vector, i) : i \in 1 .. n}
  BY <1>1, <1>2, <1>4 DEF Uses
<1> QED BY <1>4, <1>5, <1>6 DEF c, n, of

\* The vectors and the root table of a module fit after what they use.
LEMMA RootFits ==
  ASSUME NEW m, IsModule(m), NEW K,
         \A i \in 1 .. Len(m.langs) : Key("lang", i) \in K,
         \A i \in 1 .. Len(m.scripts) : Key("script", i) \in K,
         \A i \in 1 .. Len(m.styles) : Key("style", i) \in K,
         \A i \in 1 .. Len(m.configs) : Key("config", i) \in K,
         {Key("extra", 0), Key("skins", 0), Key("token", 0)} \subseteq K,
         K \cap {Key("langs", 0), Key("scripts", 0), Key("styles", 0), Key("configs", 0),
                 Key("user", 0), Key("root", 0)} = {}
  PROVE  Fits(RootCalls(m), K, FALSE)
<1> DEFINE t == RootCalls(m)
           M == {1, 2, 3, 4, 12, 19}
           A == {6, 7, 8, 9, 10, 13, 14, 15, 16, 17, 18}
<1>1. /\ IsBuffer(t) /\ Len(t) = 20
      /\ t[1] = Refs("langs", Keys("lang", m.langs))
      /\ t[2] = Refs("scripts", Keys("script", m.scripts))
      /\ t[3] = Refs("styles", Keys("style", m.styles))
      /\ t[4] = Refs("configs", Keys("config", m.configs)) /\ t[5] = Start(13)
      /\ t[6] = Off(4, "configs", 0) /\ t[7] = Off(5, "scripts", 0)
      /\ t[8] = Off(6, "styles", 0) /\ t[9] = Off(7, "langs", 0)
      /\ t[10] = Off(1, "extra", 0) /\ t[11] = Gap(4) /\ t[12] = Str("user", 0, m.user)
      /\ t[13] = Off(2, "user", 0) /\ t[14] = Off(9, "skins", 0)
      /\ t[15] = U32(3, m.checksum) /\ t[16] = U32(8, m.enabled)
      /\ t[17] = U32(12, m.capacity) /\ t[18] = Off(11, "token", 0)
      /\ t[19] = End("root", 0) /\ t[20] = Finished("root")
  BY RootElements
<1> HIDE DEF t
<1>2. /\ \A k \in {1, 2, 3, 4} : IsCall(t[k]) /\ t[k].op = "vector"
      /\ t[1].as = Key("langs", 0) /\ t[2].as = Key("scripts", 0)
      /\ t[3].as = Key("styles", 0) /\ t[4].as = Key("configs", 0)
      /\ Uses(t[1]) = {Key("lang", i) : i \in 1 .. Len(m.langs)}
      /\ Uses(t[2]) = {Key("script", i) : i \in 1 .. Len(m.scripts)}
      /\ Uses(t[3]) = {Key("style", i) : i \in 1 .. Len(m.styles)}
      /\ Uses(t[4]) = {Key("config", i) : i \in 1 .. Len(m.configs)}
  <2>1. IsList(m.langs) /\ IsList(m.scripts) /\ IsList(m.styles) /\ IsList(m.configs)
    BY DEF IsModule
  <2>2. /\ IsCall(t[1]) /\ t[1].op = "vector" /\ t[1].as = Key("langs", 0)
        /\ Uses(t[1]) = {Key("lang", i) : i \in 1 .. Len(m.langs)}
    BY <1>1, <2>1, ListCall
  <2>3. /\ IsCall(t[2]) /\ t[2].op = "vector" /\ t[2].as = Key("scripts", 0)
        /\ Uses(t[2]) = {Key("script", i) : i \in 1 .. Len(m.scripts)}
    BY <1>1, <2>1, ListCall
  <2>4. /\ IsCall(t[3]) /\ t[3].op = "vector" /\ t[3].as = Key("styles", 0)
        /\ Uses(t[3]) = {Key("style", i) : i \in 1 .. Len(m.styles)}
    BY <1>1, <2>1, ListCall
  <2>5. /\ IsCall(t[4]) /\ t[4].op = "vector" /\ t[4].as = Key("configs", 0)
        /\ Uses(t[4]) = {Key("config", i) : i \in 1 .. Len(m.configs)}
    BY <1>1, <2>1, ListCall
  <2> QED BY <2>2, <2>3, <2>4, <2>5
<1>3. /\ t[5].op = "start" /\ t[5].n = 13
      /\ t[6].op = "offset" /\ t[6].id = 4 /\ t[6].of = Key("configs", 0)
      /\ t[7].op = "offset" /\ t[7].id = 5 /\ t[7].of = Key("scripts", 0)
      /\ t[8].op = "offset" /\ t[8].id = 6 /\ t[8].of = Key("styles", 0)
      /\ t[9].op = "offset" /\ t[9].id = 7 /\ t[9].of = Key("langs", 0)
      /\ t[10].op = "offset" /\ t[10].id = 1 /\ t[10].of = Key("extra", 0)
      /\ t[11].op = "zeros" /\ t[11].n = 4
      /\ t[12].op = "string" /\ t[12].as = Key("user", 0) /\ t[12].bytes = m.user
  BY <1>1 DEF Start, Off, Gap, Str
<1>4. /\ t[13].op = "offset" /\ t[13].id = 2 /\ t[13].of = Key("user", 0)
      /\ t[14].op = "offset" /\ t[14].id = 9 /\ t[14].of = Key("skins", 0)
      /\ t[15].op = "u32" /\ t[15].id = 3 /\ t[15].v = m.checksum
      /\ t[16].op = "u32" /\ t[16].id = 8 /\ t[16].v = m.enabled
      /\ t[17].op = "u32" /\ t[17].id = 12 /\ t[17].v = m.capacity
      /\ t[18].op = "offset" /\ t[18].id = 11 /\ t[18].of = Key("token", 0)
      /\ t[19].op = "end" /\ t[19].as = Key("root", 0)
      /\ t[20].op = "finish" /\ t[20].of = Key("root", 0)
  BY <1>1 DEF Off, U32, End, Finished
<1>5. \A k \in 1 .. Len(t) : k \in M \/ k \in A \/ k \in {5, 11, 20}
  BY <1>1
<1>6. \A k \in A : t[k].op \in {"u32", "offset"}
  <2>1. \A k \in {6, 7, 8, 9, 10} : t[k].op \in {"u32", "offset"}
    BY <1>3
  <2>2. \A k \in {13, 14, 15, 16, 17, 18} : t[k].op \in {"u32", "offset"}
    BY <1>4
  <2> QED BY <2>1, <2>2
<1> DEFINE Where(id) ==
             CASE id = 4 -> 6 [] id = 5 -> 7 [] id = 6 -> 8 [] id = 7 -> 9 [] id = 1 -> 10
               [] id = 2 -> 13 [] id = 9 -> 14 [] id = 3 -> 15 [] id = 8 -> 16
               [] id = 12 -> 17 [] id = 11 -> 18
<1>12. \A k \in A : t[k].id \in 0 .. 12 /\ Where(t[k].id) = k
  <2>1. \A k \in {6, 7, 8, 9, 10} : t[k].id \in 0 .. 12 /\ Where(t[k].id) = k
    BY <1>3
  <2>2. \A k \in {13, 14, 15, 16, 17, 18} : t[k].id \in 0 .. 12 /\ Where(t[k].id) = k
    BY <1>4
  <2> HIDE DEF Where
  <2> QED BY <2>1, <2>2
<1> HIDE DEF Where
<1>7. \A k \in 1 .. Len(t) : IsCall(t[k])
  <2>1. IsCall(t[5])
    BY <1>1, TableWidths
  <2>2. IsCall(t[12])
    <3>1. m.user \in Seq(Byte)
      BY DEF IsModule
    <3> QED BY <1>3, <3>1 DEF IsCall
  <2>3. \A k \in {15, 16, 17} : IsCall(t[k])
    <3>1. \A v \in {m.checksum, m.enabled, m.capacity} : v \in 0 .. (U32Size - 1)
      BY DEF IsModule, Word
    <3>2. /\ t[15].v \in 0 .. (U32Size - 1) /\ t[16].v \in 0 .. (U32Size - 1)
          /\ t[17].v \in 0 .. (U32Size - 1)
      BY <1>4, <3>1
    <3>3. \A k \in {15, 16, 17} : t[k].op = "u32" /\ t[k].id \in Nat
      BY <1>4
    <3> QED BY <3>2, <3>3 DEF IsCall
  <2>4. \A k \in {6, 7, 8, 9, 10, 11} : IsCall(t[k])
    BY <1>3 DEF IsCall
  <2>5. \A k \in {13, 14, 18, 19, 20} : IsCall(t[k])
    BY <1>4 DEF IsCall
  <2> QED BY <1>2, <1>5, <2>1, <2>2, <2>3, <2>4, <2>5
<1>8. NamesRight(t, M, K)
  <2>1. M = {k \in 1 .. Len(t) : Makes(t[k])}
    <3>1. \A k \in M : Makes(t[k])
      <4>1. \A k \in M : t[k].op \in {"string", "bytes", "payload", "vector", "end"}
        BY <1>2, <1>3, <1>4
      <4> QED BY <4>1 DEF Makes
    <3>2. \A k \in A \cup {5, 11, 20} : ~Makes(t[k])
      BY <1>3, <1>4, <1>6 DEF Makes
    <3>3. \A k \in M : k \in 1 .. Len(t)
      BY <1>1
    <3> QED BY <1>5, <3>1, <3>2, <3>3
  <2>2. \A k \in M : t[k].as \notin K
    BY <1>2, <1>3, <1>4
  <2>3. \A k, l \in M : t[k].as = t[l].as => k = l
    <3>1. /\ t[1].as[1] = "langs" /\ t[2].as[1] = "scripts" /\ t[3].as[1] = "styles"
          /\ t[4].as[1] = "configs" /\ t[12].as[1] = "user" /\ t[19].as[1] = "root"
      BY <1>2, <1>3, <1>4 DEF Key
    <3> QED BY <3>1
  <2>4. \A k \in {1, 2, 3, 4} : Uses(t[k]) \subseteq K
    BY <1>2
  <2>5. \A k \in {5, 11, 12, 15, 16, 17, 19} : Uses(t[k]) = {}
    <3>1. /\ t[5].op = "start" /\ t[11].op = "zeros" /\ t[12].op = "string"
          /\ t[15].op = "u32" /\ t[16].op = "u32" /\ t[17].op = "u32" /\ t[19].op = "end"
      BY <1>3, <1>4
    <3>2. \A k \in {5, 11, 12, 15, 16, 17, 19} : t[k].op \notin {"vector", "offset", "finish"}
      BY <3>1
    <3> QED BY <3>2 DEF Uses
  <2>6. \A k \in {6, 7, 8, 9, 10, 13, 14, 18, 20} : Uses(t[k]) = {t[k].of}
    BY <1>3, <1>4 DEF Uses
  <2>7. \A k \in {10, 14, 18} : t[k].of \in K
    BY <1>3, <1>4
  <2>8. /\ t[6].of = t[4].as /\ t[7].of = t[2].as /\ t[8].of = t[3].as
        /\ t[9].of = t[1].as /\ t[13].of = t[12].as /\ t[20].of = t[19].as
    BY <1>2, <1>3, <1>4
  <2>9. \A k \in {6, 7, 8, 9, 13, 20} : \E l \in M : l < k /\ t[l].as = t[k].of
    BY <2>8
  <2>10. ASSUME NEW k \in 1 .. Len(t), NEW key \in Uses(t[k])
         PROVE  key \in K \/ \E l \in M : l < k /\ t[l].as = key
    <3>1. \/ k \in {1, 2, 3, 4} \/ k \in {5, 11, 12, 15, 16, 17, 19}
          \/ k \in {10, 14, 18} \/ k \in {6, 7, 8, 9, 13, 20}
      BY <1>5
    <3>2. CASE k \in {1, 2, 3, 4}
      BY <2>4, <2>10, <3>2
    <3>3. CASE k \in {5, 11, 12, 15, 16, 17, 19}
      BY <2>5, <2>10, <3>3
    <3>4. CASE k \in {10, 14, 18}
      <4>1. key = t[k].of
        BY <2>6, <2>10, <3>4
      <4> QED BY <2>7, <3>4, <4>1
    <3>5. CASE k \in {6, 7, 8, 9, 13, 20}
      <4>1. key = t[k].of
        BY <2>6, <2>10, <3>5
      <4> QED BY <2>9, <3>5, <4>1
    <3> QED BY <3>1, <3>2, <3>3, <3>4, <3>5
  <2> QED BY <2>1, <2>2, <2>3, <2>10 DEF NamesRight
<1>9. OneTable(t, 5, 19)
  <2>1. \A k \in 5 + 1 .. 19 - 1 : k \in A \cup {11, 12}
    OBVIOUS
  <2>2. \A k \in A \cup {11, 12} : t[k].op \notin {"start", "end", "finish"}
    BY <1>3, <1>4
  <2>3. \A k \in 1 .. Len(t) : Adds(t[k]) => k \in A
    BY <1>2, <1>3, <1>4, <1>5 DEF Adds
  <2>4. \A k \in A : k \in 5 + 1 .. 19 - 1 /\ t[k].id < t[5].n
    <3>1. t[5].n = 13
      BY <1>3
    <3>2. \A k \in A : k \in 5 + 1 .. 19 - 1
      OBVIOUS
    <3> HIDE DEF A
    <3> QED BY <1>12, <3>1, <3>2
  <2>5. ASSUME NEW k \in A, NEW l \in A, t[k].id = t[l].id PROVE k = l
    <3> HIDE DEF A
    <3>1. Where(t[k].id) = k /\ Where(t[l].id) = l
      BY <1>12
    <3> QED BY <2>5, <3>1
  <2>6. \A k \in 1 .. Len(t) : t[k].op = "end" => k = 19
    BY <1>2, <1>3, <1>4, <1>5, <1>6
  <2>7. 5 \in Nat /\ 19 \in Nat /\ 1 <= 5 /\ 5 < 19 /\ 19 <= Len(t)
    BY <1>1
  <2>8. t[5].op = "start" /\ t[19].op = "end"
    BY <1>3, <1>4
  <2> HIDE DEF A
  <2> QED BY <2>1, <2>2, <2>3, <2>4, <2>5, <2>6, <2>7, <2>8 DEF OneTable
<1>10. \A k \in 1 .. Len(t) : t[k].op # "payload" /\ (t[k].op = "finish" => k = Len(t))
  BY <1>1, <1>2, <1>3, <1>4, <1>5, <1>6
<1>11. Fits(t, K, FALSE)
  <2>1. \A k \in 1 .. Len(t) : Adds(t[k]) \/ t[k].op = "end" => InOpen(t, k)
    BY <1>9, OneTableOpen
  <2> QED BY <1>1, <1>7, <1>8, <1>10, <2>1, CallsFit
<1> QED BY <1>11 DEF t

\* A wrapper from its payload on fits after a finished inner part.
LEMMA WrapperEndFits ==
  ASSUME NEW type \in Word
  PROVE  Fits(WrapperEnd(type), {}, TRUE)
<1> DEFINE t == WrapperEnd(type)
           M == {1, 5}
<1>1. /\ IsBuffer(t) /\ Len(t) = 6
      /\ t[1] = Payload /\ t[2] = Start(2) /\ t[3] = U32(0, type)
      /\ t[4] = Off(1, "payload", 0) /\ t[5] = End("wrapper", 0)
      /\ t[6] = Finished("wrapper")
  BY WrapperBuffer
<1> HIDE DEF t
<1>2. /\ t[1].op = "payload" /\ t[1].as = Key("payload", 0)
      /\ t[2].op = "start" /\ t[2].n = 2
      /\ t[3].op = "u32" /\ t[3].id = 0 /\ t[3].v = type
      /\ t[4].op = "offset" /\ t[4].id = 1 /\ t[4].of = Key("payload", 0)
      /\ t[5].op = "end" /\ t[5].as = Key("wrapper", 0)
      /\ t[6].op = "finish" /\ t[6].of = Key("wrapper", 0)
  BY <1>1 DEF Payload, Start, U32, Off, End, Finished
<1>3. 1 .. Len(t) = {1, 2, 3, 4, 5, 6}
  BY <1>1
<1>4. \A k \in 1 .. Len(t) : IsCall(t[k])
  <2>1. IsCall(t[2])
    BY <1>1, TableWidths
  <2>2. IsCall(t[3])
    BY <1>2 DEF IsCall, Word
  <2>3. \A k \in {1, 4, 5, 6} : IsCall(t[k])
    BY <1>2 DEF IsCall
  <2> QED BY <1>3, <2>1, <2>2, <2>3
<1>5. NamesRight(t, M, {})
  <2>1. M = {k \in 1 .. Len(t) : Makes(t[k])}
    BY <1>2, <1>3 DEF Makes
  <2>2. \A k, l \in M : t[k].as = t[l].as => k = l
    BY <1>2 DEF Key
  <2>3. ASSUME NEW k \in 1 .. Len(t), NEW key \in Uses(t[k])
        PROVE  \E l \in M : l < k /\ t[l].as = key
    <3>1. k \in {4, 6} /\ key = t[k].of
      BY <1>2, <1>3, <2>3 DEF Uses
    <3>2. t[4].of = t[1].as /\ t[6].of = t[5].as
      BY <1>2
    <3> QED BY <3>1, <3>2
  <2> QED BY <2>1, <2>2, <2>3 DEF NamesRight
<1>6. OneTable(t, 2, 5)
  <2>1. \A k \in 2 + 1 .. 5 - 1 : k \in {3, 4}
    OBVIOUS
  <2>2. \A k \in 1 .. Len(t) : Adds(t[k]) => k \in {3, 4}
    BY <1>2, <1>3 DEF Adds
  <2>3. \A k \in 1 .. Len(t) : t[k].op = "end" => k = 5
    BY <1>2, <1>3
  <2> QED BY <1>1, <1>2, <2>1, <2>2, <2>3 DEF OneTable
<1>7. \A k \in 1 .. Len(t) : t[k].op = "finish" => k = Len(t)
  BY <1>1, <1>2, <1>3
<1>8. Fits(t, {}, TRUE)
  <2>1. \A k \in 1 .. Len(t) : Adds(t[k]) \/ t[k].op = "end" => InOpen(t, k)
    BY <1>6, OneTableOpen
  <2> QED BY <1>1, <1>4, <1>5, <1>7, <2>1, CallsFit
<1> QED BY <1>8 DEF t

\* A case-11 reply (build_case11_inner) fits.
LEMMA Case11Fits ==
  ASSUME NEW m, m.id \in Word, m.text \in Seq(Byte)
  PROVE  Fits(Case11Inner(m), {}, FALSE)
<1> DEFINE t == Case11Inner(m)
           M == {1, 5}
<1>1. /\ IsBuffer(t) /\ Len(t) = 6
      /\ t[1] = Str("text", 0, m.text) /\ t[2] = Start(3) /\ t[3] = U32(0, m.id)
      /\ t[4] = Off(2, "text", 0) /\ t[5] = End("root", 0) /\ t[6] = Finished("root")
  BY Case11Calls
<1> HIDE DEF t
<1>2. /\ t[1].op = "string" /\ t[1].as = Key("text", 0) /\ t[1].bytes = m.text
      /\ t[2].op = "start" /\ t[2].n = 3
      /\ t[3].op = "u32" /\ t[3].id = 0 /\ t[3].v = m.id
      /\ t[4].op = "offset" /\ t[4].id = 2 /\ t[4].of = Key("text", 0)
      /\ t[5].op = "end" /\ t[5].as = Key("root", 0)
      /\ t[6].op = "finish" /\ t[6].of = Key("root", 0)
  BY <1>1 DEF Str, Start, U32, Off, End, Finished
<1>3. 1 .. Len(t) = {1, 2, 3, 4, 5, 6}
  BY <1>1
<1>4. \A k \in 1 .. Len(t) : IsCall(t[k])
  <2>1. IsCall(t[2])
    BY <1>1, TableWidths
  <2>2. IsCall(t[3])
    BY <1>2 DEF IsCall, Word
  <2>3. \A k \in {1, 4, 5, 6} : IsCall(t[k])
    BY <1>2 DEF IsCall
  <2> QED BY <1>3, <2>1, <2>2, <2>3
<1>5. NamesRight(t, M, {})
  <2>1. M = {k \in 1 .. Len(t) : Makes(t[k])}
    BY <1>2, <1>3 DEF Makes
  <2>2. \A k, l \in M : t[k].as = t[l].as => k = l
    BY <1>2 DEF Key
  <2>3. ASSUME NEW k \in 1 .. Len(t), NEW key \in Uses(t[k])
        PROVE  \E l \in M : l < k /\ t[l].as = key
    <3>1. k \in {4, 6} /\ key = t[k].of
      BY <1>2, <1>3, <2>3 DEF Uses
    <3>2. t[4].of = t[1].as /\ t[6].of = t[5].as
      BY <1>2
    <3> QED BY <3>1, <3>2
  <2> QED BY <2>1, <2>2, <2>3 DEF NamesRight
<1>6. OneTable(t, 2, 5)
  <2>1. \A k \in 2 + 1 .. 5 - 1 : k \in {3, 4}
    OBVIOUS
  <2>2. \A k \in 1 .. Len(t) : Adds(t[k]) => k \in {3, 4}
    BY <1>2, <1>3 DEF Adds
  <2>3. \A k \in 1 .. Len(t) : t[k].op = "end" => k = 5
    BY <1>2, <1>3
  <2> QED BY <1>1, <1>2, <2>1, <2>2, <2>3 DEF OneTable
<1>7. \A k \in 1 .. Len(t) : t[k].op # "payload" /\ (t[k].op = "finish" => k = Len(t))
  BY <1>1, <1>2, <1>3
<1>8. Fits(t, {}, FALSE)
  <2>1. \A k \in 1 .. Len(t) : Adds(t[k]) \/ t[k].op = "end" => InOpen(t, k)
    BY <1>6, OneTableOpen
  <2> QED BY <1>1, <1>4, <1>5, <1>7, <2>1, CallsFit
<1> QED BY <1>8 DEF t

\* The vector and the root of a reply to a create fit after its entry.
LEMMA CreateEndFits ==
  ASSUME NEW m, m.type \in Word, NEW K, Key("entry", 1) \in K,
         K \cap {Key("entries", 0), Key("root", 0)} = {}
  PROVE  Fits(CreateEnd(m), K, FALSE)
<1> DEFINE t == CreateEnd(m)
           of == <<Key("entry", 1)>>
           M == {1, 5}
<1>1. /\ IsBuffer(t) /\ Len(t) = 6
      /\ t[1] = Refs("entries", of) /\ t[2] = Start(3)
      /\ t[3] = U32(0, m.type) /\ t[4] = Off(1, "entries", 0) /\ t[5] = End("root", 0)
      /\ t[6] = Finished("root")
  BY CreateCalls
<1>2. Len(of) = 1 /\ DOMAIN of = 1 .. 1 /\ of[1] = Key("entry", 1)
  OBVIOUS
<1> HIDE DEF t, of
<1>3. /\ t[1].op = "vector" /\ t[1].as = Key("entries", 0) /\ t[1].of = of
      /\ t[2].op = "start" /\ t[2].n = 3
      /\ t[3].op = "u32" /\ t[3].id = 0 /\ t[3].v = m.type
      /\ t[4].op = "offset" /\ t[4].id = 1 /\ t[4].of = Key("entries", 0)
      /\ t[5].op = "end" /\ t[5].as = Key("root", 0)
      /\ t[6].op = "finish" /\ t[6].of = Key("root", 0)
  BY <1>1 DEF Refs, Start, U32, Off, End, Finished
<1>4. 1 .. Len(t) = {1, 2, 3, 4, 5, 6}
  BY <1>1
<1>5. \A k \in 1 .. Len(t) : IsCall(t[k])
  <2>1. IsCall(t[1])
    <3>1. t[1].op = "vector" /\ Len(t[1].of) \in Nat /\ DOMAIN t[1].of = 1 .. Len(t[1].of)
      <4>1. Len(of) \in Nat /\ DOMAIN of = 1 .. Len(of)
        BY <1>2
      <4> QED BY <1>3, <4>1
    <3> QED BY <3>1 DEF IsCall
  <2>2. IsCall(t[2])
    BY <1>1, TableWidths
  <2>3. IsCall(t[3])
    BY <1>3 DEF IsCall, Word
  <2>4. \A k \in {4, 5, 6} : IsCall(t[k])
    BY <1>3 DEF IsCall
  <2> QED BY <1>4, <2>1, <2>2, <2>3, <2>4
<1>6. NamesRight(t, M, K)
  <2>1. M = {k \in 1 .. Len(t) : Makes(t[k])}
    BY <1>3, <1>4 DEF Makes
  <2>2. \A k, l \in M : t[k].as = t[l].as => k = l
    BY <1>3 DEF Key
  <2>3. \A k \in M : t[k].as \notin K
    BY <1>3
  <2>4. Uses(t[1]) \subseteq K
    <3>1. \A i \in DOMAIN of : of[i] \in K
      BY <1>2
    <3> QED BY <1>3, <3>1 DEF Uses
  <2>5. ASSUME NEW k \in 1 .. Len(t), NEW key \in Uses(t[k])
        PROVE  key \in K \/ \E l \in M : l < k /\ t[l].as = key
    <3>1. k = 1 \/ (k \in {4, 6} /\ key = t[k].of)
      BY <1>3, <1>4, <2>5 DEF Uses
    <3>2. t[4].of = t[1].as /\ t[6].of = t[5].as
      BY <1>3
    <3> QED BY <2>4, <2>5, <3>1, <3>2
  <2> QED BY <2>1, <2>2, <2>3, <2>5 DEF NamesRight
<1>7. OneTable(t, 2, 5)
  <2>1. \A k \in 2 + 1 .. 5 - 1 : k \in {3, 4}
    OBVIOUS
  <2>2. \A k \in 1 .. Len(t) : Adds(t[k]) => k \in {3, 4}
    BY <1>3, <1>4 DEF Adds
  <2>3. \A k \in 1 .. Len(t) : t[k].op = "end" => k = 5
    BY <1>3, <1>4
  <2> QED BY <1>1, <1>3, <2>1, <2>2, <2>3 DEF OneTable
<1>8. \A k \in 1 .. Len(t) : t[k].op # "payload" /\ (t[k].op = "finish" => k = Len(t))
  BY <1>1, <1>3, <1>4
<1>9. Fits(t, K, FALSE)
  <2>1. \A k \in 1 .. Len(t) : Adds(t[k]) \/ t[k].op = "end" => InOpen(t, k)
    BY <1>7, OneTableOpen
  <2> QED BY <1>1, <1>5, <1>6, <1>8, <2>1, CallsFit
<1> QED BY <1>9 DEF t

-----------------------------------------------------------------------------
(* The lists of a module, and the scripts. *)

\* What the name of an object says of the part of the script that makes it:
\* the list, or the name itself, and the place in the list.
Inside(key) == key[1] \in {"name", "author", "code"}

Tag(key) == IF Inside(key) THEN key[2][1] ELSE key[1]

Index(key) == IF Inside(key) THEN key[2][2] ELSE key[2]

Tagged(S, T) == \A key \in S : Tag(key) \in T

\* A name without a list is its own tag.
LEMMA KeyTags ==
  ASSUME NEW name, NEW i, name \notin {"name", "author", "code"}
  PROVE  Tag(Key(name, i)) = name /\ Index(Key(name, i)) = i
BY DEF Tag, Index, Inside, Key

\* What an entry names has the tag of its list.
LEMMA EntryTags ==
  ASSUME NEW vector, vector \notin {"name", "author", "code"}, NEW i,
         NEW key \in EntryNames(vector, i)
  PROVE  Tag(key) = vector /\ Index(key) = i
<1> DEFINE at == Key(vector, i)
<1>1. at[1] = vector /\ at[2] = i
  BY DEF Key
<1>2. key \in {Key("name", at), Key("author", at), Key("code", at), at}
  BY DEF EntryNames
<1> HIDE DEF at
<1>3. CASE key = at
  BY <1>1, <1>3 DEF Tag, Index, Inside
<1>4. CASE key # at
  <2>1. PICK name \in {"name", "author", "code"} : key = Key(name, at)
    BY <1>2, <1>4
  <2>2. key[1] = name /\ key[2] = at
    BY <2>1 DEF Key
  <2> QED BY <1>1, <2>2 DEF Tag, Index, Inside
<1> QED BY <1>3, <1>4

\* The tags of the strings of languages.
StringTags == {"translations", "langCode", "english", "native"}

\* What the strings of a language name has one of their tags.
LEMMA StringsTagged ==
  ASSUME NEW i, NEW key \in StringNames(i)
  PROVE  Tag(key) \in StringTags /\ Index(key) = i
<1>1. PICK name \in StringTags : key = Key(name, i)
  BY DEF StringNames, StringTags
<1>2. name \notin {"name", "author", "code"}
  BY DEF StringTags
<1> QED BY <1>1, <1>2, KeyTags

\* A row of segments whose names have a place in the list and a tag of T.
LEMMA ListFits ==
  ASSUME NEW f, NEW n \in Nat, f = [i \in 1 .. n |-> f[i]], NEW K, NEW T,
         \A i \in 1 .. n : Segment(f[i], K, Named(f[i])),
         \A i \in 1 .. n : \A key \in Named(f[i]) : Tag(key) \in T /\ Index(key) = i,
         \A key \in K : Tag(key) \notin T
  PROVE  LET t == FlattenSeq(f) IN
         /\ Segment(t, K, Named(t)) /\ Tagged(Named(t), T)
         /\ \A i \in 1 .. n : Named(f[i]) \subseteq Named(t)
<1> DEFINE t == FlattenSeq(f)
           N == [i \in 1 .. n |-> Named(f[i])]
           all == UNION {N[i] : i \in 1 .. n}
<1>1. Len(f) = n
  <2>1. f \in Seq({f[i] : i \in 1 .. n}) /\ DOMAIN f = 1 .. n
    OBVIOUS
  <2> QED BY <2>1
<1>2. \A i \in 1 .. n : N[i] = Named(f[i])
  OBVIOUS
<1> HIDE DEF N
<1>3. \A i \in 1 .. n : Segment(f[i], K, N[i])
  BY <1>2
<1>4. \A i, j \in 1 .. n : i # j => N[i] \cap N[j] = {}
  BY <1>2
<1>5. \A i \in 1 .. n : K \cap N[i] = {}
  BY <1>2
<1>6. Segment(t, K, all)
  BY <1>1, <1>3, <1>4, <1>5, SegmentEach
<1>7. Named(t) = all
  BY <1>6 DEF Segment
<1>8. Tagged(all, T)
  BY <1>2 DEF Tagged
<1>9. \A i \in 1 .. n : Named(f[i]) \subseteq all
  BY <1>2
<1> HIDE DEF t, all
<1> QED BY <1>6, <1>7, <1>8, <1>9 DEF t

\* The entries of configs are a segment.
LEMMA ConfigsFit ==
  ASSUME NEW m, IsModule(m)
  PROVE  LET t == ConfigCalls(m) IN
         /\ Segment(t, {}, Named(t)) /\ Tagged(Named(t), {"config"})
         /\ \A i \in 1 .. Len(m.configs) : Key("config", i) \in Named(t)
<1> DEFINE n == Len(m.configs)
           f == [i \in 1 .. n |-> ConfigEntry(i, m.configs[i])]
           T == {"config"}
           K == {}
<1>1. n \in Nat /\ DOMAIN m.configs = 1 .. n /\ \A i \in 1 .. n : IsEntry(m.configs[i])
  BY ForList DEF IsModule
<1>2. ConfigCalls(m) = FlattenSeq(f)
  BY <1>1 DEF ConfigCalls, ForEach
<1>3. f = [i \in 1 .. n |-> f[i]] /\ \A i \in 1 .. n : f[i] = ConfigEntry(i, m.configs[i])
  OBVIOUS
<1> HIDE DEF n, f
<1>4. ASSUME NEW i \in 1 .. n
      PROVE  /\ Segment(f[i], K, Named(f[i])) /\ Key("config", i) \in Named(f[i])
             /\ \A key \in Named(f[i]) : Tag(key) \in T /\ Index(key) = i
  <2>1. /\ Segment(f[i], K, Named(f[i])) /\ Named(f[i]) \subseteq EntryNames("config", i)
        /\ Key("config", i) \in Named(f[i])
    BY <1>1, <1>3, ConfigEntryFits
  <2>2. \A key \in EntryNames("config", i) : Tag(key) \in T /\ Index(key) = i
    BY EntryTags
  <2> QED BY <2>1, <2>2
<1>5. \A key \in K : Tag(key) \notin T
  OBVIOUS
<1> HIDE DEF T, K
<1> DEFINE t == FlattenSeq(f)
<1>6. /\ Segment(t, K, Named(t)) /\ Tagged(Named(t), T)
      /\ \A i \in 1 .. n : Named(f[i]) \subseteq Named(t)
  BY <1>1, <1>3, <1>4, <1>5, ListFits
<1> HIDE DEF t
<1> QED BY <1>2, <1>4, <1>6 DEF t, T, K, n

\* The entries of scripts or styles are.
LEMMA LogFits ==
  ASSUME NEW vector \in {"script", "style", "entry"}, NEW es, IsList(es),
         \A i \in DOMAIN es : IsEntry(es[i]), NEW K, \A key \in K : Tag(key) # vector
  PROVE  LET t == LogCalls(vector, es) IN
         /\ Segment(t, K, Named(t)) /\ Tagged(Named(t), {vector})
         /\ \A i \in 1 .. Len(es) : Key(vector, i) \in Named(t)
<1> DEFINE n == Len(es)
           f == [i \in 1 .. n |-> LogEntry(vector, i, es[i])]
           T == {vector}
<1>1. n \in Nat /\ DOMAIN es = 1 .. n /\ \A i \in 1 .. n : IsEntry(es[i])
  BY ForList
<1>2. LogCalls(vector, es) = FlattenSeq(f)
  BY <1>1 DEF LogCalls, ForEach
<1>3. f = [i \in 1 .. n |-> f[i]] /\ \A i \in 1 .. n : f[i] = LogEntry(vector, i, es[i])
  OBVIOUS
<1> HIDE DEF n, f
<1>4. ASSUME NEW i \in 1 .. n
      PROVE  /\ Segment(f[i], K, Named(f[i])) /\ Key(vector, i) \in Named(f[i])
             /\ \A key \in Named(f[i]) : Tag(key) \in T /\ Index(key) = i
  <2>1. \A key \in EntryNames(vector, i) : Tag(key) \in T /\ Index(key) = i
    BY EntryTags
  <2>2. K \cap EntryNames(vector, i) = {}
    BY <2>1
  <2>3. /\ Segment(f[i], K, Named(f[i])) /\ Named(f[i]) \subseteq EntryNames(vector, i)
        /\ Key(vector, i) \in Named(f[i])
    <3>1. IsEntry(es[i]) /\ f[i] = LogEntry(vector, i, es[i])
      BY <1>1, <1>3
    <3>2. CASE es[i].code # None
      BY <2>2, <3>1, <3>2, EntryCodedFits
    <3>3. CASE es[i].code = None
      BY <2>2, <3>1, <3>3, EntryBareFits
    <3> QED BY <3>2, <3>3
  <2> QED BY <2>1, <2>3
<1>5. \A key \in K : Tag(key) \notin T
  OBVIOUS
<1> HIDE DEF T
<1> DEFINE t == FlattenSeq(f)
<1>6. /\ Segment(t, K, Named(t)) /\ Tagged(Named(t), T)
      /\ \A i \in 1 .. n : Named(f[i]) \subseteq Named(t)
  BY <1>1, <1>3, <1>4, <1>5, ListFits
<1> HIDE DEF t
<1> QED BY <1>2, <1>4, <1>6 DEF t, T, n

\* The names that the table of a language uses are in K.
HasStrings(l, i, K) ==
  /\ {Key("langCode", i), Key("english", i)} \subseteq K
  /\ l.translations # None => Key("translations", i) \in K
  /\ l.native # l.english => Key("native", i) \in K

\* The strings of the languages are.
LEMMA StringsFit ==
  ASSUME NEW m, IsModule(m), NEW K, \A key \in K : Tag(key) \notin StringTags
  PROVE  LET t == StringCalls(m) IN
         /\ Segment(t, K, Named(t)) /\ Tagged(Named(t), StringTags)
         /\ \A i \in 1 .. Len(m.langs) : HasStrings(m.langs[i], i, Named(t))
<1> DEFINE n == Len(m.langs)
           f == [i \in 1 .. n |-> LangStrings(i, m.langs[i])]
<1>1. n \in Nat /\ DOMAIN m.langs = 1 .. n /\ \A i \in 1 .. n : IsLanguage(m.langs[i])
  BY ForList DEF IsModule
<1>2. StringCalls(m) = FlattenSeq(f)
  BY <1>1 DEF StringCalls, ForEach
<1>3. f = [i \in 1 .. n |-> f[i]] /\ \A i \in 1 .. n : f[i] = LangStrings(i, m.langs[i])
  OBVIOUS
<1> HIDE DEF n, f
<1>4. ASSUME NEW i \in 1 .. n
      PROVE  /\ Segment(f[i], K, Named(f[i])) /\ HasStrings(m.langs[i], i, Named(f[i]))
             /\ \A key \in Named(f[i]) : Tag(key) \in StringTags /\ Index(key) = i
  <2>1. \A key \in StringNames(i) : Tag(key) \in StringTags /\ Index(key) = i
    BY StringsTagged
  <2>2. K \cap StringNames(i) = {}
    BY <2>1
  <2>3. /\ Segment(f[i], K, Named(f[i])) /\ Named(f[i]) \subseteq StringNames(i)
        /\ HasStrings(m.langs[i], i, Named(f[i]))
    <3>1. IsLanguage(m.langs[i]) /\ f[i] = LangStrings(i, m.langs[i])
      BY <1>1, <1>3
    <3> DEFINE l == m.langs[i]
    <3> HIDE DEF l
    <3>2. LET t == LangStrings(i, l) IN
          /\ Segment(t, K, Named(t)) /\ Named(t) \subseteq StringNames(i)
          /\ HasStrings(l, i, Named(t))
      <4>1. IsLanguage(l)
        BY <3>1 DEF l
      <4> QED BY <2>2, <4>1, LangStringsFit DEF HasStrings
    <3> QED BY <3>1, <3>2 DEF l
  <2> QED BY <2>1, <2>3
<1> DEFINE t == FlattenSeq(f)
<1>5. /\ Segment(t, K, Named(t)) /\ Tagged(Named(t), StringTags)
      /\ \A i \in 1 .. n : Named(f[i]) \subseteq Named(t)
  BY <1>1, <1>3, <1>4, ListFits
<1> HIDE DEF t
<1>6. \A i \in 1 .. n : HasStrings(m.langs[i], i, Named(t))
  BY <1>4, <1>5 DEF HasStrings
<1> QED BY <1>2, <1>5, <1>6 DEF t, n

\* The tables of the languages are, after their strings.
LEMMA LangsFit ==
  ASSUME NEW m, IsModule(m), NEW K, \A key \in K : Tag(key) # "lang",
         \A i \in 1 .. Len(m.langs) : HasStrings(m.langs[i], i, K)
  PROVE  LET t == LangCalls(m) IN
         /\ Segment(t, K, Named(t)) /\ Tagged(Named(t), {"lang"})
         /\ \A i \in 1 .. Len(m.langs) : Key("lang", i) \in Named(t)
<1> DEFINE n == Len(m.langs)
           o == LangOrder(m.langs)
           f == [i \in 1 .. n |-> LangTable(o[i], m.langs[o[i]])]
           N == [i \in 1 .. n |-> {Key("lang", o[i])}]
           t == FlattenSeq(f)
           all == UNION {N[i] : i \in 1 .. n}
<1>1. n \in Nat /\ DOMAIN m.langs = 1 .. n /\ \A i \in 1 .. n : IsLanguage(m.langs[i])
  BY ForList DEF IsModule
<1>2. /\ DOMAIN o = 1 .. n
      /\ \A l \in 1 .. n : \E i \in 1 .. n : o[i] = l
      /\ \A i \in 1 .. n : o[i] \in 1 .. n
      /\ \A i, j \in 1 .. n : o[i] = o[j] => i = j
  BY LangOrderAll DEF IsModule
<1>3. LangCalls(m) = t
  BY <1>2 DEF LangCalls, ForEach
<1>4. /\ f = [i \in 1 .. n |-> f[i]] /\ \A i \in 1 .. n : f[i] = LangTable(o[i], m.langs[o[i]])
      /\ \A i \in 1 .. n : N[i] = {Key("lang", o[i])}
  OBVIOUS
<1>5. Len(f) = n
  <2>1. f \in Seq({f[i] : i \in 1 .. n}) /\ DOMAIN f = 1 .. n
    BY <1>1
  <2> QED BY <1>1, <2>1
<1> HIDE DEF n, f, o, N
<1>6. \A i \in 1 .. n : Segment(f[i], K, N[i])
  <2> SUFFICES ASSUME NEW i \in 1 .. n PROVE Segment(f[i], K, N[i])
    OBVIOUS
  <2> DEFINE p == o[i]
             l == m.langs[p]
             u == LangTable(p, l)
  <2>1. p \in 1 .. n /\ IsLanguage(l) /\ HasStrings(l, p, K)
    BY <1>1, <1>2 DEF n
  <2>2. Key("lang", p) \notin K
    BY KeyTags
  <2> HIDE DEF p, l
  <2>3. Segment(u, K, Named(u)) /\ Named(u) = {Key("lang", p)}
    BY <2>1, <2>2, LangTableFits DEF HasStrings
  <2>4. f[i] = u /\ N[i] = {Key("lang", p)}
    BY <1>4 DEF p, l
  <2> QED BY <2>3, <2>4
<1>7. \A i, j \in 1 .. n : i # j => N[i] \cap N[j] = {}
  <2> SUFFICES ASSUME NEW i \in 1 .. n, NEW j \in 1 .. n, i # j
               PROVE  N[i] \cap N[j] = {}
    OBVIOUS
  <2>1. o[i] # o[j]
    BY <1>2
  <2>2. Key("lang", o[i]) # Key("lang", o[j])
    BY <2>1 DEF Key
  <2> QED BY <1>4, <2>2
<1>8. \A i \in 1 .. n : K \cap N[i] = {}
  BY <1>4, KeyTags
<1>9. Segment(t, K, all)
  BY <1>1, <1>4, <1>5, <1>6, <1>7, <1>8, SegmentEach
<1>10. Named(t) = all
  BY <1>9 DEF Segment
<1>11. Tagged(all, {"lang"})
  BY <1>4, KeyTags DEF Tagged
<1>12. \A i \in 1 .. n : Key("lang", i) \in all
  <2> SUFFICES ASSUME NEW i \in 1 .. n PROVE Key("lang", i) \in all
    OBVIOUS
  <2>1. PICK j \in 1 .. n : o[j] = i
    BY <1>2
  <2>2. Key("lang", i) \in N[j]
    BY <1>4, <2>1
  <2> QED BY <2>2
<1> HIDE DEF t, all
<1> QED BY <1>3, <1>9, <1>10, <1>11, <1>12 DEF n

\* Segments in a row, told apart by their tags.
LEMMA TaggedJoined ==
  ASSUME NEW x, NEW P, NEW S, Segment(x, {}, P), Tagged(P, S),
         NEW y, NEW N, NEW T, Segment(y, P, N), Tagged(N, T)
  PROVE  Segment(x \o y, {}, P \cup N) /\ Tagged(P \cup N, S \cup T)
<1>1. Segment(x \o y, {}, P \cup N)
  <2> DEFINE K == {}
  <2>1. Segment(x, K, P) /\ K \cup P = P
    OBVIOUS
  <2> HIDE DEF K
  <2>2. Segment(y, K \cup P, N)
    BY <2>1
  <2>3. Segment(x \o y, K, P \cup N)
    BY <2>1, <2>2, SegmentJoined
  <2> QED BY <2>3 DEF K
<1>2. Tagged(P \cup N, S \cup T)
  BY DEF Tagged
<1> QED BY <1>1, <1>2

\* The inner part of a module.
LEMMA ModuleFits ==
  ASSUME NEW m, IsModule(m)
  PROVE  /\ Fits(ModuleInner(m), {}, FALSE)
         /\ \E x : IsBuffer(x) /\ ModuleInner(m) = x \o RootCalls(m)
<1> DEFINE t1 == ConfigCalls(m)
           t2 == LogCalls("script", m.scripts)
           t3 == LogCalls("style", m.styles)
           t4 == StringCalls(m)
           t5 == ExtraCalls(m)
           t6 == LangCalls(m)
           t7 == RootCalls(m)
           u2 == t1 \o t2
           u3 == u2 \o t3
           u4 == u3 \o t4
           u5 == u4 \o t5
           u6 == u5 \o t6
           u7 == u6 \o t7
           N1 == Named(t1)
           N2 == Named(t2)
           N3 == Named(t3)
           N4 == Named(t4)
           N5 == Named(t5)
           N6 == Named(t6)
           P2 == N1 \cup N2
           P3 == P2 \cup N3
           P4 == P3 \cup N4
           P5 == P4 \cup N5
           P6 == P5 \cup N6
           T2 == {"config"} \cup {"script"}
           T3 == T2 \cup {"style"}
           T4 == T3 \cup StringTags
           T5 == T4 \cup {"extra", "admin", "skins", "token"}
           T6 == T5 \cup {"lang"}
<1>1. ModuleInner(m) = u7
  BY ModuleCalls
<1>2. /\ Segment(t1, {}, N1) /\ Tagged(N1, {"config"})
      /\ \A i \in 1 .. Len(m.configs) : Key("config", i) \in N1
  BY ConfigsFit
<1>3. /\ IsList(m.scripts) /\ IsList(m.styles)
      /\ \A i \in DOMAIN m.scripts : IsEntry(m.scripts[i])
      /\ \A i \in DOMAIN m.styles : IsEntry(m.styles[i])
  BY DEF IsModule
<1> HIDE DEF N1
<1>4. /\ Segment(t2, N1, N2) /\ Tagged(N2, {"script"})
      /\ \A i \in 1 .. Len(m.scripts) : Key("script", i) \in N2
  <2>1. \A key \in N1 : Tag(key) # "script"
    BY <1>2 DEF Tagged
  <2> QED BY <1>3, <2>1, LogFits
<1> HIDE DEF N2, t1, t2
<1>5. Segment(u2, {}, P2) /\ Tagged(P2, T2)
  BY <1>2, <1>4, TaggedJoined
<1> HIDE DEF u2, P2
<1>6. /\ Segment(t3, P2, N3) /\ Tagged(N3, {"style"})
      /\ \A i \in 1 .. Len(m.styles) : Key("style", i) \in N3
  <2>1. \A key \in P2 : Tag(key) # "style"
    BY <1>5 DEF Tagged
  <2> QED BY <1>3, <2>1, LogFits
<1> HIDE DEF N3, t3, T2
<1>7. Segment(u3, {}, P3) /\ Tagged(P3, T3)
  BY <1>5, <1>6, TaggedJoined
<1> HIDE DEF u3, P3
<1>8. /\ Segment(t4, P3, N4) /\ Tagged(N4, StringTags)
      /\ \A i \in 1 .. Len(m.langs) : HasStrings(m.langs[i], i, N4)
  <2>1. \A key \in P3 : Tag(key) \notin StringTags
    BY <1>7 DEF Tagged, StringTags, T3, T2
  <2> QED BY <2>1, StringsFit
<1> HIDE DEF N4, t4, T3
<1>9. Segment(u4, {}, P4) /\ Tagged(P4, T4)
  BY <1>7, <1>8, TaggedJoined
<1> HIDE DEF u4, P4
<1>10. /\ Segment(t5, P4, N5) /\ Tagged(N5, {"extra", "admin", "skins", "token"})
       /\ {Key("extra", 0), Key("skins", 0), Key("token", 0)} \subseteq N5
  <2> DEFINE keys == {Key("extra", 0), Key("admin", 0), Key("skins", 0), Key("token", 0)}
  <2>1. Tagged(keys, {"extra", "admin", "skins", "token"})
    BY KeyTags DEF Tagged
  <2>2. P4 \cap keys = {}
    <3>1. \A key \in P4 : Tag(key) \notin {"extra", "admin", "skins", "token"}
      BY <1>9 DEF Tagged, StringTags, T4, T3, T2
    <3> HIDE DEF keys
    <3> QED BY <2>1, <3>1 DEF Tagged
  <2>3. Segment(t5, P4, N5) /\ N5 = keys
    BY <2>2, ExtraFits
  <2> QED BY <2>1, <2>3
<1> HIDE DEF N5, t5, T4
<1>11. Segment(u5, {}, P5) /\ Tagged(P5, T5)
  BY <1>9, <1>10, TaggedJoined
<1>12. \A i \in 1 .. Len(m.langs) : HasStrings(m.langs[i], i, P5)
  BY <1>8 DEF HasStrings, P4
<1> HIDE DEF u5, P5
<1>13. /\ Segment(t6, P5, N6) /\ Tagged(N6, {"lang"})
       /\ \A i \in 1 .. Len(m.langs) : Key("lang", i) \in N6
  <2>1. \A key \in P5 : Tag(key) # "lang"
    BY <1>11 DEF Tagged, StringTags, T5, T4, T3, T2
  <2> QED BY <1>12, <2>1, LangsFit
<1> HIDE DEF N6, t6, T5
<1>14. Segment(u6, {}, P6) /\ Tagged(P6, T6)
  BY <1>11, <1>13, TaggedJoined
<1> HIDE DEF u6
<1>15. Fits(t7, P6, FALSE)
  <2> DEFINE keys == {Key("langs", 0), Key("scripts", 0), Key("styles", 0), Key("configs", 0),
                      Key("user", 0), Key("root", 0)}
             T == {"langs", "scripts", "styles", "configs", "user", "root"}
  <2>1. Tagged(keys, T)
    BY KeyTags DEF Tagged
  <2>2. P6 \cap keys = {}
    <3>1. \A key \in P6 : Tag(key) \notin T
      BY <1>14 DEF Tagged, StringTags, T6, T5, T4, T3, T2
    <3> HIDE DEF keys, T
    <3> QED BY <2>1, <3>1 DEF Tagged
  <2>3. /\ \A i \in 1 .. Len(m.langs) : Key("lang", i) \in P6
        /\ \A i \in 1 .. Len(m.scripts) : Key("script", i) \in P6
        /\ \A i \in 1 .. Len(m.styles) : Key("style", i) \in P6
        /\ \A i \in 1 .. Len(m.configs) : Key("config", i) \in P6
        /\ {Key("extra", 0), Key("skins", 0), Key("token", 0)} \subseteq P6
    BY <1>2, <1>4, <1>6, <1>10, <1>13 DEF P2, P3, P4, P5
  <2> HIDE DEF P6
  <2> QED BY <2>2, <2>3, RootFits
<1> HIDE DEF P6, t7
<1>16. Fits(u7, {}, FALSE)
  <2> DEFINE K == {}
  <2>1. Segment(u6, K, P6) /\ K \cup P6 = P6
    BY <1>14
  <2> HIDE DEF K
  <2>2. Fits(t7, K \cup P6, FALSE)
    BY <1>15, <2>1
  <2>3. Fits(u7, K, FALSE)
    BY <2>1, <2>2, FitsJoined
  <2> QED BY <2>3 DEF K
<1>17. IsBuffer(u6)
  BY <1>14 DEF Segment, Fits
<1> QED BY <1>1, <1>16, <1>17 DEF t7

\* The inner part of a reply to a create.
LEMMA CreateFits ==
  ASSUME NEW m, IsEntry(m.entry), m.type \in Word
  PROVE  Fits(CreateInner(m), {}, FALSE)
<1> DEFINE x == LogEntry("entry", 1, m.entry)
           t == CreateEnd(m)
           K == {}
           N == Named(x)
<1>1. CreateInner(m) = x \o t
  BY CreateCalls
<1>2. Segment(x, K, N) /\ N \subseteq EntryNames("entry", 1) /\ Key("entry", 1) \in N
  <2>1. K \cap EntryNames("entry", 1) = {}
    OBVIOUS
  <2> HIDE DEF K
  <2> QED BY <2>1, EntryCodedFits, EntryBareFits
<1>3. N \cap {Key("entries", 0), Key("root", 0)} = {}
  <2>1. \A key \in N : Tag(key) = "entry"
    BY <1>2, EntryTags
  <2>2. Tag(Key("entries", 0)) = "entries" /\ Tag(Key("root", 0)) = "root"
    BY KeyTags
  <2> QED BY <2>1, <2>2
<1> HIDE DEF N
<1>4. Fits(t, N, FALSE)
  BY <1>2, <1>3, CreateEndFits
<1>5. K \cup N = N
  OBVIOUS
<1> HIDE DEF x, t, K
<1>6. Fits(x \o t, K, FALSE)
  BY <1>2, <1>4, <1>5, FitsJoined
<1> QED BY <1>1, <1>6 DEF K, x, t

\* The inner part of a script is in order and ends with the finish of its root.
LEMMA InnerFits ==
  ASSUME NEW m \in Inputs
  PROVE  Fits(InnerPart(m), {}, FALSE) /\ Finishes(InnerPart(m), "root")
<1>1. CASE m.kind = "module" /\ IsModule(m)
  <2> DEFINE y == RootCalls(m)
  <2>1. PICK x : IsBuffer(x) /\ ModuleInner(m) = x \o y
    BY <1>1, ModuleFits
  <2>2. IsBuffer(y) /\ Len(y) = 20 /\ y[20] = Finished("root")
    BY RootElements
  <2> HIDE DEF y
  <2>3. Finishes(y, "root")
    BY <2>2 DEF Finishes, Finished
  <2>4. Finishes(ModuleInner(m), "root")
    BY <2>1, <2>3, FinishesJoined
  <2>5. Fits(ModuleInner(m), {}, FALSE)
    BY <1>1, ModuleFits
  <2> QED BY <1>1, <2>4, <2>5 DEF InnerPart
<1>2. CASE m.kind = "create" /\ IsEntry(m.entry) /\ m.type \in Word
  <2> DEFINE x == LogEntry("entry", 1, m.entry)
             y == CreateEnd(m)
  <2>1. /\ CreateInner(m) = x \o y /\ IsBuffer(x) /\ IsBuffer(y) /\ Len(y) = 6
        /\ y[6] = Finished("root")
    BY CreateCalls
  <2> HIDE DEF x, y
  <2>2. Finishes(y, "root")
    BY <2>1 DEF Finishes, Finished
  <2>3. Finishes(CreateInner(m), "root")
    BY <2>1, <2>2, FinishesJoined
  <2>4. Fits(CreateInner(m), {}, FALSE)
    BY <1>2, CreateFits
  <2> QED BY <1>2, <2>3, <2>4 DEF InnerPart
<1>3. CASE m.kind = "case11" /\ m.id \in Word /\ m.text \in Seq(Byte)
  <2> DEFINE y == Case11Inner(m)
  <2>1. IsBuffer(y) /\ Len(y) = 6 /\ y[6] = Finished("root")
    BY Case11Calls
  <2> HIDE DEF y
  <2>2. Finishes(y, "root")
    BY <2>1 DEF Finishes, Finished
  <2>3. Finishes(Case11Inner(m), "root")
    BY <2>2 DEF y
  <2>4. Fits(Case11Inner(m), {}, FALSE)
    BY <1>3, Case11Fits
  <2> QED BY <1>3, <2>3, <2>4 DEF InnerPart
<1> QED BY <1>1, <1>2, <1>3, InputsAssumption

\* A wrapper, forced or not, fits after a finished inner part.
LEMMA WrapperFits ==
  ASSUME NEW forced \in BOOLEAN, NEW type \in Word
  PROVE  Fits(Wrapper(forced, type), {}, TRUE)
<1> DEFINE x == When(forced, <<ForceCall>>)
           y == WrapperEnd(type)
           z == x \o y
<1>1. /\ Wrapper(forced, type) = z /\ IsBuffer(x) /\ IsBuffer(y)
  BY WrapperBuffer
<1>2. Fits(y, {}, TRUE)
  BY WrapperEndFits
<1>3. \A k \in 1 .. Len(x) : x[k].op = "force"
  <2>1. CASE forced
    <3> DEFINE c == ForceCall
    <3>1. c.op = "force" /\ x = <<c>>
      BY <2>1 DEF When, ForceCall
    <3> HIDE DEF c, x
    <3>2. Len(x) = 1 /\ x[1] = c
      BY <3>1
    <3> QED BY <3>1, <3>2
  <2>2. CASE ~forced
    <3>1. x = <<>>
      BY <2>2 DEF When
    <3> HIDE DEF x
    <3>2. Len(x) = 0
      BY <3>1
    <3> QED BY <3>2
  <2> QED BY <2>1, <2>2
<1> HIDE DEF x, y
<1>4. /\ IsBuffer(z) /\ Len(z) = Len(x) + Len(y) /\ Len(x) \in Nat /\ Len(y) \in Nat
      /\ PartAt(z, 0, x) /\ PartAt(z, Len(x), y)
  BY <1>1, Joined
<1>5. /\ \A i \in 1 .. Len(x) : NamesBefore(z, i) = NamesBefore(x, i)
      /\ \A i \in 1 .. Len(y) + 1 : NamesBefore(z, Len(x) + i) = Named(x) \cup NamesBefore(y, i)
  BY <1>1, NamesJoined
<1>6. Named(x) = {}
  <2>1. \A k \in 1 .. (Len(x) + 1) - 1 : ~Makes(x[k])
    BY <1>3, <1>4 DEF Makes
  <2> QED BY <2>1 DEF Named, NamesBefore
<1> HIDE DEF z
<1>7. ASSUME NEW i \in 1 .. Len(x) PROVE FitsAt(z, i, {}, TRUE)
  <2>1. z[i].op = "force"
    BY <1>3, <1>4 DEF PartAt
  <2> QED BY <2>1 DEF FitsAt, IsCall, Uses, Makes, Adds
<1>8. ASSUME NEW i \in 1 .. Len(y) PROVE FitsAt(z, Len(x) + i, {}, TRUE)
  <2>1. FitsAt(y, i, {}, TRUE)
    BY <1>2 DEF Fits
  <2>2. z[Len(x) + i] = y[i]
    BY <1>4 DEF PartAt
  <2>3. InOpen(y, i) => InOpen(z, Len(x) + i)
    <3>1. Len(z) \in Nat /\ Len(y) \in Nat /\ PartAt(z, Len(x), y)
      BY <1>4
    <3> QED BY <3>1, InOpenPart
  <2>4. NamesBefore(z, Len(x) + i) = NamesBefore(y, i)
    <3>1. i \in 1 .. Len(y) + 1
      BY <1>4
    <3> QED BY <1>5, <1>6, <3>1
  <2>5. i = Len(y) => Len(x) + i = Len(z)
    BY <1>4
  <2> QED BY <2>1, <2>2, <2>3, <2>4, <2>5 DEF FitsAt
<1>9. ASSUME NEW i \in 1 .. Len(z) PROVE FitsAt(z, i, {}, TRUE)
  <2>1. CASE i <= Len(x)
    <3>1. i \in 1 .. Len(x)
      BY <1>4, <2>1
    <3> QED BY <1>7, <3>1
  <2>2. CASE ~(i <= Len(x))
    <3>1. i - Len(x) \in 1 .. Len(y) /\ Len(x) + (i - Len(x)) = i
      BY <1>4, <2>2
    <3> QED BY <1>8, <3>1
  <2> QED BY <2>1, <2>2
<1>10. Fits(z, {}, TRUE)
  BY <1>4, <1>9 DEF Fits
<1> QED BY <1>1, <1>10 DEF z

\* The part of a script for the wrapper is in order.
LEMMA OuterFits ==
  ASSUME NEW m \in Inputs
  PROVE  Fits(OuterPart(m), {}, TRUE)
<1>1. {3, 11} \subseteq Word
  <2>1. Base \in Nat /\ Base * Base \in Nat /\ 4 + 2 * 13 < Base * Base
    BY BaseAssumption, WidthAssumption DEF U16Size
  <2> DEFINE w == Base * Base
  <2>2. w \in Nat /\ 30 < w
    BY <2>1
  <2>3. U32Size = w * w
    BY DEF U32Size, U16Size
  <2> HIDE DEF w
  <2>4. w * w \in Int /\ w * w >= 30 * w
    BY <2>2
  <2>5. 30 * w > 30
    BY <2>2
  <2> QED BY <2>2, <2>3, <2>4, <2>5 DEF Word
<1>2. CASE m.kind = "module" /\ IsModule(m)
  <2>1. m.version \in Word
    BY <1>2 DEF IsModule
  <2>2. Fits(Wrapper(TRUE, m.version), {}, TRUE)
    BY <2>1, WrapperFits
  <2> QED BY <1>2, <2>2 DEF OuterPart
<1>3. CASE m.kind = "create"
  BY <1>1, <1>3, WrapperFits DEF OuterPart
<1>4. CASE m.kind = "case11"
  BY <1>1, <1>4, WrapperFits DEF OuterPart
<1> QED BY <1>2, <1>3, <1>4, InputsAssumption

\* A script is its two parts in a row.
LEMMA ScriptParts ==
  ASSUME NEW m \in Inputs
  PROVE  /\ Script(m) = InnerPart(m) \o OuterPart(m)
         /\ Finishes(InnerPart(m), "root") /\ Finishes(OuterPart(m), "wrapper")
<1>1. m.kind \in {"module", "create", "case11"}
  BY InputsAssumption
<1>2. Script(m) = InnerPart(m) \o OuterPart(m)
  BY <1>1 DEF Script, InnerPart, OuterPart
<1>3. Finishes(OuterPart(m), "wrapper")
  BY <1>1, WrapperFinishes DEF OuterPart
<1> QED BY <1>2, <1>3, InnerFits

\* What the build functions call, whatever they are given, is in an order that
\* makes sense to the builder: a Ref is named once in its buffer, before it is
\* used and in the buffer it is used in, a field is added once, to a table that
\* is open and has a slot for it, the inner FlatBuffer is finished before it is
\* a payload, and each argument has the type of its parameter.
THEOREM ScriptInOrder ==
  ASSUME NEW m \in Inputs
  PROVE  /\ Len(Script(m)) \in Nat /\ Script(m) = [i \in 1 .. Len(Script(m)) |-> Script(m)[i]]
         /\ \A i \in 1 .. Len(Script(m)) : IsCall(Script(m)[i]) /\ InOrder(Script(m), i)
<1> DEFINE x == InnerPart(m)
           y == OuterPart(m)
           s == x \o y
<1>1. Script(m) = s /\ Finishes(x, "root")
  BY ScriptParts
<1>2. Fits(x, {}, FALSE) /\ Fits(y, {}, TRUE)
  BY InnerFits, OuterFits
<1> HIDE DEF x, y
<1>3. \A i \in 1 .. Len(s) : IsCall(s[i]) /\ InOrder(s, i)
  BY <1>1, <1>2, TwoInOrder
<1>4. IsBuffer(s)
  BY <1>2, Joined DEF Fits
<1> HIDE DEF s
<1>5. Len(s) \in Nat /\ s = [i \in 1 .. Len(s) |-> s[i]]
  BY <1>4 DEF IsBuffer
<1> QED BY <1>1, <1>3, <1>5

-----------------------------------------------------------------------------
(* Where the script is. *)

\* The script of this frame.
Calls == Script(input)

\* The calls that were made.
Done == Len(Calls) - Len(todo)

\* What is left is the end of the script.
PlaceInv ==
  /\ input \in Inputs /\ IsBuffer(todo) /\ Len(todo) <= Len(Calls)
  /\ \A i \in 1 .. Len(todo) : todo[i] = Calls[Done + i]

\* The Refs there are, are those of the objects made in this buffer.
NamesInv ==
  /\ DOMAIN made = DOMAIN refs
  /\ \A key \in DOMAIN refs : refs[key] \in 0 .. UsedSpace(b)
  /\ \A j \in 1 .. Done : MadeFor(Calls, j, Done + 1) => Calls[j].as \in DOMAIN refs
  /\ todo # <<>> => \A key \in DOMAIN refs : \E j \in 1 .. Done :
                      MadeFor(Calls, j, Done + 1) /\ Calls[j].as = key

\* The inner FlatBuffer is there once a finish was called.
InnerInv ==
  /\ (\A j \in 1 .. Done : Calls[j].op # "finish") => inner = None
  /\ (\E j \in 1 .. Done : Calls[j].op = "finish") => IsBuffer(inner)

\* The builder is in the table the script has open.
InTable(j) ==
  /\ b.inTable = TRUE /\ b.fieldCount = Calls[j].n
  /\ \A id \in DOMAIN row : \E k \in j + 1 .. Done : Adds(Calls[k]) /\ Calls[k].id = id

\* The builder is in the table the script has open.
OpenInv == \A j \in 1 .. Done : Open(Calls, j, Done + 1) => InTable(j)

\* The calls of this frame's script are typed and in order.
LEMMA ScriptCalls ==
  ASSUME input \in Inputs
  PROVE  /\ Len(Calls) \in Nat /\ Calls = [i \in 1 .. Len(Calls) |-> Calls[i]]
         /\ \A i \in 1 .. Len(Calls) : IsCall(Calls[i]) /\ InOrder(Calls, i)
BY ScriptInOrder DEF Calls

\* The call that is made is the next one.
LEMMA Calling ==
  ASSUME PlaceInv, NEW op, Call(op), UNCHANGED input
  PROVE  /\ Done \in Nat /\ Len(Calls) \in Nat /\ Done + 1 \in 1 .. Len(Calls)
         /\ Calls' = Calls /\ Done' = Done + 1 /\ PlaceInv' /\ todo # <<>>
         /\ Head(todo) = Calls[Done + 1] /\ Head(todo).op = op
         /\ IsCall(Head(todo)) /\ InOrder(Calls, Done + 1)
         /\ todo' # <<>> => Done + 1 < Len(Calls)
<1>1. todo # <<>> /\ Head(todo).op = op /\ todo' = Tail(todo)
  BY DEF Call
<1>2. PICK S : todo \in Seq(S)
  BY DEF PlaceInv, IsBuffer
<1>3. Len(todo) \in Nat /\ Len(todo) >= 1 /\ Head(todo) = todo[1]
  BY <1>1, <1>2
<1>4. /\ todo' \in Seq(S) /\ Len(todo') = Len(todo) - 1
      /\ \A i \in 1 .. Len(todo') : todo'[i] = todo[i + 1]
  BY <1>1, <1>2
<1>5. /\ Len(Calls) \in Nat
      /\ \A i \in 1 .. Len(Calls) : IsCall(Calls[i]) /\ InOrder(Calls, i)
  BY ScriptCalls DEF PlaceInv
<1>6. Calls' = Calls
  BY DEF Calls
<1>7. Done \in Nat /\ Done + 1 \in 1 .. Len(Calls) /\ Done' = Done + 1
  BY <1>3, <1>4, <1>5, <1>6 DEF Done, PlaceInv
<1>8. Head(todo) = Calls[Done + 1]
  BY <1>3 DEF PlaceInv
<1>9. PlaceInv'
  <2>1. IsBuffer(todo')
    BY <1>4 DEF IsBuffer
  <2>2. ASSUME NEW i \in 1 .. Len(todo') PROVE todo'[i] = Calls[Done' + i]
    <3>1. i + 1 \in 1 .. Len(todo)
      BY <1>3, <1>4
    <3>2. Done + (i + 1) = Done' + i
      BY <1>7, <3>1
    <3> QED BY <1>4, <3>1, <3>2 DEF PlaceInv
  <2>3. Len(todo') <= Len(Calls)
    BY <1>3, <1>4, <1>5 DEF PlaceInv
  <2> QED BY <1>6, <2>1, <2>2, <2>3 DEF PlaceInv
<1>10. todo' # <<>> => Done + 1 < Len(Calls)
  <2> SUFFICES ASSUME todo' # <<>> PROVE Done + 1 < Len(Calls)
    OBVIOUS
  <2>1. Len(todo') \in Nat /\ Len(todo') >= 1
    BY <1>4
  <2> QED BY <1>3, <1>4, <1>5, <2>1 DEF Done
<1> QED BY <1>1, <1>5, <1>6, <1>7, <1>8, <1>9, <1>10

\* What was made or opened before a call, and what after it.
LEMMA MadeNext ==
  ASSUME NEW s, NEW d \in Nat, s[d + 1].op # "finish", NEW j \in 1 .. d + 1
  PROVE  MadeFor(s, j, d + 2) <=> Makes(s[j]) /\ (j <= d => MadeFor(s, j, d + 1))
<1>1. (d + 2) - 1 = d + 1 /\ (d + 1) - 1 = d
  OBVIOUS
<1>2. \A k \in j .. d + 1 : k \in j .. d \/ k = d + 1
  OBVIOUS
<1>3. j \in 1 .. d \/ j = d + 1
  OBVIOUS
<1> QED BY <1>1, <1>2, <1>3 DEF MadeFor

\* The table open after a call was open before it, or the call opened it.
LEMMA OpenNext ==
  ASSUME NEW s, NEW d \in Nat, NEW j \in 1 .. d + 1, Open(s, j, d + 2)
  PROVE  /\ s[j].op = "start"
         /\ j = d + 1 \/ /\ j \in 1 .. d /\ Open(s, j, d + 1)
                         /\ s[d + 1].op \notin {"start", "end", "finish"}
<1>1. (d + 2) - 1 = d + 1 /\ (d + 1) - 1 = d
  OBVIOUS
<1>2. ASSUME j # d + 1 PROVE j \in 1 .. d /\ d + 1 \in j + 1 .. d + 1
  BY <1>2
<1>3. \A k \in j + 1 .. d : k \in j + 1 .. d + 1
  OBVIOUS
<1> QED BY <1>1, <1>2, <1>3 DEF Open

\* A call that makes no object leaves the names.
LEMMA NamesStay ==
  ASSUME PlaceInv, NamesInv, NEW op, Call(op),
         op \notin {"finish", "string", "bytes", "payload", "vector", "end"},
         UNCHANGED <<input, refs, made>>,
         UsedSpace(b) \in Nat, UsedSpace(b') \in Nat, UsedSpace(b) <= UsedSpace(b')
  PROVE  NamesInv'
<1>1. /\ Done \in Nat /\ Calls' = Calls /\ Done' = Done + 1 /\ todo # <<>>
      /\ Calls[Done + 1].op = op
  BY Calling
<1>2. ASSUME NEW j \in 1 .. Done + 1
      PROVE  MadeFor(Calls, j, Done + 2) <=> j \in 1 .. Done /\ MadeFor(Calls, j, Done + 1)
  <2>1. ~Makes(Calls[Done + 1]) /\ Calls[Done + 1].op # "finish"
    BY <1>1 DEF Makes
  <2>2. MadeFor(Calls, j, Done + 1) => Makes(Calls[j])
    BY DEF MadeFor
  <2>3. j \in 1 .. Done \/ j = Done + 1
    BY <1>1
  <2>4. MadeFor(Calls, j, Done + 2)
          <=> Makes(Calls[j]) /\ (j <= Done => MadeFor(Calls, j, Done + 1))
    BY <1>1, <2>1, MadeNext
  <2> QED BY <1>1, <2>1, <2>2, <2>3, <2>4
<1>3. \A key \in DOMAIN refs : refs[key] \in 0 .. UsedSpace(b')
  BY DEF NamesInv
<1>4. \A j \in 1 .. Done + 1 : MadeFor(Calls, j, Done + 2) => Calls[j].as \in DOMAIN refs
  BY <1>2 DEF NamesInv
<1>5. ASSUME NEW key \in DOMAIN refs
      PROVE  \E j \in 1 .. Done + 1 : MadeFor(Calls, j, Done + 2) /\ Calls[j].as = key
  <2>1. PICK j \in 1 .. Done : MadeFor(Calls, j, Done + 1) /\ Calls[j].as = key
    BY <1>1 DEF NamesInv
  <2>2. j \in 1 .. Done + 1
    BY <1>1
  <2> QED BY <1>2, <2>1, <2>2
<1>6. Done' + 1 = Done + 2
  BY <1>1
<1> QED BY <1>1, <1>3, <1>4, <1>5, <1>6 DEF NamesInv

\* One that makes an object gives it a name there was not.
LEMMA NamesGrow ==
  ASSUME PlaceInv, NamesInv, NEW op \in {"string", "bytes", "payload", "vector", "end"},
         Call(op), UNCHANGED input, NEW r, NEW content,
         refs' = With(refs, Head(todo).as, r), made' = With(made, Head(todo).as, content),
         r \in 0 .. UsedSpace(b'),
         UsedSpace(b) \in Nat, UsedSpace(b') \in Nat, UsedSpace(b) <= UsedSpace(b')
  PROVE  NamesInv' /\ Head(todo).as \notin DOMAIN refs
<1> DEFINE as == Calls[Done + 1].as
<1>1. /\ Done \in Nat /\ Calls' = Calls /\ Done' = Done + 1 /\ todo # <<>>
      /\ Calls[Done + 1].op = op /\ Head(todo) = Calls[Done + 1] /\ InOrder(Calls, Done + 1)
  BY Calling
<1>2. Makes(Calls[Done + 1])
  BY <1>1 DEF Makes
<1>3. as \notin DOMAIN refs
  <2>1. (Done + 1) - 1 = Done
    BY <1>1
  <2>2. ~ \E j \in 1 .. Done : MadeFor(Calls, j, Done + 1) /\ Calls[j].as = as
    BY <1>1, <1>2, <2>1 DEF InOrder
  <2> QED BY <1>1, <2>2 DEF NamesInv
<1>4. ASSUME NEW j \in 1 .. Done + 1
      PROVE  MadeFor(Calls, j, Done + 2)
               <=> j = Done + 1 \/ (j \in 1 .. Done /\ MadeFor(Calls, j, Done + 1))
  <2>2. MadeFor(Calls, j, Done + 1) => Makes(Calls[j])
    BY DEF MadeFor
  <2>3. j \in 1 .. Done \/ j = Done + 1
    BY <1>1
  <2>4. MadeFor(Calls, j, Done + 2)
          <=> Makes(Calls[j]) /\ (j <= Done => MadeFor(Calls, j, Done + 1))
    BY <1>1, MadeNext
  <2> QED BY <1>1, <1>2, <2>2, <2>3, <2>4
<1>5. /\ DOMAIN refs' = DOMAIN refs \cup {as} /\ DOMAIN made' = DOMAIN made \cup {as}
      /\ refs'[as] = r /\ \A key \in DOMAIN refs : refs'[key] = refs[key]
  BY <1>1, <1>3 DEF With
<1>6. \A key \in DOMAIN refs' : refs'[key] \in 0 .. UsedSpace(b')
  BY <1>5 DEF NamesInv
<1>7. \A j \in 1 .. Done + 1 : MadeFor(Calls, j, Done + 2) => Calls[j].as \in DOMAIN refs'
  BY <1>4, <1>5 DEF NamesInv
<1>8. ASSUME NEW key \in DOMAIN refs'
      PROVE  \E j \in 1 .. Done + 1 : MadeFor(Calls, j, Done + 2) /\ Calls[j].as = key
  <2>1. CASE key = as
    <3>1. Done + 1 \in 1 .. Done + 1
      BY <1>1
    <3> QED BY <1>4, <2>1, <3>1
  <2>2. CASE key \in DOMAIN refs
    <3>1. PICK j \in 1 .. Done : MadeFor(Calls, j, Done + 1) /\ Calls[j].as = key
      BY <1>1, <2>2 DEF NamesInv
    <3>2. j \in 1 .. Done + 1
      BY <1>1
    <3> QED BY <1>4, <3>1, <3>2
  <2> QED BY <1>5, <2>1, <2>2
<1>9. Done' + 1 = Done + 2
  BY <1>1
<1>10. DOMAIN made' = DOMAIN refs'
  BY <1>5 DEF NamesInv
<1> QED BY <1>1, <1>3, <1>6, <1>7, <1>8, <1>9, <1>10 DEF NamesInv

\* The Refs that a call is given are there.
LEMMA UsesKnown ==
  ASSUME PlaceInv, NamesInv, NEW op, Call(op), UNCHANGED input
  PROVE  \A key \in Uses(Head(todo)) : key \in DOMAIN refs
<1>1. /\ Done \in Nat /\ Head(todo) = Calls[Done + 1] /\ InOrder(Calls, Done + 1)
      /\ (Done + 1) - 1 = Done
  BY Calling
<1> SUFFICES ASSUME NEW key \in Uses(Head(todo)) PROVE key \in DOMAIN refs
  OBVIOUS
<1>2. \E j \in 1 .. (Done + 1) - 1 : MadeFor(Calls, j, Done + 1) /\ Calls[j].as = key
  BY <1>1 DEF InOrder
<1> QED BY <1>1, <1>2 DEF NamesInv

\* A call other than finish keeps to the inner FlatBuffer there is.
LEMMA InnerStays ==
  ASSUME PlaceInv, InnerInv, NEW op, op # "finish", Call(op), UNCHANGED <<input, inner>>
  PROVE  InnerInv'
<1>1. /\ Done \in Nat /\ Calls' = Calls /\ Done' = Done + 1 /\ Calls[Done + 1].op = op
  BY Calling
<1>2. \A j \in 1 .. Done + 1 : j \in 1 .. Done \/ j = Done + 1
  BY <1>1
<1>3. \A j \in 1 .. Done : j \in 1 .. Done + 1
  BY <1>1
<1> QED BY <1>1, <1>2, <1>3 DEF InnerInv

\* A call that is not about tables leaves the open one.
LEMMA OpenStays ==
  ASSUME PlaceInv, OpenInv, NEW op, op \notin {"start", "u32", "offset"}, Call(op),
         UNCHANGED <<input, row>>,
         op \notin {"end", "finish"} => b'.inTable = b.inTable /\ b'.fieldCount = b.fieldCount
  PROVE  OpenInv'
<1>1. /\ Done \in Nat /\ Calls' = Calls /\ Done' = Done + 1 /\ Calls[Done + 1].op = op
      /\ Done' + 1 = Done + 2
  BY Calling
<1> SUFFICES ASSUME NEW j \in 1 .. Done + 1, Open(Calls, j, Done + 2)
             PROVE  InTable(j)'
  BY <1>1 DEF OpenInv
<1>2. Calls[j].op = "start"
  BY <1>1, OpenNext
<1>3. j \in 1 .. Done /\ Open(Calls, j, Done + 1) /\ op \notin {"end", "finish"}
  BY <1>1, <1>2, OpenNext
<1>4. /\ b.inTable = TRUE /\ b.fieldCount = Calls[j].n
      /\ \A id \in DOMAIN row : \E k \in j + 1 .. Done : Adds(Calls[k]) /\ Calls[k].id = id
  BY <1>3 DEF OpenInv, InTable
<1>5. \A k \in j + 1 .. Done : k \in j + 1 .. Done + 1
  BY <1>1
<1> QED BY <1>1, <1>3, <1>4, <1>5 DEF InTable

\* A call that opens a table leaves that one open.
LEMMA OpenStarts ==
  ASSUME PlaceInv, Call("start"), UNCHANGED input, row' = <<>>,
         b'.inTable = TRUE, b'.fieldCount = Head(todo).n
  PROVE  OpenInv'
<1>1. /\ Done \in Nat /\ Calls' = Calls /\ Done' = Done + 1 /\ Calls[Done + 1].op = "start"
      /\ Head(todo) = Calls[Done + 1] /\ Done' + 1 = Done + 2
  BY Calling
<1>2. DOMAIN row' = {}
  OBVIOUS
<1>3. ASSUME NEW j \in 1 .. Done + 1, Open(Calls, j, Done + 2)
      PROVE  b'.inTable = TRUE /\ b'.fieldCount = Calls[j].n
  <2>1. j = Done + 1
    BY <1>1, <1>3, OpenNext
  <2> QED BY <1>1, <2>1
<1> QED BY <1>1, <1>2, <1>3 DEF OpenInv, InTable

\* A call that adds to the table finds it open, and adds what is not there.
LEMMA OpenAdds ==
  ASSUME PlaceInv, OpenInv, NEW op \in {"u32", "offset"}, Call(op), UNCHANGED input,
         NEW given, row' = With(row, Head(todo).id, given),
         b'.inTable = b.inTable, b'.fieldCount = b.fieldCount
  PROVE  /\ OpenInv' /\ b.inTable = TRUE /\ Head(todo).id \notin DOMAIN row
         /\ Head(todo).id \in 0 .. b.fieldCount - 1 /\ b.fieldCount \in Nat
<1>1. /\ Done \in Nat /\ Calls' = Calls /\ Done' = Done + 1 /\ Calls[Done + 1].op = op
      /\ Head(todo) = Calls[Done + 1] /\ IsCall(Calls[Done + 1]) /\ InOrder(Calls, Done + 1)
      /\ Done' + 1 = Done + 2 /\ (Done + 1) - 1 = Done /\ Done + 1 \in 1 .. Len(Calls)
      /\ Len(Calls) \in Nat
  BY Calling
<1>2. Adds(Calls[Done + 1])
  BY <1>1 DEF Adds
<1>3. PICK j \in 1 .. Done :
        /\ Open(Calls, j, Done + 1) /\ Calls[Done + 1].id < Calls[j].n
        /\ \A k \in j + 1 .. Done : Adds(Calls[k]) => Calls[k].id # Calls[Done + 1].id
  BY <1>1, <1>2 DEF InOrder
<1>4. /\ b.inTable = TRUE /\ b.fieldCount = Calls[j].n
      /\ \A id \in DOMAIN row : \E k \in j + 1 .. Done : Adds(Calls[k]) /\ Calls[k].id = id
  BY <1>3 DEF OpenInv, InTable
<1>5. Head(todo).id \notin DOMAIN row
  BY <1>1, <1>3, <1>4
<1>6. Calls[j].n \in Nat /\ Head(todo).id \in Nat
  <2>1. j \in 1 .. Len(Calls)
    BY <1>1
  <2>2. IsCall(Calls[j])
    BY <2>1, ScriptCalls DEF PlaceInv
  <2>3. Calls[j].op = "start"
    BY <1>3 DEF Open
  <2> QED BY <1>1, <2>2, <2>3 DEF IsCall
<1>7. OpenInv'
  <2> SUFFICES ASSUME NEW i \in 1 .. Done + 1, Open(Calls, i, Done + 2)
               PROVE  InTable(i)'
    BY <1>1 DEF OpenInv
  <2>1. Calls[i].op = "start"
    BY <1>1, OpenNext
  <2>2. i \in 1 .. Done /\ Open(Calls, i, Done + 1)
    BY <1>1, <2>1, OpenNext
  <2>3. /\ b.inTable = TRUE /\ b.fieldCount = Calls[i].n
        /\ \A id \in DOMAIN row : \E k \in i + 1 .. Done : Adds(Calls[k]) /\ Calls[k].id = id
    BY <2>2 DEF OpenInv, InTable
  <2>4. \A k \in i + 1 .. Done : k \in i + 1 .. Done + 1
    BY <1>1
  <2>5. Done + 1 \in i + 1 .. Done + 1
    BY <1>1, <2>2
  <2>6. DOMAIN row' = DOMAIN row \cup {Calls[Done + 1].id}
    BY <1>1 DEF With
  <2> QED BY <1>1, <1>2, <2>3, <2>4, <2>5, <2>6 DEF InTable
<1> QED BY <1>3, <1>4, <1>5, <1>6, <1>7, <1>1

\* A call that closes a table finds it open.
LEMMA OpenCloses ==
  ASSUME PlaceInv, OpenInv, Call("end"), UNCHANGED input
  PROVE  b.inTable = TRUE
<1>1. /\ Done \in Nat /\ Calls[Done + 1].op = "end" /\ InOrder(Calls, Done + 1)
      /\ (Done + 1) - 1 = Done
  BY Calling
<1>2. PICK j \in 1 .. Done : Open(Calls, j, Done + 1)
  BY <1>1 DEF InOrder
<1> QED BY <1>2 DEF OpenInv, InTable

-----------------------------------------------------------------------------
(* What a table is given. *)

\* An u32 that is 0 may be left out of the table.
LEMMA FieldLeftOut ==
  ASSUME NEW w, NEW given, NEW rf, FieldsHere(w, given, rf),
         NEW id, id \in 0 .. w.fieldCount - 1, id \notin DOMAIN given,
         NEW val, "v" \in DOMAIN val, val.v = 0
  PROVE  FieldsHere(w, With(given, id, val), rf)
<1> DEFINE more == With(given, id, val)
<1>1. /\ DOMAIN more = DOMAIN given \cup {id} /\ more[id] = val
      /\ \A k \in DOMAIN given : more[k] = given[k]
  BY DEF With
<1> HIDE DEF more
<1>2. \A f \in w.fields : f.id # id
  BY DEF FieldsHere
<1>3. \A f \in w.fields : f.id \in DOMAIN more
  BY <1>1 DEF FieldsHere
<1>4. ASSUME NEW k \in DOMAIN more
      PROVE  /\ k \in 0 .. w.fieldCount - 1
             /\ "v" \notin DOMAIN more[k] => more[k].of \in DOMAIN rf
             /\ \/ /\ "v" \in DOMAIN more[k] /\ more[k].v = 0
                   /\ \A f \in w.fields : f.id # k
                \/ \E f \in w.fields :
                     /\ f.id = k
                     /\ Reach(w) => ReadU32(w.buf, Len(w.buf) - f.used)
                                      = SlotValue(more[k], rf, f.used)
  <2>1. CASE k = id
    BY <1>1, <1>2, <2>1
  <2>2. CASE k \in DOMAIN given
    <3>1. more[k] = given[k]
      BY <1>1, <2>2
    <3> QED BY <2>2, <3>1 DEF FieldsHere
  <2> QED BY <1>1, <2>1, <2>2
<1>5. FieldsHere(w, more, rf)
  BY <1>3, <1>4 DEF FieldsHere
<1> QED BY <1>5 DEF more

\* A field that is added holds what it is given.
LEMMA FieldMade ==
  ASSUME NEW w, IsBuilder(w), NEW given, NEW rf, FieldsHere(w, given, rf),
         Known(rf, rf),
         NEW id, id \in 0 .. w.fieldCount - 1, id \notin DOMAIN given, NEW v,
         NEW x, x = AddField(Align(w, 4), id, v),
         NEW val, "v" \notin DOMAIN val => val.of \in DOMAIN rf,
         Reach(x) => v \in 0 .. (U32Size - 1) /\ v = SlotValue(val, rf, UsedSpace(x))
  PROVE  FieldsHere(x, With(given, id, val), rf)
<1> DEFINE more == With(given, id, val)
           new == [id |-> id, used |-> UsedSpace(x)]
<1>1. /\ DOMAIN more = DOMAIN given \cup {id} /\ more[id] = val
      /\ \A k \in DOMAIN given : more[k] = given[k]
  BY DEF With
<1>2. PICK n \in Nat : n >= 4 /\ Longer(w, x, n)
  BY FieldLonger
<1>3. /\ x.fields = w.fields \cup {new}
      /\ x.tableStart = w.tableStart /\ x.fieldCount = w.fieldCount
      /\ Holds(x.buf, UsedSpace(x), LE(4, v))
  BY FieldLonger
<1>4. new.id = id /\ new.used = UsedSpace(x)
  OBVIOUS
<1> HIDE DEF more, new
<1>5. /\ Extends(w, x) /\ UsedSpace(x) \in Nat /\ UsedSpace(w) \in Nat
      /\ UsedSpace(x) = UsedSpace(w) + n /\ Len(x.buf) \in Nat /\ Len(w.buf) \in Nat
      /\ SameEnd(w.buf, x.buf, UsedSpace(w)) /\ (Reach(x) => Reach(w))
  <2>1. Extends(w, x)
    BY <1>2, LongerExtends
  <2> QED BY <1>2, <2>1, ExtendsEnd DEF Longer
<1>6. /\ w.tableStart \in Nat /\ w.tableStart <= UsedSpace(w) /\ 4 + 2 * w.fieldCount < U16Size
      /\ \A f \in w.fields : f.id \in DOMAIN given /\ f.used \in w.tableStart + 4 .. UsedSpace(w)
      /\ \A f, g \in w.fields : f.id = g.id => f = g
  BY <1>5 DEF FieldsHere
<1>7. x.tableStart \in 0 .. UsedSpace(x) /\ 4 + 2 * x.fieldCount < U16Size
  BY <1>2, <1>3, <1>5, <1>6
<1>8. ASSUME NEW f \in x.fields
      PROVE  f.id \in DOMAIN more /\ f.used \in x.tableStart + 4 .. UsedSpace(x)
  <2>1. CASE f = new
    BY <1>1, <1>2, <1>3, <1>4, <1>5, <1>6, <2>1
  <2>2. CASE f \in w.fields
    <3>1. f.used \in w.tableStart + 4 .. UsedSpace(w)
      BY <1>6, <2>2
    <3> QED BY <1>1, <1>2, <1>3, <1>5, <1>6, <2>2, <3>1
  <2> QED BY <1>3, <2>1, <2>2
<1>9. \A f, g \in x.fields : f.id = g.id => f = g
  BY <1>3, <1>4, <1>6
<1>10. ASSUME NEW k \in DOMAIN more
       PROVE  /\ k \in 0 .. x.fieldCount - 1
              /\ "v" \notin DOMAIN more[k] => more[k].of \in DOMAIN rf
              /\ \/ /\ "v" \in DOMAIN more[k] /\ more[k].v = 0
                    /\ \A f \in x.fields : f.id # k
                 \/ \E f \in x.fields :
                      /\ f.id = k
                      /\ Reach(x) => ReadU32(x.buf, Len(x.buf) - f.used)
                                       = SlotValue(more[k], rf, f.used)
  <2>1. CASE k = id
    <3>1. ASSUME Reach(x)
          PROVE  ReadU32(x.buf, Len(x.buf) - new.used) = SlotValue(val, rf, new.used)
      <4>1. v \in 0 .. (U32Size - 1) /\ v = SlotValue(val, rf, UsedSpace(x))
        BY <3>1
      <4>2. ReadU32(x.buf, Len(x.buf) - UsedSpace(x)) = v
        <5>1. v \in Int /\ UsedSpace(x) \in Int
          BY <1>5, <4>1, Sizes
        <5> QED BY <1>3, <1>5, <4>1, <5>1, Read32
      <4> QED BY <1>4, <4>1, <4>2
    <3>2. new \in x.fields
      BY <1>3
    <3> QED BY <1>1, <1>3, <1>4, <2>1, <3>1, <3>2
  <2>2. CASE k \in DOMAIN given
    <3>1. more[k] = given[k] /\ k # id
      BY <1>1, <2>2
    <3>2. k \in 0 .. w.fieldCount - 1 /\ ("v" \notin DOMAIN given[k] => given[k].of \in DOMAIN rf)
      BY <2>2 DEF FieldsHere
    <3>3. CASE /\ "v" \in DOMAIN given[k] /\ given[k].v = 0
               /\ \A f \in w.fields : f.id # k
      BY <1>3, <1>4, <3>1, <3>2, <3>3
    <3>4. CASE \E f \in w.fields :
                 /\ f.id = k
                 /\ Reach(w) => ReadU32(w.buf, Len(w.buf) - f.used)
                                  = SlotValue(given[k], rf, f.used)
      <4>1. PICK f \in w.fields :
                 /\ f.id = k
                 /\ Reach(w) => ReadU32(w.buf, Len(w.buf) - f.used)
                                  = SlotValue(given[k], rf, f.used)
        BY <3>4
      <4>2. f.used \in 4 .. UsedSpace(w)
        <5>1. f.used \in w.tableStart + 4 .. UsedSpace(w)
          BY <1>6
        <5> QED BY <1>5, <1>6, <5>1
      <4>3. ReadU32(x.buf, Len(x.buf) - f.used) = ReadU32(w.buf, Len(w.buf) - f.used)
        BY <1>5, <4>2, Same32
      <4>4. f \in x.fields
        BY <1>3
      <4> QED BY <1>3, <1>5, <3>1, <3>2, <4>1, <4>3, <4>4
    <3>5. \/ /\ "v" \in DOMAIN given[k] /\ given[k].v = 0
             /\ \A f \in w.fields : f.id # k
          \/ \E f \in w.fields :
                 /\ f.id = k
                 /\ Reach(w) => ReadU32(w.buf, Len(w.buf) - f.used)
                                  = SlotValue(given[k], rf, f.used)
      BY <2>2 DEF FieldsHere
    <3> QED BY <3>3, <3>4, <3>5
  <2> QED BY <1>1, <2>1, <2>2
<1>11. FieldsHere(x, more, rf)
  BY <1>7, <1>8, <1>9, <1>10 DEF FieldsHere
<1> QED BY <1>11 DEF more

-----------------------------------------------------------------------------
(* The invariant. *)

\* What is finished is a whole number of words.
DoneInv ==
  \A bytes \in {inner, frame} \ {None} : IsBuffer(bytes) /\ Len(bytes) % 4 = 0

\* Each object is a whole number of words from the end.
RefsInv == \A key \in DOMAIN refs : refs[key] % 4 = 0

\* So is each field of the open table.
FieldsInv == \A f \in b.fields : f.used % 4 = 0

\* The open table is what it was given.
RowInv == b.inTable = TRUE => FieldsHere(b, row, refs)

\* The objects are what they were made of, except the lost ones.
ObjectsInv == ObjectsHere(b, made, refs, lost)

\* What a patch that goes astray may spoil.
CleanInv ==
  /\ VTablesHere(b)
  /\ lost = {} => Ahead(b) /\ TermsHere(b, made, refs) /\ VTablesApart(b)

\* The builder is one, the script is followed, and what was made is there.
FrameInv ==
  /\ IsBuilder(b)
  /\ PlaceInv /\ NamesInv /\ InnerInv /\ OpenInv
  /\ DoneInv /\ RefsInv /\ FieldsInv
  /\ RowInv /\ ObjectsInv /\ CleanInv

\* The bytes written stay.
Stays == b' # New => Kept(b, b')

\* The Refs there are stay known.
LEMMA KnownStays ==
  ASSUME IsBuilder(b), NamesInv
  PROVE  Known(refs, refs)
<1>1. UsedSpace(b) \in Nat
  BY Used
<1> QED BY <1>1 DEF NamesInv, Known

\* A new name leaves the others.
LEMMA KnownGrows ==
  ASSUME IsBuilder(b), NamesInv, NEW as, as \notin DOMAIN refs, NEW r \in Nat,
         refs' = With(refs, as, r)
  PROVE  /\ Known(refs, refs') /\ DOMAIN refs' = DOMAIN refs \cup {as} /\ refs'[as] = r
         /\ \A key \in DOMAIN refs : refs'[key] = refs[key] /\ key # as
<1>1. UsedSpace(b) \in Nat
  BY Used
<1>2. /\ DOMAIN refs' = DOMAIN refs \cup {as} /\ refs'[as] = r
      /\ \A key \in DOMAIN refs : refs'[key] = refs[key] /\ key # as
  BY DEF With
<1>3. \A key \in DOMAIN refs' : refs'[key] \in Nat
  <2>1. ASSUME NEW key \in DOMAIN refs PROVE refs[key] \in Nat
    <3>1. refs[key] \in 0 .. UsedSpace(b)
      BY DEF NamesInv
    <3> QED BY <1>1, <3>1
  <2> QED BY <1>2, <2>1
<1> QED BY <1>2, <1>3 DEF Known

\* A call that makes no object leaves those there are.
LEMMA Adding ==
  ASSUME FrameInv, NEW op, op \notin {"finish", "string", "bytes", "payload", "vector", "end"},
         Call(op), Extends(b, b'), Ahead(b) => Ahead(b'), b'.vtables = b.vtables,
         FieldsInv', RowInv', OpenInv', UNCHANGED <<input, inner, frame, refs, made, lost>>
  PROVE  FrameInv' /\ Stays
<1>1. /\ IsBuilder(b) /\ PlaceInv /\ NamesInv /\ InnerInv /\ DoneInv /\ RefsInv /\ ObjectsInv
      /\ CleanInv
  BY DEF FrameInv
<1>2. /\ IsBuilder(b') /\ Kept(b, b')
      /\ UsedSpace(b) \in Nat /\ UsedSpace(b') \in Nat /\ UsedSpace(b) <= UsedSpace(b')
  BY ExtendsEnd DEF Extends
<1>3. PlaceInv'
  BY <1>1, Calling
<1>4. NamesInv'
  BY <1>1, <1>2, NamesStay
<1>5. InnerInv'
  BY <1>1, InnerStays
<1>6. DoneInv' /\ RefsInv'
  BY <1>1 DEF DoneInv, RefsInv
<1>7. Known(refs, refs)
  BY <1>1, KnownStays
<1>8. ObjectsInv'
  <2>1. ASSUME Reach(b'), NEW key \in DOMAIN made \ lost
        PROVE  ObjectHere(b'.buf, UsedSpace(b'), refs[key], made[key], refs)
    BY <1>1, <1>7, <2>1, ObjectsKept DEF ObjectsInv
  <2> QED BY <2>1 DEF ObjectsInv, ObjectsHere
<1>9. CleanInv'
  <2>1. VTablesHere(b')
    BY <1>1, VTablesKept DEF CleanInv, VTablesHere
  <2>2. ASSUME lost = {} PROVE TermsHere(b', made, refs) /\ VTablesApart(b') /\ Ahead(b')
    <3>1. TermsHere(b, made, refs) /\ VTablesApart(b) /\ Ahead(b) /\ VTablesHere(b)
      BY <1>1, <2>2 DEF CleanInv
    <3>2. TermsHere(b', made, refs)
      BY <3>1, TermKept DEF TermsHere
    <3>3. VTablesApart(b')
      BY <3>1, VTablesKept DEF VTablesApart
    <3> QED BY <3>1, <3>2, <3>3
  <2> QED BY <2>1, <2>2 DEF CleanInv
<1>10. Stays
  BY <1>2 DEF Stays
<1> QED BY <1>2, <1>3, <1>4, <1>5, <1>6, <1>8, <1>9, <1>10 DEF FrameInv

\* One that makes an object adds it to them.
LEMMA Making ==
  ASSUME FrameInv, NEW op \in {"string", "bytes", "payload", "vector"}, Call(op),
         NEW content, Names(content), Extends(b, b'), Ahead(b) => Ahead(b'), Alike(b, b'),
         UsedSpace(b') % 4 = 0,
         Reach(b') => ObjectHere(b'.buf, UsedSpace(b'), UsedSpace(b'), content, refs),
         Ahead(b) /\ content.kind = "string" => Terminated(b', UsedSpace(b'), content.bytes),
         UNCHANGED <<input, inner, frame, row, lost>>
  PROVE  FrameInv' /\ Stays
<1> DEFINE as == Head(todo).as
           r == UsedSpace(b')
<1>1. /\ IsBuilder(b) /\ PlaceInv /\ NamesInv /\ InnerInv /\ OpenInv /\ DoneInv /\ RefsInv
      /\ FieldsInv /\ RowInv /\ ObjectsInv /\ CleanInv
  BY DEF FrameInv
<1>2. /\ IsBuilder(b') /\ Kept(b, b')
      /\ UsedSpace(b) \in Nat /\ UsedSpace(b') \in Nat /\ UsedSpace(b) <= UsedSpace(b')
  BY ExtendsEnd DEF Extends
<1>3. PlaceInv'
  BY <1>1, Calling
<1>4. /\ refs' = With(refs, Head(todo).as, UsedSpace(b'))
      /\ made' = With(made, Head(todo).as, content)
  BY DEF Names
<1>5. NamesInv' /\ as \notin DOMAIN refs
  <2>1. UsedSpace(b') \in 0 .. UsedSpace(b')
    BY <1>2
  <2> QED BY <1>1, <1>2, <1>4, <2>1, NamesGrow
<1>6. InnerInv'
  BY <1>1, InnerStays
<1>7. OpenInv'
  BY <1>1, OpenStays DEF Alike
<1>8. /\ Known(refs, refs') /\ DOMAIN refs' = DOMAIN refs \cup {as} /\ refs'[as] = r
      /\ \A key \in DOMAIN refs : refs'[key] = refs[key] /\ key # as
  BY <1>1, <1>2, <1>4, <1>5, KnownGrows
<1>9. /\ DOMAIN made' = DOMAIN made \cup {as} /\ made'[as] = content
      /\ \A key \in DOMAIN made : made'[key] = made[key] /\ key \in DOMAIN refs
  <2>1. DOMAIN made = DOMAIN refs
    BY <1>1 DEF NamesInv
  <2> QED BY <1>4, <1>5, <2>1 DEF With
<1> HIDE DEF as, r
<1>10. DoneInv' /\ RefsInv' /\ FieldsInv'
  <2>1. RefsInv'
    BY <1>1, <1>8 DEF RefsInv, r
  <2> QED BY <1>1, <2>1 DEF DoneInv, FieldsInv, Alike
<1>11. RowInv'
  BY <1>1, <1>8, FieldsKept DEF RowInv, Alike
<1>12. ObjectsInv'
  <2>1. ASSUME Reach(b'), NEW key \in DOMAIN made' \ lost
        PROVE  ObjectHere(b'.buf, UsedSpace(b'), refs'[key], made'[key], refs')
    <3>1. CASE key = as
      <4>1. ObjectHere(b'.buf, UsedSpace(b'), r, content, refs)
        BY <2>1 DEF r
      <4>2. ObjectHere(b'.buf, UsedSpace(b'), r, content, refs')
        BY <1>2, <1>8, <4>1, Renamed
      <4> QED BY <1>8, <1>9, <3>1, <4>2
    <3>2. CASE key \in DOMAIN made
      <4>1. ObjectHere(b'.buf, UsedSpace(b'), refs[key], made[key], refs')
        BY <1>1, <1>8, <2>1, <3>2, ObjectsKept DEF ObjectsInv
      <4> QED BY <1>8, <1>9, <3>2, <4>1
    <3> QED BY <1>9, <2>1, <3>1, <3>2
  <2> QED BY <2>1 DEF ObjectsInv, ObjectsHere
<1>13. CleanInv'
  <2>1. VTablesHere(b')
    BY <1>1, VTablesKept DEF CleanInv, VTablesHere, Alike
  <2>2. ASSUME lost = {} PROVE TermsHere(b', made', refs') /\ VTablesApart(b') /\ Ahead(b')
    <3>1. TermsHere(b, made, refs) /\ VTablesApart(b) /\ Ahead(b) /\ VTablesHere(b)
      BY <1>1, <2>2 DEF CleanInv
    <3>2. ASSUME NEW key \in DOMAIN made', made'[key].kind = "string"
          PROVE  Terminated(b', refs'[key], made'[key].bytes)
      <4>1. CASE key = as
        BY <1>8, <1>9, <3>1, <3>2, <4>1 DEF r
      <4>2. CASE key \in DOMAIN made
        <5>1. Terminated(b, refs[key], made[key].bytes)
          BY <1>9, <3>1, <3>2, <4>2 DEF TermsHere
        <5>2. Terminated(b', refs[key], made[key].bytes)
          BY <5>1, TermKept
        <5> QED BY <1>8, <1>9, <4>2, <5>2
      <4> QED BY <1>9, <4>1, <4>2
    <3>3. VTablesApart(b')
      BY <3>1, VTablesKept DEF VTablesApart, Alike
    <3> QED BY <3>1, <3>2, <3>3 DEF TermsHere
  <2> QED BY <2>1, <2>2 DEF CleanInv
<1>14. Stays
  BY <1>2 DEF Stays
<1> QED BY <1>2, <1>3, <1>5, <1>6, <1>7, <1>10, <1>11, <1>12, <1>13, <1>14 DEF FrameInv

\* The invariant holds at first.
LEMMA FrameStart == Init => FrameInv
<1> SUFFICES ASSUME Init PROVE FrameInv
  OBVIOUS
<1>1. /\ input \in Inputs /\ todo = Script(input) /\ b = New /\ inner = None
      /\ frame = None /\ refs = <<>> /\ made = <<>> /\ row = <<>> /\ lost = {}
  BY DEF Init
<1>2. DOMAIN refs = {} /\ DOMAIN made = {}
  BY <1>1
<1>3. /\ Len(Calls) \in Nat /\ Calls = [i \in 1 .. Len(Calls) |-> Calls[i]] /\ todo = Calls
  BY <1>1, ScriptCalls DEF Calls
<1>4. Done = 0
  BY <1>3 DEF Done
<1>5. PlaceInv
  <2>1. todo \in Seq({todo[i] : i \in 1 .. Len(todo)})
    BY <1>3
  <2> QED BY <1>1, <1>3, <1>4, <2>1 DEF PlaceInv, IsBuffer
<1>6. \A j \in 1 .. Done : FALSE
  BY <1>4
<1>7. NamesInv /\ InnerInv /\ OpenInv
  BY <1>1, <1>2, <1>6 DEF NamesInv, InnerInv, OpenInv
<1>8. DoneInv /\ RefsInv /\ FieldsInv /\ RowInv
  BY <1>1, <1>2 DEF DoneInv, RefsInv, FieldsInv, RowInv, New
<1>9. ObjectsInv
  BY <1>2 DEF ObjectsInv, ObjectsHere
<1>10. b.vtables = {}
  BY <1>1 DEF New
<1>11. CleanInv
  BY <1>1, <1>2, <1>10, NewBuilder DEF CleanInv, TermsHere, VTablesHere, VTablesApart, Apart
<1> QED BY <1>1, <1>5, <1>7, <1>8, <1>9, <1>11, NewBuilder DEF FrameInv

\* Each call keeps the invariant, and the bytes that were written.
LEMMA ForceStep ==
  ASSUME FrameInv, ForceDefaults
  PROVE  FrameInv' /\ Stays
<1>1. IsBuilder(b) /\ NamesInv /\ PlaceInv /\ OpenInv /\ FieldsInv /\ RowInv
  BY DEF FrameInv
<1>2. /\ DOMAIN b' = Fields /\ b'.buf = b.buf /\ b'.head = b.head
      /\ b'.minAlign = b.minAlign /\ Alike(b, b')
  BY <1>1 DEF ForceDefaults, IsBuilder, Fields, Alike
<1>3. IsBuilder(b') /\ Cap(b') = Cap(b) /\ UsedSpace(b') = UsedSpace(b) + 0
  BY <1>1, <1>2, Used DEF IsBuilder, Alike, UsedSpace, Cap
<1>4. Longer(b, b', 0) /\ (Ahead(b) => Ahead(b'))
  BY <1>2, <1>3 DEF Longer, Kept, Ahead
<1>5. Extends(b, b')
  BY <1>1, <1>4, LongerExtends
<1>6. Known(refs, refs)
  BY <1>1, KnownStays
<1>7. FieldsInv' /\ RowInv'
  <2>1. FieldsInv'
    BY <1>1, <1>2 DEF FieldsInv, Alike
  <2>2. RowInv'
    BY <1>1, <1>2, <1>5, <1>6, FieldsKept DEF ForceDefaults, RowInv, Alike
  <2> QED BY <2>1, <2>2
<1>8. OpenInv'
  BY <1>1, <1>2, OpenStays DEF ForceDefaults, Alike
<1> QED BY <1>2, <1>4, <1>5, <1>7, <1>8, Adding DEF ForceDefaults, Alike

\* A gap of zeros between objects.
LEMMA GapStep ==
  ASSUME FrameInv, PushGap
  PROVE  FrameInv' /\ Stays
<1>1. IsBuilder(b) /\ NamesInv /\ PlaceInv /\ OpenInv /\ FieldsInv /\ RowInv
  BY DEF FrameInv
<1>2. Head(todo).n \in Nat /\ b' = Skip(b, Head(todo).n)
  BY <1>1, Calling DEF PushGap, IsCall, PushZeros
<1>3. Longer(b, b', Head(todo).n) /\ Alike(b, b')
  BY <1>1, <1>2, SkipLonger
<1>4. Extends(b, b') /\ (Ahead(b) => Ahead(b'))
  BY <1>1, <1>2, <1>3, LongerExtends DEF Longer
<1>5. Known(refs, refs)
  BY <1>1, KnownStays
<1>6. FieldsInv' /\ RowInv'
  <2>1. FieldsInv'
    BY <1>1, <1>3 DEF FieldsInv, Alike
  <2>2. RowInv'
    BY <1>1, <1>3, <1>4, <1>5, FieldsKept DEF PushGap, RowInv, Alike
  <2> QED BY <2>1, <2>2
<1>7. OpenInv'
  BY <1>1, <1>3, OpenStays DEF PushGap, Alike
<1> QED BY <1>3, <1>4, <1>6, <1>7, Adding DEF PushGap, Alike

\* A string, a byte vector or the payload: new counted bytes.
LEMMA CountedStep ==
  ASSUME FrameInv, MakeString \/ MakeBytes \/ MakePayload
  PROVE  FrameInv' /\ Stays
<1>1. IsBuilder(b) /\ PlaceInv /\ InnerInv
  BY DEF FrameInv
<1>2. ASSUME NEW data, IsBuffer(data), NEW tail \in {0, 1}, b' = Block(b, Len(data), data, tail),
             NEW kind \in {"string", "bytes"}, kind = "string" => tail = 1
      PROVE  LET content == [kind |-> kind, bytes |-> data] IN
             /\ Extends(b, b') /\ (Ahead(b) => Ahead(b')) /\ Alike(b, b')
             /\ UsedSpace(b') % 4 = 0
             /\ Reach(b') => ObjectHere(b'.buf, UsedSpace(b'), UsedSpace(b'), content, refs)
             /\ Ahead(b) /\ content.kind = "string" =>
                  Terminated(b', UsedSpace(b'), content.bytes)
  <2> DEFINE content == [kind |-> kind, bytes |-> data]
  <2>1. tail \in Nat
    OBVIOUS
  <2>2. /\ Extends(b, b') /\ Alike(b, b') /\ UsedSpace(b') % 4 = 0
        /\ Ahead(b) => Ahead(b')
        /\ Reach(b') => BytesHere(b'.buf, UsedSpace(b'), UsedSpace(b'), data)
        /\ Ahead(b) /\ tail = 1 => Terminated(b', UsedSpace(b'), data)
    BY <1>1, <1>2, <2>1, BlockHere
  <2>3. content.kind = kind /\ content.bytes = data
    OBVIOUS
  <2> HIDE DEF content
  <2>4. UsedSpace(b') \in Nat
    BY <2>2, ExtendsEnd
  <2>5. ASSUME Reach(b')
        PROVE  ObjectHere(b'.buf, UsedSpace(b'), UsedSpace(b'), content, refs)
    BY <2>2, <2>3, <2>4, <2>5 DEF ObjectHere
  <2>6. Ahead(b) /\ content.kind = "string" => Terminated(b', UsedSpace(b'), content.bytes)
    BY <1>2, <2>2, <2>3
  <2> QED BY <2>2, <2>5, <2>6 DEF content
<1>3. CASE MakeString
  <2>1. Call("string") /\ Names([kind |-> "string", bytes |-> Head(todo).bytes])
        /\ UNCHANGED <<input, inner, frame, row, lost>>
    BY <1>3 DEF MakeString
  <2>2. IsBuffer(Head(todo).bytes)
    BY <1>1, <2>1, Calling DEF IsCall, IsBuffer
  <2>3. b' = Block(b, Len(Head(todo).bytes), Head(todo).bytes, 1)
    BY <1>3 DEF MakeString, CreateString
  <2> DEFINE tail == 1
             content == [kind |-> "string", bytes |-> Head(todo).bytes]
  <2>4. tail \in {0, 1} /\ b' = Block(b, Len(Head(todo).bytes), Head(todo).bytes, tail) /\ tail = 1
    BY <2>3
  <2> HIDE DEF tail
  <2>5. /\ Extends(b, b') /\ (Ahead(b) => Ahead(b')) /\ Alike(b, b')
        /\ UsedSpace(b') % 4 = 0
        /\ Reach(b') => ObjectHere(b'.buf, UsedSpace(b'), UsedSpace(b'), content, refs)
        /\ Ahead(b) /\ content.kind = "string" =>
             Terminated(b', UsedSpace(b'), content.bytes)
    BY <1>2, <2>2, <2>4
  <2>6. Names(content)
    BY <2>1
  <2> HIDE DEF content
  <2> QED BY <2>1, <2>5, <2>6, Making
<1>4. CASE MakeBytes
  <2>1. Call("bytes") /\ Names([kind |-> "bytes", bytes |-> Head(todo).bytes])
        /\ UNCHANGED <<input, inner, frame, row, lost>>
    BY <1>4 DEF MakeBytes
  <2>2. IsBuffer(Head(todo).bytes)
    BY <1>1, <2>1, Calling DEF IsCall, IsBuffer
  <2>3. b' = Block(b, Len(Head(todo).bytes), Head(todo).bytes, 0)
    BY <1>4 DEF MakeBytes, CreateVectorU8
  <2> DEFINE tail == 0
             content == [kind |-> "bytes", bytes |-> Head(todo).bytes]
  <2>4. tail \in {0, 1} /\ b' = Block(b, Len(Head(todo).bytes), Head(todo).bytes, tail)
    BY <2>3
  <2> HIDE DEF tail
  <2>5. /\ Extends(b, b') /\ (Ahead(b) => Ahead(b')) /\ Alike(b, b')
        /\ UsedSpace(b') % 4 = 0
        /\ Reach(b') => ObjectHere(b'.buf, UsedSpace(b'), UsedSpace(b'), content, refs)
        /\ Ahead(b) /\ content.kind = "string" =>
             Terminated(b', UsedSpace(b'), content.bytes)
    BY <1>2, <2>2, <2>4
  <2>6. Names(content)
    BY <2>1
  <2> HIDE DEF content
  <2> QED BY <2>1, <2>5, <2>6, Making
<1>5. CASE MakePayload
  <2>1. Call("payload") /\ Names([kind |-> "bytes", bytes |-> inner])
        /\ UNCHANGED <<input, inner, frame, row, lost>>
    BY <1>5 DEF MakePayload
  <2>2. IsBuffer(inner)
    <3>1. /\ Done \in Nat /\ Calls[Done + 1].op = "payload" /\ InOrder(Calls, Done + 1)
          /\ (Done + 1) - 1 = Done
      BY <1>1, <2>1, Calling
    <3>2. \E j \in 1 .. Done : Calls[j].op = "finish"
      BY <3>1 DEF InOrder
    <3> QED BY <1>1, <3>2 DEF InnerInv
  <2>3. b' = Block(b, Len(inner), inner, 0)
    BY <1>5 DEF MakePayload, CreateVectorU8
  <2> DEFINE tail == 0
             content == [kind |-> "bytes", bytes |-> inner]
  <2>4. tail \in {0, 1} /\ b' = Block(b, Len(inner), inner, tail)
    BY <2>3
  <2> HIDE DEF tail
  <2>5. /\ Extends(b, b') /\ (Ahead(b) => Ahead(b')) /\ Alike(b, b')
        /\ UsedSpace(b') % 4 = 0
        /\ Reach(b') => ObjectHere(b'.buf, UsedSpace(b'), UsedSpace(b'), content, refs)
        /\ Ahead(b) /\ content.kind = "string" =>
             Terminated(b', UsedSpace(b'), content.bytes)
    BY <1>2, <2>2, <2>4
  <2>6. Names(content)
    BY <2>1
  <2> HIDE DEF content
  <2> QED BY <2>1, <2>5, <2>6, Making
<1> QED BY <1>3, <1>4, <1>5

\* A vector of offsets to objects made before.
LEMMA VectorStep ==
  ASSUME FrameInv, MakeVector
  PROVE  FrameInv' /\ Stays
<1> DEFINE of == Head(todo).of
           content == [kind |-> "vector", of |-> of]
<1>1. IsBuilder(b) /\ PlaceInv /\ NamesInv
  BY DEF FrameInv
<1>2. Call("vector") /\ Names(content) /\ UNCHANGED <<input, inner, frame, row, lost>>
      /\ b' = CreateVectorOffsets(b, [i \in DOMAIN of |-> refs[of[i]]])
  BY DEF MakeVector
<1>3. Len(of) \in Nat /\ DOMAIN of = 1 .. Len(of)
  BY <1>1, <1>2, Calling DEF IsCall
<1>4. \A i \in DOMAIN of : of[i] \in DOMAIN refs
  <2>1. Head(todo).op = "vector"
    BY <1>2 DEF Call
  <2>2. \A i \in DOMAIN of : of[i] \in Uses(Head(todo))
    BY <2>1 DEF Uses
  <2> QED BY <1>1, <1>2, <2>2, UsesKnown
<1>5. content.kind = "vector" /\ content.of = of
  OBVIOUS
<1> HIDE DEF of, content
<1>6. \A key \in DOMAIN refs : refs[key] \in 0 .. UsedSpace(b)
  BY <1>1 DEF NamesInv
<1>7. /\ Extends(b, b') /\ Alike(b, b') /\ UsedSpace(b') % 4 = 0
      /\ Ahead(b) => Ahead(b')
      /\ Reach(b') => VectorHere(b'.buf, UsedSpace(b'), UsedSpace(b'), of, refs)
  <2> DEFINE rs == [i \in DOMAIN of |-> refs[of[i]]]
  <2>1. b' = CreateVectorOffsets(b, rs)
    BY <1>2
  <2> QED BY <1>1, <1>3, <1>4, <1>6, <2>1, VectorMade
<1>8. UsedSpace(b') \in Nat
  BY <1>7, ExtendsEnd
<1>9. Reach(b') => ObjectHere(b'.buf, UsedSpace(b'), UsedSpace(b'), content, refs)
  BY <1>5, <1>7, <1>8 DEF ObjectHere
<1>10. content.kind # "string"
  BY <1>5
<1> QED BY <1>2, <1>7, <1>9, <1>10, Making

\* A table is opened, with nothing in it.
LEMMA OpenStep ==
  ASSUME FrameInv, OpenTable
  PROVE  FrameInv' /\ Stays
<1>1. IsBuilder(b) /\ NamesInv /\ PlaceInv
  BY DEF FrameInv
<1>2. /\ Head(todo).n \in Nat /\ 4 + 2 * Head(todo).n < U16Size
      /\ b' = StartTable(b, Head(todo).n)
  BY <1>1, Calling DEF OpenTable, IsCall
<1>3. /\ Longer(b, b', 0) /\ b'.fields = {} /\ b'.inTable = TRUE
      /\ b'.fieldCount = Head(todo).n /\ b'.vtables = b.vtables
  BY <1>1, <1>2, Opened
<1>4. Extends(b, b') /\ (Ahead(b) => Ahead(b'))
  BY <1>1, <1>3, LongerExtends DEF Longer
<1>5. FieldsInv'
  BY <1>3 DEF FieldsInv
<1>6. RowInv'
  BY <1>1, <1>2, FieldsOpened DEF OpenTable, RowInv
<1>7. OpenInv'
  BY <1>1, <1>3, OpenStarts DEF OpenTable
<1> QED BY <1>3, <1>4, <1>5, <1>6, <1>7, Adding DEF OpenTable

\* A field that is added to the open table holds what it was given.
LEMMA AddedField ==
  ASSUME IsBuilder(b), RowInv, b.inTable = TRUE, NamesInv, FieldsInv,
         NEW id, id \in 0 .. b.fieldCount - 1, id \notin DOMAIN row, NEW v,
         b' = AddField(Align(b, 4), id, v),
         NEW val, "v" \notin DOMAIN val => val.of \in DOMAIN refs,
         Reach(b') => v \in 0 .. (U32Size - 1) /\ v = SlotValue(val, refs, UsedSpace(b')),
         row' = With(row, id, val), UNCHANGED refs
  PROVE  /\ Extends(b, b') /\ (Ahead(b) => Ahead(b')) /\ b'.vtables = b.vtables
         /\ b'.inTable = b.inTable /\ b'.fieldCount = b.fieldCount
         /\ FieldsInv' /\ RowInv'
<1>1. PICK n \in Nat : n >= 4 /\ Longer(b, b', n)
  BY FieldLonger
<1>2. /\ b'.fields = b.fields \cup {[id |-> id, used |-> UsedSpace(b')]}
      /\ UsedSpace(b') % 4 = 0 /\ b'.fieldCount = b.fieldCount
      /\ b'.inTable = b.inTable /\ b'.vtables = b.vtables
  BY FieldLonger
<1>3. Extends(b, b') /\ (Ahead(b) => Ahead(b'))
  BY <1>1, LongerExtends DEF Longer
<1>4. FieldsInv'
  BY <1>2 DEF FieldsInv
<1>5. Known(refs, refs) /\ FieldsHere(b, row, refs)
  BY KnownStays DEF RowInv
<1>6. FieldsHere(b', With(row, id, val), refs)
  BY <1>5, FieldMade
<1>7. RowInv'
  BY <1>6 DEF RowInv
<1> QED BY <1>2, <1>3, <1>4, <1>7

\* A u32, which may be left out when it is 0.
LEMMA ScalarStep ==
  ASSUME FrameInv, AddScalar
  PROVE  FrameInv' /\ Stays
<1> DEFINE id == Head(todo).id
           v == Head(todo).v
           val == [v |-> v]
<1>1. IsBuilder(b) /\ NamesInv /\ PlaceInv /\ OpenInv /\ FieldsInv /\ RowInv
  BY DEF FrameInv
<1>2. /\ Call("u32") /\ row' = With(row, id, val) /\ b' = AddU32(b, id, v, 0)
      /\ UNCHANGED <<input, inner, frame, refs, made, lost>>
  BY DEF AddScalar
<1>3. v \in 0 .. (U32Size - 1)
  BY <1>1, <1>2, Calling DEF IsCall
<1>4. "v" \in DOMAIN val /\ val.v = v
  OBVIOUS
<1>5. (b' = b /\ v = 0) \/ b' = AddField(Align(b, 4), id, v)
  BY <1>2 DEF AddU32
<1>6. b'.inTable = b.inTable /\ b'.fieldCount = b.fieldCount
  BY <1>1, <1>5, FieldLonger
<1>7. /\ OpenInv' /\ b.inTable = TRUE /\ id \notin DOMAIN row /\ id \in 0 .. b.fieldCount - 1
  BY <1>1, <1>2, <1>6, OpenAdds
<1> HIDE DEF id, v, val
<1>8. CASE b' = b /\ v = 0
  <2>1. Extends(b, b') /\ (Ahead(b) => Ahead(b')) /\ b'.vtables = b.vtables /\ FieldsInv'
    <3>1. UsedSpace(b) \in Nat
      BY <1>1, Used
    <3> QED BY <1>1, <1>8, <3>1 DEF Extends, Kept, FieldsInv
  <2>2. FieldsHere(b, row, refs)
    BY <1>1, <1>7 DEF RowInv
  <2>3. FieldsHere(b, With(row, id, val), refs)
    BY <1>4, <1>7, <1>8, <2>2, FieldLeftOut
  <2>4. RowInv'
    BY <1>2, <1>8, <2>3 DEF RowInv
  <2> QED BY <1>2, <1>7, <2>1, <2>4, Adding
<1>9. CASE b' = AddField(Align(b, 4), id, v)
  <2>1. v = SlotValue(val, refs, UsedSpace(b'))
    BY <1>4 DEF SlotValue
  <2>2. /\ Extends(b, b') /\ (Ahead(b) => Ahead(b')) /\ b'.vtables = b.vtables
        /\ FieldsInv' /\ RowInv'
    BY <1>1, <1>2, <1>3, <1>4, <1>7, <1>9, <2>1, AddedField
  <2> QED BY <1>2, <1>7, <2>2, Adding
<1> QED BY <1>5, <1>8, <1>9

\* An offset to an object made before.
LEMMA ReferenceStep ==
  ASSUME FrameInv, AddReference
  PROVE  FrameInv' /\ Stays
<1> DEFINE id == Head(todo).id
           of == Head(todo).of
           val == [of |-> of]
           v == UsedSpace(Align(b, 4)) + 4 - refs[of]
<1>1. IsBuilder(b) /\ NamesInv /\ PlaceInv /\ OpenInv /\ FieldsInv /\ RowInv
  BY DEF FrameInv
<1>2. /\ Call("offset") /\ row' = With(row, id, val) /\ b' = AddField(Align(b, 4), id, v)
      /\ UNCHANGED <<input, inner, frame, refs, made, lost>>
  BY DEF AddReference, AddOffset
<1>3. "v" \notin DOMAIN val /\ val.of = of
  OBVIOUS
<1>4. of \in DOMAIN refs
  <2>1. of \in Uses(Head(todo))
    BY <1>2 DEF Call, Uses
  <2> QED BY <1>1, <1>2, <2>1, UsesKnown
<1> HIDE DEF v
<1>5. /\ b'.inTable = b.inTable /\ b'.fieldCount = b.fieldCount
      /\ UsedSpace(b') = UsedSpace(Align(b, 4)) + 4 /\ \E n \in Nat : n >= 4 /\ Longer(b, b', n)
  BY <1>1, <1>2, FieldLonger
<1>6. /\ OpenInv' /\ b.inTable = TRUE /\ id \notin DOMAIN row /\ id \in 0 .. b.fieldCount - 1
  BY <1>1, <1>2, <1>5, OpenAdds
<1> HIDE DEF id, of, val
<1>7. ASSUME Reach(b')
      PROVE  v \in 0 .. (U32Size - 1) /\ v = SlotValue(val, refs, UsedSpace(b'))
  <2>1. refs[of] \in 0 .. UsedSpace(b) /\ UsedSpace(b) \in Nat
    <3>1. UsedSpace(b) \in Nat
      BY <1>1, Used
    <3> QED BY <1>1, <1>4, <3>1 DEF NamesInv
  <2>2. v = UsedSpace(b') - refs[of]
    <3> DEFINE used == UsedSpace(Align(b, 4))
    <3>1. used \in Nat
      <4>1. IsBuilder(Align(b, 4))
        BY <1>1, AlignLonger DEF Longer
      <4> QED BY <4>1, Used
    <3>2. UsedSpace(b') = used + 4 /\ v = used + 4 - refs[of]
      BY <1>5 DEF v
    <3> HIDE DEF used
    <3> QED BY <2>1, <3>1, <3>2
  <2>3. UsedSpace(b') \in Nat /\ UsedSpace(b) <= UsedSpace(b') /\ UsedSpace(b') < U32Size
    <3>1. PICK n \in Nat : Longer(b, b', n)
      BY <1>5
    <3>2. IsBuilder(b') /\ UsedSpace(b') = UsedSpace(b) + n
      BY <3>1 DEF Longer
    <3> QED BY <1>7, <2>1, <3>2, Used, Sizes DEF Reach
  <2>4. v \in 0 .. (U32Size - 1)
    <3> DEFINE k == refs[of]
    <3>1. k \in 0 .. UsedSpace(b) /\ v = UsedSpace(b') - k
      BY <2>2, <2>1
    <3> HIDE DEF k
    <3> QED BY <2>1, <2>3, <3>1, Sizes
  <2> QED BY <1>3, <2>2, <2>4 DEF SlotValue
<1>8. /\ Extends(b, b') /\ (Ahead(b) => Ahead(b')) /\ b'.vtables = b.vtables
      /\ FieldsInv' /\ RowInv'
  BY <1>1, <1>2, <1>3, <1>4, <1>6, <1>7, AddedField
<1> QED BY <1>2, <1>6, <1>8, Adding

\* A lost table spoils nothing made before it.
LEMMA CloseStep ==
  ASSUME FrameInv, CloseTable
  PROVE  FrameInv' /\ Stays
<1> DEFINE as == Head(todo).as
           r == TableRef(b)
           content == [kind |-> "table", row |-> row]
<1>1. /\ IsBuilder(b) /\ PlaceInv /\ NamesInv /\ InnerInv /\ OpenInv /\ DoneInv /\ RefsInv
      /\ FieldsInv /\ RowInv /\ ObjectsInv /\ CleanInv
  BY DEF FrameInv
<1>2. /\ Call("end") /\ b' = EndTable(b) /\ UNCHANGED <<input, inner, frame, row>>
      /\ refs' = With(refs, Head(todo).as, r) /\ made' = With(made, Head(todo).as, content)
      /\ lost' = IF VTableGrows(b) \/ r - b.tableStart >= U16Size THEN lost \cup {as} ELSE lost
  BY DEF CloseTable, Extent
<1>3. content.kind = "table" /\ content.row = row
  OBVIOUS
<1>4. /\ IsBuilder(b') /\ b'.fields = b.fields /\ b'.inTable = FALSE
      /\ r % 4 = 0 /\ UsedSpace(b) + 4 <= r /\ r <= UsedSpace(b') /\ r \in Nat
      /\ Kept(b, b') /\ VTablesHere(b')
      /\ ~VTableGrows(b) => (Ahead(b) => Ahead(b'))
  <2>1. \A u \in b.vtables : u \in 0 .. UsedSpace(b)
    BY <1>1 DEF CleanInv, VTablesHere
  <2> QED BY <1>1, <1>2, <2>1, TableClosed DEF VTablesHere
<1> HIDE DEF r, content
<1>5. UsedSpace(b) \in Nat /\ UsedSpace(b') \in Nat /\ UsedSpace(b) <= UsedSpace(b')
      /\ r \in 0 .. UsedSpace(b')
  <2>1. UsedSpace(b) \in Nat /\ UsedSpace(b') \in Nat
    BY <1>1, <1>4, Used
  <2> QED BY <1>4, <2>1
<1>6. Extends(b, b')
  BY <1>1, <1>4, <1>5 DEF Extends
<1>7. PlaceInv'
  BY <1>1, <1>2, Calling
<1>8. NamesInv' /\ as \notin DOMAIN refs
  BY <1>1, <1>2, <1>5, NamesGrow
<1>9. InnerInv'
  BY <1>1, <1>2, InnerStays
<1>10. OpenInv'
  BY <1>1, <1>2, OpenStays
<1>11. /\ Known(refs, refs') /\ DOMAIN refs' = DOMAIN refs \cup {as} /\ refs'[as] = r
       /\ \A key \in DOMAIN refs : refs'[key] = refs[key] /\ key # as
  BY <1>1, <1>2, <1>4, <1>8, KnownGrows
<1>12. /\ DOMAIN made' = DOMAIN made \cup {as} /\ made'[as] = content
       /\ \A key \in DOMAIN made : made'[key] = made[key] /\ key \in DOMAIN refs
  <2>1. DOMAIN made = DOMAIN refs
    BY <1>1 DEF NamesInv
  <2> QED BY <1>2, <1>8, <2>1 DEF With
<1> HIDE DEF as
<1>13. DoneInv' /\ RefsInv' /\ FieldsInv' /\ RowInv'
  <2>1. RefsInv'
    BY <1>1, <1>4, <1>11 DEF RefsInv
  <2> QED BY <1>1, <1>2, <1>4, <2>1 DEF DoneInv, FieldsInv, RowInv
<1>14. FieldsHere(b, row, refs)
  BY <1>1, <1>2, OpenCloses DEF RowInv
<1>15. ObjectsInv'
  <2>1. ASSUME Reach(b'), NEW key \in DOMAIN made' \ lost'
        PROVE  ObjectHere(b'.buf, UsedSpace(b'), refs'[key], made'[key], refs')
    <3>1. CASE key = as
      <4>1. ~VTableGrows(b) /\ ~(r - b.tableStart >= U16Size)
        BY <1>2, <2>1, <3>1
      <4>2. r - b.tableStart < U16Size
        <5>1. b.tableStart \in Nat
          BY <1>1 DEF IsBuilder
        <5> QED BY <1>4, <4>1, <5>1, Sizes
      <4>3. VTablesHere(b)
        BY <1>1 DEF CleanInv
      <4>4. TableHere(b'.buf, UsedSpace(b'), r, row, refs)
        BY <1>1, <1>2, <1>14, <2>1, <4>1, <4>2, <4>3, TableMade DEF r
      <4>5. ObjectHere(b'.buf, UsedSpace(b'), r, content, refs)
        BY <1>3, <1>4, <4>4 DEF ObjectHere
      <4>6. ObjectHere(b'.buf, UsedSpace(b'), r, content, refs')
        BY <1>4, <1>11, <4>5, Renamed
      <4> QED BY <1>11, <1>12, <3>1, <4>6
    <3>2. CASE key \in DOMAIN made
      <4>1. key \notin lost
        BY <1>2, <2>1
      <4>2. ObjectHere(b'.buf, UsedSpace(b'), refs[key], made[key], refs')
        BY <1>1, <1>6, <1>11, <2>1, <3>2, <4>1, ObjectsKept DEF ObjectsInv
      <4> QED BY <1>11, <1>12, <3>2, <4>2
    <3> QED BY <1>12, <2>1, <3>1, <3>2
  <2> QED BY <2>1 DEF ObjectsInv, ObjectsHere
<1>16. CleanInv'
  <2>1. ASSUME lost' = {} PROVE TermsHere(b', made', refs') /\ VTablesApart(b') /\ Ahead(b')
    <3>1. lost = {} /\ ~VTableGrows(b)
      BY <1>2, <2>1
    <3>2. TermsHere(b, made, refs) /\ VTablesApart(b) /\ Ahead(b) /\ VTablesHere(b)
      BY <1>1, <3>1 DEF CleanInv
    <3>3. ASSUME NEW key \in DOMAIN made', made'[key].kind = "string"
          PROVE  Terminated(b', refs'[key], made'[key].bytes)
      <4>1. key \in DOMAIN made
        BY <1>3, <1>12, <3>3
      <4>2. Terminated(b, refs[key], made[key].bytes)
        BY <1>12, <3>2, <3>3, <4>1 DEF TermsHere
      <4>3. Terminated(b', refs[key], made[key].bytes)
        BY <1>6, <4>2, TermKept
      <4> QED BY <1>11, <1>12, <4>1, <4>3
    <3>4. VTablesApart(b')
      <4>1. 4 + 2 * b.fieldCount < U16Size
        BY <1>14 DEF FieldsHere
      <4> QED BY <1>1, <1>2, <3>1, <3>2, <4>1, VTablesMade
    <3> QED BY <1>4, <3>1, <3>2, <3>3, <3>4 DEF TermsHere
  <2> QED BY <1>4, <2>1 DEF CleanInv
<1>17. Stays
  BY <1>4 DEF Stays
<1> QED BY <1>4, <1>7, <1>8, <1>9, <1>10, <1>13, <1>15, <1>16, <1>17 DEF FrameInv

\* The buffer is finished, and a new one is begun after the inner one.
LEMMA FinishStep ==
  ASSUME FrameInv, FinishBuffer
  PROVE  FrameInv' /\ Stays
<1> DEFINE bytes == Finish(b, refs[Head(todo).of])
<1>1. /\ IsBuilder(b) /\ PlaceInv /\ NamesInv /\ InnerInv /\ OpenInv /\ DoneInv /\ RefsInv
      /\ FieldsInv /\ RowInv /\ ObjectsInv /\ CleanInv
  BY DEF FrameInv
<1>2. IsBuffer(bytes) /\ Len(bytes) % 4 = 0
  BY <1>1, Finished4
<1>3. /\ Call("finish") /\ UNCHANGED <<input, row, lost>>
      /\ IF inner = None
         THEN /\ inner' = bytes /\ b' = New /\ refs' = <<>> /\ made' = <<>>
              /\ UNCHANGED frame
         ELSE frame' = bytes /\ UNCHANGED <<inner, b, refs, made>>
  BY DEF FinishBuffer
<1> HIDE DEF bytes
<1>4. /\ Done \in Nat /\ Calls' = Calls /\ Done' = Done + 1 /\ Calls[Done + 1].op = "finish"
      /\ PlaceInv' /\ InOrder(Calls, Done + 1) /\ (Done + 1) - 1 = Done
      /\ todo' # <<>> => Done + 1 < Len(Calls)
  BY <1>1, <1>3, Calling
<1>5. ASSUME NEW j \in 1 .. Done + 1 PROVE ~MadeFor(Calls, j, Done + 2)
  <2>1. Done + 1 \in j .. (Done + 2) - 1
    BY <1>4
  <2> QED BY <1>4, <2>1 DEF MadeFor
<1>6. OpenInv'
  BY <1>1, <1>3, OpenStays
<1>7. \E j \in 1 .. Done + 1 : Calls[j].op = "finish"
  <2>1. Done + 1 \in 1 .. Done + 1
    BY <1>4
  <2> QED BY <1>4, <2>1
<1>8. Done' + 1 = Done + 2
  BY <1>4
<1>9. CASE inner = None
  <2>1. /\ inner' = bytes /\ b' = New /\ refs' = <<>> /\ made' = <<>> /\ frame' = frame
    BY <1>3, <1>9
  <2>2. DOMAIN refs' = {} /\ DOMAIN made' = {}
    BY <2>1
  <2>3. NamesInv'
    BY <1>4, <1>5, <1>8, <2>2 DEF NamesInv
  <2>4. InnerInv'
    BY <1>2, <1>4, <1>7, <2>1 DEF InnerInv
  <2>5. DoneInv' /\ RefsInv'
    BY <1>1, <1>2, <2>1, <2>2 DEF DoneInv, RefsInv
  <2>6. b'.fields = {} /\ b'.inTable = FALSE /\ b'.vtables = {}
    BY <2>1 DEF New
  <2>7. FieldsInv' /\ RowInv'
    BY <2>6 DEF FieldsInv, RowInv
  <2>8. ObjectsInv'
    BY <2>2 DEF ObjectsInv, ObjectsHere
  <2>9. CleanInv'
    BY <2>1, <2>2, <2>6, NewBuilder DEF CleanInv, TermsHere, VTablesHere, VTablesApart, Apart
  <2>10. IsBuilder(b') /\ Stays
    BY <2>1, NewBuilder DEF Stays
  <2> QED BY <1>4, <1>6, <2>3, <2>4, <2>5, <2>7, <2>8, <2>9, <2>10 DEF FrameInv
<1>10. CASE inner # None
  <2>1. frame' = bytes /\ UNCHANGED <<inner, b, refs, made>>
    BY <1>3, <1>10
  <2>2. \E j \in 1 .. Done : Calls[j].op = "finish"
    BY <1>1, <1>10 DEF InnerInv
  <2>3. todo' = <<>>
    BY <1>4, <2>2 DEF InOrder
  <2>4. NamesInv'
    <3>1. /\ DOMAIN made' = DOMAIN refs'
          /\ \A key \in DOMAIN refs' : refs'[key] \in 0 .. UsedSpace(b')
      BY <1>1, <2>1 DEF NamesInv
    <3> QED BY <1>4, <1>5, <1>8, <2>3, <3>1 DEF NamesInv
  <2>5. InnerInv'
    BY <1>1, <1>4, <1>7, <2>1, <2>2 DEF InnerInv
  <2>6. DoneInv'
    BY <1>1, <1>2, <2>1 DEF DoneInv
  <2>7. RefsInv' /\ FieldsInv' /\ RowInv' /\ ObjectsInv' /\ CleanInv' /\ IsBuilder(b')
    BY <1>1, <1>3, <2>1 DEF RefsInv, FieldsInv, RowInv, ObjectsInv, CleanInv
  <2>8. Stays
    BY <2>1 DEF Stays, Kept
  <2> QED BY <1>4, <1>6, <2>4, <2>5, <2>6, <2>7, <2>8 DEF FrameInv
<1> QED BY <1>9, <1>10

\* Every step of the specification is one of these calls.
LEMMA FrameStep == FrameInv /\ Next => FrameInv' /\ Stays
BY ForceStep, CountedStep, VectorStep, GapStep, OpenStep, ScalarStep, ReferenceStep, CloseStep,
   FinishStep DEF Next

\* A step that changes nothing keeps the invariant.
LEMMA FrameStutter == FrameInv /\ UNCHANGED vars => FrameInv'
<1> SUFFICES ASSUME FrameInv, UNCHANGED vars PROVE FrameInv'
  OBVIOUS
<1>1. UNCHANGED <<input, todo, b, inner, frame, refs, made, row, lost>>
  BY DEF vars
<1>2. PlaceInv' /\ NamesInv' /\ InnerInv' /\ OpenInv'
  BY <1>1 DEF FrameInv, PlaceInv, NamesInv, InnerInv, OpenInv, InTable, Done, Calls
<1>3. DoneInv' /\ RefsInv' /\ FieldsInv' /\ RowInv' /\ ObjectsInv' /\ CleanInv'
  BY <1>1 DEF FrameInv, DoneInv, RefsInv, FieldsInv, RowInv, ObjectsInv, CleanInv
<1> QED BY <1>1, <1>2, <1>3 DEF FrameInv

\* The invariant holds in every state.
LEMMA FrameInvariant == Spec => []FrameInv
BY FrameStart, FrameStep, FrameStutter, PTL DEF Spec

-----------------------------------------------------------------------------
(* What the invariant says of the objects. *)

\* Strings and byte vectors read back.
LEMMA StringReads ==
  ASSUME FrameInv, InReach, NEW key \in DOMAIN made \ lost,
         made[key].kind \in {"string", "bytes"}
  PROVE  Reads(key)
<1>1. IsBuilder(b) /\ ObjectsInv /\ CleanInv
  BY DEF FrameInv
<1> DEFINE r == refs[key]
           o == made[key]
<1>2. r \in Nat /\ BytesHere(b.buf, UsedSpace(b), r, o.bytes)
  BY <1>1 DEF ObjectsInv, ObjectsHere, ObjectHere, Reach, InReach
<1>3. /\ IsBuffer(b.buf) /\ Len(b.buf) = Cap(b) /\ UsedSpace(b) \in 0 .. Len(b.buf)
  BY <1>1, Used DEF IsBuilder
<1>4. BlockAt(b.buf, Cap(b) - r) = o.bytes
  BY <1>2, <1>3, BytesRead
<1>5. ASSUME o.kind = "string", lost = {}
      PROVE  b.buf[(Cap(b) - r) + 5 + Len(o.bytes)] = 0
  <2>1. Terminated(b, r, o.bytes)
    BY <1>1, <1>5 DEF CleanInv, TermsHere
  <2> QED BY <1>1, <2>1, Used DEF Terminated
<1> QED BY <1>4, <1>5 DEF Reads, Place

\* Vectors of offsets lead to the objects they were made of.
LEMMA VectorReads ==
  ASSUME FrameInv, InReach, NEW key \in DOMAIN made \ lost, made[key].kind = "vector"
  PROVE  Reads(key)
<1>1. IsBuilder(b) /\ ObjectsInv /\ NamesInv
  BY DEF FrameInv
<1> DEFINE r == refs[key]
           of == made[key].of
<1>2. r \in Nat /\ VectorHere(b.buf, UsedSpace(b), r, of, refs)
  BY <1>1 DEF ObjectsInv, ObjectsHere, ObjectHere, Reach, InReach
<1>3. Len(b.buf) \in Nat /\ Len(b.buf) = Cap(b) /\ Known(refs, refs)
  BY <1>1, Used, KnownStays
<1>4. VectorIn(b.buf, r, of, refs)
  BY <1>2, <1>3, VectorRead
<1> QED BY <1>3, <1>4 DEF Reads, Place, VectorIn

\* Tables have the fields they were given, and no others.
LEMMA TableReadsBack ==
  ASSUME FrameInv, InReach, NEW key \in DOMAIN made \ lost, made[key].kind = "table"
  PROVE  Reads(key)
<1>1. IsBuilder(b) /\ ObjectsInv /\ NamesInv
  BY DEF FrameInv
<1> DEFINE r == refs[key]
           given == made[key].row
<1>2. r \in Nat /\ TableHere(b.buf, UsedSpace(b), r, given, refs)
  BY <1>1 DEF ObjectsInv, ObjectsHere, ObjectHere, Reach, InReach
<1>3. Len(b.buf) \in Nat /\ Len(b.buf) = Cap(b) /\ Known(refs, refs)
  BY <1>1, Used, KnownStays
<1>4. TableIn(b.buf, r, given, refs)
  BY <1>2, <1>3, TableRead
<1>5. \A id \in DOMAIN given : id \in Nat
  BY <1>2 DEF TableHere
<1>6. \A id \in 0 .. 13 : id \in Nat
  OBVIOUS
<1> QED BY <1>3, <1>4, <1>5, <1>6 DEF Reads, Place, TableIn

-----------------------------------------------------------------------------
(* Theorems. *)

\* Before head every byte is zero, however the buffer grew, so the padding,
\* the gaps and the terminators that the builder skips over without writing
\* are zero; a vtable that made the buffer grow in end_table may have sent a
\* patch there, and then nothing is said.
THEOREM ZerosAhead == Spec => []ZeroAhead
<1>1. FrameInv => ZeroAhead
  BY DEF FrameInv, CleanInv, ZeroAhead, Ahead
<1> QED BY <1>1, FrameInvariant, PTL

\* Objects, fields and finished buffers are a multiple of four from the end,
\* though a vtable of an odd number of words may come between them.
THEOREM AlignedAlways == Spec => []FourAligned
<1>1. FrameInv => FourAligned
  BY DEF FrameInv, RefsInv, FieldsInv, DoneInv, FourAligned
<1> QED BY <1>1, FrameInvariant, PTL

\* A byte once written keeps its value and its distance from the end while its
\* buffer is built: growing moves it with its end, later calls write before
\* it, and what end_table patches is its own table's soffset, or, when its
\* vtable made the buffer grow, something not made before it.
THEOREM BytesStay == Spec => WrittenOnce
<1>1. FrameInv /\ [Next]_vars =>
        [b' # New =>
           \A i \in 1 .. UsedSpace(b) : b'.buf[Cap(b') - i + 1] = b.buf[Cap(b) - i + 1]]_vars
  BY FrameStep DEF Stays, Kept
<1> QED BY <1>1, FrameInvariant, PTL DEF Spec, WrittenOnce

\* No two vtables that end_table keeps for sharing are the same bytes: it
\* compares a new one with all of them, and refers to the one it finds; unless
\* a patch went astray, which may spoil one.
THEOREM VTablesAlwaysShared == Spec => []VTablesShared
<1>1. FrameInv => VTablesShared
  <2> SUFFICES ASSUME FrameInv, lost = {}, NEW u \in b.vtables, NEW w \in b.vtables, u # w,
                      ReadU16(b.buf, Cap(b) - u) = ReadU16(b.buf, Cap(b) - w)
               PROVE  LET n == ReadU16(b.buf, Cap(b) - u) IN BytesAt(b, u, n) # BytesAt(b, w, n)
    BY DEF VTablesShared
  <2>1. VTablesApart(b) /\ Cap(b) = Len(b.buf)
    BY Used DEF FrameInv, CleanInv
  <2>2. /\ VTableSize(b, u) = ReadU16(b.buf, Cap(b) - u)
        /\ VTableSize(b, w) = ReadU16(b.buf, Cap(b) - w)
    BY <2>1 DEF VTableSize
  <2> QED BY <2>1, <2>2 DEF VTablesApart, Apart
<1> QED BY <1>1, FrameInvariant, PTL

\* An object once made reads as what it was made of for as long as its buffer
\* is built: strings and byte vectors by their bytes, vectors by the objects
\* they lead to, tables by each field they were given and by the absence of
\* the others; except a table that end_table lost, because its vtable made the
\* buffer grow or it is too wide, and while offsets are in reach of their types.
THEOREM AlwaysReadsBack == Spec => []ReadsBack
<1>1. FrameInv => ReadsBack
  <2> SUFFICES ASSUME FrameInv, InReach, NEW key \in DOMAIN made \ lost
               PROVE  Reads(key)
    BY DEF ReadsBack
  <2>1. made[key].kind \in {"string", "bytes", "vector", "table"}
    BY DEF FrameInv, ObjectsInv, ObjectsHere, ObjectHere, Reach, InReach
  <2> QED BY <2>1, StringReads, VectorReads, TableReadsBack
<1> QED BY <1>1, FrameInvariant, PTL

===============================================================================
