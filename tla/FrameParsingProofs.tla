---------------------------- MODULE FrameParsingProofs ---------------------------
(***************************************************************************)
(* The frames that are built parse to what they were built from, for any   *)
(* modules and replies within the types of the build functions.  The       *)
(* objects are followed from their place in the script: what the script    *)
(* gives a table is in the object, what is in the object is in the         *)
(* finished bytes, and what the bytes say is what the parser returns.      *)
(***************************************************************************)
EXTENDS FramesProofs

-----------------------------------------------------------------------------
(* What the objects were made of, by the script. *)

\* What a call gives to its field.
Given(c) == IF c.op = "u32" THEN [v |-> c.v] ELSE [of |-> c.of]

\* rw is what the calls of s after i and up to d give to a table.
RowIs(s, rw, i, d) ==
  /\ \A id \in DOMAIN rw : \E k \in i + 1 .. d : Adds(s[k]) /\ s[k].id = id
  /\ \A k \in i + 1 .. d : Adds(s[k]) => s[k].id \in DOMAIN rw /\ rw[s[k].id] = Given(s[k])

\* o is what call j of s makes; in is the payload.
MadeOf(s, j, o, in) ==
  /\ s[j].op = "string" => o.kind = "string" /\ o.bytes = s[j].bytes
  /\ s[j].op = "bytes" => o.kind = "bytes" /\ o.bytes = s[j].bytes
  /\ s[j].op = "payload" => o.kind = "bytes" /\ o.bytes = in
  /\ s[j].op = "vector" => o.kind = "vector" /\ o.of = s[j].of
  /\ s[j].op = "end" => /\ o.kind = "table"
                        /\ \E i \in 1 .. j - 1 : Open(s, i, j) /\ RowIs(s, o.row, i, j - 1)

\* The open table has been given what the script gives it, and each object is
\* made of what the script makes it of.
GivenInv ==
  /\ \A j \in 1 .. Done : Open(Calls, j, Done + 1) => RowIs(Calls, row, j, Done)
  /\ \A j \in 1 .. Done : MadeFor(Calls, j, Done + 1) =>
                            MadeOf(Calls, j, made[Calls[j].as], inner)

\* A call keeps GivenInv when it adds to the open table what it says, and makes
\* what it says.
LEMMA GivenStep ==
  ASSUME PlaceInv, NamesInv, GivenInv, NEW op, Call(op), UNCHANGED input,
         op \notin {"start", "end", "finish"} =>
           \A j \in 1 .. Done : RowIs(Calls, row, j, Done) => RowIs(Calls, row', j, Done + 1),
         op = "start" => row' = <<>>,
         op # "finish" =>
           inner' = inner /\ \A key \in DOMAIN refs : made'[key] = made[key],
         op \in {"string", "bytes", "payload", "vector", "end"} =>
           MadeOf(Calls, Done + 1, made'[Calls[Done + 1].as], inner')
  PROVE  GivenInv'
<1>1. /\ Done \in Nat /\ Calls' = Calls /\ Done' = Done + 1 /\ Calls[Done + 1].op = op
      /\ Done' + 1 = Done + 2
  BY Calling
<1>2. ASSUME NEW j \in 1 .. Done + 1, Open(Calls, j, Done + 2)
      PROVE  RowIs(Calls, row', j, Done + 1)
  <2>1. \/ j = Done + 1 /\ op = "start"
        \/ j \in 1 .. Done /\ Open(Calls, j, Done + 1) /\ op \notin {"start", "end", "finish"}
    BY <1>1, <1>2, OpenNext
  <2>2. CASE j = Done + 1 /\ op = "start"
    <3>1. DOMAIN row' = {} /\ \A k \in j + 1 .. Done + 1 : FALSE
      BY <1>1, <2>2
    <3> QED BY <3>1 DEF RowIs
  <2>3. CASE j \in 1 .. Done /\ Open(Calls, j, Done + 1) /\ op \notin {"start", "end", "finish"}
    BY <2>3 DEF GivenInv
  <2> QED BY <2>1, <2>2, <2>3
<1>3. ASSUME NEW j \in 1 .. Done + 1, MadeFor(Calls, j, Done + 2)
      PROVE  MadeOf(Calls, j, made'[Calls[j].as], inner')
  <2>1. op # "finish"
    <3>1. Done + 1 \in j .. (Done + 2) - 1
      BY <1>1
    <3> QED BY <1>1, <1>3, <3>1 DEF MadeFor
  <2>2. Makes(Calls[j]) /\ (j <= Done => MadeFor(Calls, j, Done + 1))
    BY <1>1, <1>3, <2>1, MadeNext
  <2>3. CASE j = Done + 1
    BY <1>1, <2>2, <2>3 DEF Makes
  <2>4. CASE j \in 1 .. Done
    <3>1. MadeFor(Calls, j, Done + 1)
      BY <1>1, <2>2, <2>4
    <3>2. made'[Calls[j].as] = made[Calls[j].as] /\ inner' = inner
      BY <2>1, <2>4, <3>1 DEF NamesInv
    <3>3. MadeOf(Calls, j, made[Calls[j].as], inner)
      BY <2>4, <3>1 DEF GivenInv
    <3> QED BY <3>2, <3>3
  <2>5. j \in 1 .. Done \/ j = Done + 1
    BY <1>1
  <2> QED BY <2>3, <2>4, <2>5
<1> QED BY <1>1, <1>2, <1>3 DEF GivenInv

\* The calls that make no object and are not about tables.
LEMMA RowStays ==
  ASSUME PlaceInv, NEW op, Call(op), UNCHANGED <<input, row>>, op \notin {"u32", "offset"}
  PROVE  \A j \in 1 .. Done : RowIs(Calls, row, j, Done) => RowIs(Calls, row', j, Done + 1)
<1>1. Done \in Nat /\ Calls[Done + 1].op = op
  BY Calling
<1>2. ~Adds(Calls[Done + 1])
  BY <1>1 DEF Adds
<1>3. ASSUME NEW j \in 1 .. Done, RowIs(Calls, row, j, Done)
      PROVE  RowIs(Calls, row', j, Done + 1)
  <2>1. \A k \in j + 1 .. Done + 1 : k \in j + 1 .. Done \/ k = Done + 1
    BY <1>1
  <2>2. \A k \in j + 1 .. Done : k \in j + 1 .. Done + 1
    BY <1>1
  <2> QED BY <1>2, <1>3, <2>1, <2>2 DEF RowIs
<1> QED BY <1>3

\* ForceDefaults and the zeros of a vector give and make nothing.
LEMMA GivenStays ==
  ASSUME PlaceInv, NamesInv, GivenInv, NEW op \in {"force", "zeros"}, Call(op),
         UNCHANGED <<input, inner, made, row>>
  PROVE  GivenInv'
<1>1. \A j \in 1 .. Done : RowIs(Calls, row, j, Done) => RowIs(Calls, row', j, Done + 1)
  BY RowStays
<1> QED BY <1>1, GivenStep

\* A table is opened with no field.
LEMMA GivenStarts ==
  ASSUME PlaceInv, NamesInv, GivenInv, Call("start"), row' = <<>>,
         UNCHANGED <<input, inner, made>>
  PROVE  GivenInv'
BY GivenStep

\* A field is added to the open table.
LEMMA GivenAdds ==
  ASSUME PlaceInv, NamesInv, OpenInv, GivenInv, NEW op \in {"u32", "offset"}, Call(op),
         row' = With(row, Head(todo).id, Given(Head(todo))), Head(todo).id \notin DOMAIN row,
         UNCHANGED <<input, inner, made>>
  PROVE  GivenInv'
<1>1. /\ Done \in Nat /\ Calls[Done + 1].op = op /\ Head(todo) = Calls[Done + 1]
  BY Calling
<1> DEFINE c == Calls[Done + 1]
<1>2. Adds(c)
  BY <1>1 DEF Adds
<1>3. /\ DOMAIN row' = DOMAIN row \cup {c.id} /\ row'[c.id] = Given(c)
      /\ \A id \in DOMAIN row : row'[id] = row[id]
  BY <1>1 DEF With
<1>4. ASSUME NEW j \in 1 .. Done, RowIs(Calls, row, j, Done)
      PROVE  RowIs(Calls, row', j, Done + 1)
  <2>1. \A k \in j + 1 .. Done + 1 : k \in j + 1 .. Done \/ k = Done + 1
    BY <1>1
  <2>2. \A k \in j + 1 .. Done : k \in j + 1 .. Done + 1
    BY <1>1
  <2>3. Done + 1 \in j + 1 .. Done + 1
    BY <1>1
  <2>4. ASSUME NEW id \in DOMAIN row'
        PROVE  \E k \in j + 1 .. Done + 1 : Adds(Calls[k]) /\ Calls[k].id = id
    <3>1. CASE id = c.id
      BY <1>2, <2>3, <3>1
    <3>2. CASE id \in DOMAIN row
      <4>1. PICK k \in j + 1 .. Done : Adds(Calls[k]) /\ Calls[k].id = id
        BY <1>4, <3>2 DEF RowIs
      <4> QED BY <2>2, <4>1
    <3> QED BY <1>3, <3>1, <3>2
  <2>5. ASSUME NEW k \in j + 1 .. Done + 1, Adds(Calls[k])
        PROVE  Calls[k].id \in DOMAIN row' /\ row'[Calls[k].id] = Given(Calls[k])
    <3>1. CASE k = Done + 1
      BY <1>3, <3>1
    <3>2. CASE k \in j + 1 .. Done
      <4>1. Calls[k].id \in DOMAIN row /\ row[Calls[k].id] = Given(Calls[k])
        BY <1>4, <2>5, <3>2 DEF RowIs
      <4> QED BY <1>3, <4>1
    <3> QED BY <2>1, <3>1, <3>2
  <2> QED BY <2>4, <2>5 DEF RowIs
<1> QED BY <1>4, GivenStep

\* A string, bytes or a vector is made.
LEMMA GivenMakes ==
  ASSUME PlaceInv, NamesInv, GivenInv, NEW op \in {"string", "bytes", "payload", "vector"},
         Call(op), NEW content, made' = With(made, Head(todo).as, content),
         Head(todo).as \notin DOMAIN refs,
         op \in {"string", "bytes"} => content = [kind |-> op, bytes |-> Head(todo).bytes],
         op = "payload" => content = [kind |-> "bytes", bytes |-> inner],
         op = "vector" => content = [kind |-> "vector", of |-> Head(todo).of],
         UNCHANGED <<input, inner, row>>
  PROVE  GivenInv'
<1>1. Done \in Nat /\ Calls[Done + 1].op = op /\ Head(todo) = Calls[Done + 1]
  BY Calling
<1>2. \A j \in 1 .. Done : RowIs(Calls, row, j, Done) => RowIs(Calls, row', j, Done + 1)
  BY RowStays
<1>3. /\ made'[Calls[Done + 1].as] = content
      /\ \A key \in DOMAIN refs : made'[key] = made[key]
  BY <1>1 DEF With, NamesInv
<1>4. MadeOf(Calls, Done + 1, content, inner)
  BY <1>1 DEF MadeOf
<1> QED BY <1>2, <1>3, <1>4, GivenStep

\* The open table is closed.
LEMMA GivenEnds ==
  ASSUME PlaceInv, NamesInv, GivenInv, Call("end"), Head(todo).as \notin DOMAIN refs,
         made' = With(made, Head(todo).as, [kind |-> "table", row |-> row]),
         UNCHANGED <<input, inner, row>>
  PROVE  GivenInv'
<1>1. /\ Done \in Nat /\ Calls[Done + 1].op = "end" /\ Head(todo) = Calls[Done + 1]
      /\ InOrder(Calls, Done + 1) /\ (Done + 1) - 1 = Done
  BY Calling
<1>2. /\ made'[Calls[Done + 1].as] = [kind |-> "table", row |-> row]
      /\ \A key \in DOMAIN refs : made'[key] = made[key]
  BY <1>1 DEF With, NamesInv
<1>3. PICK i \in 1 .. Done : Open(Calls, i, Done + 1)
  BY <1>1 DEF InOrder
<1>4. RowIs(Calls, row, i, Done)
  BY <1>3 DEF GivenInv
<1>5. MadeOf(Calls, Done + 1, [kind |-> "table", row |-> row], inner)
  <2> DEFINE o == [kind |-> "table", row |-> row]
  <2>1. o.kind = "table" /\ o.row = row
    OBVIOUS
  <2> HIDE DEF o
  <2> QED BY <1>1, <1>3, <1>4, <2>1 DEF MadeOf
<1> QED BY <1>2, <1>5, GivenStep

\* A finish makes nothing.
LEMMA GivenFinish ==
  ASSUME PlaceInv, NamesInv, GivenInv, Call("finish"), UNCHANGED input
  PROVE  GivenInv'
BY GivenStep

-----------------------------------------------------------------------------
(* What a script says, in finished bytes. *)

\* The table that call i of t opens and call j closes reads as what the calls
\* between give to it; at says where the objects are.
TableLaid(s, at, t, i, j) ==
  LET root == at[t[j].as] IN
  /\ \A id \in Nat : (\A k \in i + 1 .. j - 1 : Adds(t[k]) => t[k].id # id) =>
                       FieldOffset(s, root, id) = 0
  /\ \A k \in i + 1 .. j - 1 :
       /\ t[k].op = "u32" => FieldU32(s, root, t[k].id, 0) = t[k].v
       /\ t[k].op = "offset" => /\ FieldOffset(s, root, t[k].id) # 0
                                /\ FieldTarget(s, root, t[k].id) = at[t[k].of]

\* What the calls of t make reads in s as what they say.
Laid(s, at, in, t) ==
  \A j \in 1 .. Len(t) :
    /\ t[j].op \in {"string", "bytes"} => BlockAt(s, at[t[j].as]) = t[j].bytes
    /\ t[j].op = "payload" => BlockAt(s, at[t[j].as]) = in
    /\ t[j].op = "vector" =>
         /\ ReadU32(s, at[t[j].as]) = Len(t[j].of)
         /\ \A i \in 1 .. Len(t[j].of) : Follow(s, at[t[j].as] + 4 * i) = at[t[j].of[i]]
    /\ t[j].op = "end" => \A i \in 1 .. j - 1 : Open(t, i, j) => TableLaid(s, at, t, i, j)

\* A table open in a part is open in the whole.
LEMMA OpenPart ==
  ASSUME NEW t, NEW u, Len(t) \in Nat, Len(u) \in Nat, NEW o, PartAt(t, o, u),
         NEW j \in 1 .. Len(u), NEW i \in 1 .. j - 1
  PROVE  Open(u, i, j) <=> Open(t, o + i, o + j)
<1>1. o \in Nat /\ \A k \in 1 .. Len(u) : t[o + k] = u[k]
  BY DEF PartAt
<1>2. u[i] = t[o + i]
  <2>1. i \in 1 .. Len(u)
    OBVIOUS
  <2> QED BY <1>1, <2>1
<1>3. ASSUME NEW k \in i + 1 .. j - 1
      PROVE  o + k \in (o + i) + 1 .. (o + j) - 1 /\ t[o + k] = u[k]
  <2>1. k \in 1 .. Len(u)
    OBVIOUS
  <2> QED BY <1>1, <2>1
<1>4. ASSUME NEW k \in (o + i) + 1 .. (o + j) - 1
      PROVE  k - o \in i + 1 .. j - 1 /\ t[k] = u[k - o]
  <2>1. k - o \in i + 1 .. j - 1 /\ o + (k - o) = k
    BY <1>1
  <2> QED BY <1>3, <2>1
<1> QED BY <1>2, <1>3, <1>4 DEF Open

\* What is laid in the whole is laid in its parts.
LEMMA LaidPart ==
  ASSUME NEW s, NEW at, NEW in, NEW t, NEW u, Len(t) \in Nat, Laid(s, at, in, t), Part(t, u)
  PROVE  Laid(s, at, in, u)
<1>1. PICK o \in Nat : PartAt(t, o, u)
  BY DEF Part
<1>2. IsBuffer(u) /\ Len(u) \in Nat
  BY Buffers DEF Part
<1>3. o + Len(u) <= Len(t) /\ \A k \in 1 .. Len(u) : t[o + k] = u[k]
  BY <1>1 DEF PartAt
<1>4. ASSUME NEW j \in 1 .. Len(u) PROVE o + j \in 1 .. Len(t) /\ t[o + j] = u[j]
  BY <1>2, <1>3
<1>5. ASSUME NEW j \in 1 .. Len(u), u[j].op = "end", NEW i \in 1 .. j - 1, Open(u, i, j)
      PROVE  TableLaid(s, at, u, i, j)
  <2>1. Open(t, o + i, o + j)
    BY <1>1, <1>2, <1>5, OpenPart
  <2>2. o + j \in 1 .. Len(t) /\ t[o + j] = u[j] /\ o + i \in 1 .. (o + j) - 1
    BY <1>4
  <2>3. TableLaid(s, at, t, o + i, o + j)
    BY <1>5, <2>1, <2>2 DEF Laid
  <2>4. ASSUME NEW k \in i + 1 .. j - 1
        PROVE  o + k \in (o + i) + 1 .. (o + j) - 1 /\ t[o + k] = u[k]
    <3>1. k \in 1 .. Len(u)
      BY <1>2
    <3> QED BY <1>4, <3>1
  <2>5. ASSUME NEW k \in (o + i) + 1 .. (o + j) - 1
        PROVE  k - o \in i + 1 .. j - 1 /\ t[k] = u[k - o]
    <3>1. k - o \in i + 1 .. j - 1 /\ o + (k - o) = k
      OBVIOUS
    <3> QED BY <2>4, <3>1
  <2> DEFINE root == at[u[j].as]
  <2>6. ASSUME NEW id \in Nat, \A k \in i + 1 .. j - 1 : Adds(u[k]) => u[k].id # id
        PROVE  FieldOffset(s, root, id) = 0
    <3>1. \A k \in (o + i) + 1 .. (o + j) - 1 : Adds(t[k]) => t[k].id # id
      BY <2>5, <2>6
    <3> QED BY <2>2, <2>3, <3>1 DEF TableLaid
  <2>7. ASSUME NEW k \in i + 1 .. j - 1
        PROVE  /\ u[k].op = "u32" => FieldU32(s, root, u[k].id, 0) = u[k].v
               /\ u[k].op = "offset" => /\ FieldOffset(s, root, u[k].id) # 0
                                        /\ FieldTarget(s, root, u[k].id) = at[u[k].of]
    BY <2>2, <2>3, <2>4 DEF TableLaid
  <2> HIDE DEF root
  <2>8. root = at[u[j].as]
    BY DEF root
  <2> QED BY <2>6, <2>7, <2>8 DEF TableLaid
<1>6. ASSUME NEW j \in 1 .. Len(u)
      PROVE  /\ u[j].op \in {"string", "bytes"} => BlockAt(s, at[u[j].as]) = u[j].bytes
             /\ u[j].op = "payload" => BlockAt(s, at[u[j].as]) = in
             /\ u[j].op = "vector" =>
                  /\ ReadU32(s, at[u[j].as]) = Len(u[j].of)
                  /\ \A i \in 1 .. Len(u[j].of) : Follow(s, at[u[j].as] + 4 * i) = at[u[j].of[i]]
  <2>1. o + j \in 1 .. Len(t) /\ t[o + j] = u[j]
    BY <1>4
  <2> QED BY <2>1 DEF Laid
<1> QED BY <1>4, <1>5, <1>6 DEF Laid

\* What the calls after an earlier finish made, is in the bytes now finished.
LEMMA FinishLaid ==
  ASSUME FrameInv, GivenInv, Call("finish"), UNCHANGED input, lost = {},
         NEW s, s = Finish(b, refs[Head(todo).of]), Len(s) < U32Size \div 2,
         NEW t, IsBuffer(t), NEW o, PartAt(Calls, o, t), o + Len(t) = Done,
         \A i \in 1 .. Len(t) : t[i].op # "finish"
  PROVE  LET at == [key \in DOMAIN refs |-> Len(s) - refs[key]] IN
         /\ Laid(s, at, inner, t) /\ RootOf(s) = at[Head(todo).of]
         /\ \A i \in 1 .. Len(t) : t[i].op = "payload" => Len(inner) < U32Size \div 2
<1> DEFINE root == refs[Head(todo).of]
           at == [key \in DOMAIN refs |-> Len(s) - refs[key]]
<1>1. IsBuilder(b) /\ PlaceInv /\ NamesInv /\ ObjectsInv
  BY DEF FrameInv
<1>2. /\ Done \in Nat /\ Head(todo) = Calls[Done + 1] /\ Calls[Done + 1].op = "finish"
      /\ Len(Calls) \in Nat /\ Done + 1 \in 1 .. Len(Calls)
  BY <1>1, Calling
<1>3. Head(todo).of \in DOMAIN refs
  BY <1>1, <1>2, UsesKnown DEF Uses
<1>4. /\ IsBuffer(s) /\ Len(s) \in Nat /\ UsedSpace(b) <= Len(s)
      /\ SameEnd(b.buf, s, UsedSpace(b)) /\ RootOf(s) = Len(s) - root
      /\ UsedSpace(b) \in Nat
  <2>1. root \in 0 .. UsedSpace(b) /\ UsedSpace(b) \in Nat
    BY <1>1, <1>3, Used DEF NamesInv
  <2>2. /\ IsBuffer(s) /\ Len(s) \in Nat /\ UsedSpace(b) <= Len(s)
        /\ SameEnd(b.buf, s, UsedSpace(b)) /\ (Len(s) < U32Size => RootOf(s) = Len(s) - root)
    <3> HIDE DEF root
    <3> QED BY <1>1, <2>1, FinishedBytes DEF root
  <2>3. Len(s) < U32Size
    BY <2>2, Sizes
  <2> QED BY <2>1, <2>2, <2>3
<1>5. Known(refs, refs)
  BY <1>1, KnownStays
<1>6. ASSUME NEW key \in DOMAIN refs
      PROVE  ObjectHere(s, Len(s), refs[key], made[key], refs)
  <2>1. key \in DOMAIN made \ lost
    BY <1>1 DEF NamesInv
  <2>2. Reach(b)
    BY <1>4, Sizes DEF Reach
  <2>3. ObjectHere(b.buf, UsedSpace(b), refs[key], made[key], refs)
    BY <1>1, <2>1, <2>2 DEF ObjectsInv, ObjectsHere
  <2>4. Len(b.buf) \in Nat
    BY <1>1, Used
  <2> QED BY <1>4, <1>5, <2>3, <2>4, ObjectKept
<1>7. Len(t) \in Nat /\ o \in Nat /\ \A k \in 1 .. Len(t) : Calls[o + k] = t[k]
  BY Buffers DEF PartAt
<1>8. ASSUME NEW j \in 1 .. Len(t), Makes(t[j])
      PROVE  /\ t[j].as \in DOMAIN refs /\ at[t[j].as] = Len(s) - refs[t[j].as]
             /\ refs[t[j].as] \in Nat
             /\ ObjectHere(s, Len(s), refs[t[j].as], made[t[j].as], refs)
             /\ MadeOf(Calls, o + j, made[t[j].as], inner)
  <2>1. o + j \in 1 .. Done /\ Calls[o + j] = t[j]
    BY <1>2, <1>7
  <2>2. ASSUME NEW k \in o + j .. Done PROVE Calls[k].op # "finish"
    <3>1. k - o \in 1 .. Len(t) /\ o + (k - o) = k
      BY <1>2, <1>7
    <3> QED BY <1>7, <3>1
  <2>3. (Done + 1) - 1 = Done
    BY <1>2
  <2>4. MadeFor(Calls, o + j, Done + 1)
    BY <1>8, <2>1, <2>2, <2>3 DEF MadeFor
  <2>5. t[j].as \in DOMAIN refs /\ MadeOf(Calls, o + j, made[t[j].as], inner)
    BY <1>1, <2>1, <2>4 DEF NamesInv, GivenInv
  <2> QED BY <1>5, <1>6, <2>5 DEF Known
<1>9. ASSUME NEW j \in 1 .. Len(t), t[j].op \in {"string", "bytes", "payload"}
      PROVE  /\ t[j].op \in {"string", "bytes"} => BlockAt(s, at[t[j].as]) = t[j].bytes
             /\ t[j].op = "payload" => BlockAt(s, at[t[j].as]) = inner
                                       /\ Len(inner) < U32Size \div 2
  <2> DEFINE key == t[j].as
             bytes == IF t[j].op = "payload" THEN inner ELSE t[j].bytes
  <2>1. Makes(t[j]) /\ Calls[o + j] = t[j]
    BY <1>7, <1>9 DEF Makes
  <2>2. made[key].kind \in {"string", "bytes"} /\ made[key].bytes = bytes
    BY <1>8, <1>9, <2>1 DEF MadeOf
  <2>3. refs[key] \in Nat /\ at[key] = Len(s) - refs[key]
    BY <1>8, <2>1
  <2>4. BytesHere(s, Len(s), refs[key], bytes)
    BY <1>8, <2>1, <2>2 DEF ObjectHere
  <2> HIDE DEF bytes
  <2>5. BlockAt(s, Len(s) - refs[key]) = bytes
    <3>1. Len(s) \in 0 .. Len(s)
      BY <1>4
    <3> QED BY <1>4, <2>3, <2>4, <3>1, BytesRead
  <2>6. Len(bytes) < U32Size \div 2
    <3> DEFINE r == refs[key]
    <3>1. Len(bytes) \in Nat /\ 4 + Len(bytes) <= r /\ r <= Len(s) /\ r \in Nat
      BY <2>3, <2>4, Buffers DEF BytesHere
    <3>2. U32Size \div 2 \in Int
      BY Sizes
    <3> HIDE DEF r
    <3> QED BY <1>4, <3>1, <3>2
  <2> QED BY <2>3, <2>5, <2>6 DEF bytes
<1>10. ASSUME NEW j \in 1 .. Len(t), t[j].op = "vector"
       PROVE  /\ ReadU32(s, at[t[j].as]) = Len(t[j].of)
              /\ \A i \in 1 .. Len(t[j].of) : Follow(s, at[t[j].as] + 4 * i) = at[t[j].of[i]]
  <2> DEFINE key == t[j].as
             of == t[j].of
  <2>1. Makes(t[j]) /\ Calls[o + j] = t[j]
    BY <1>7, <1>10 DEF Makes
  <2>2. made[key].kind = "vector" /\ made[key].of = of
    BY <1>8, <1>10, <2>1 DEF MadeOf
  <2>3. refs[key] \in Nat /\ at[key] = Len(s) - refs[key]
    BY <1>8, <2>1
  <2>4. VectorHere(s, Len(s), refs[key], of, refs)
    BY <1>8, <2>1, <2>2 DEF ObjectHere
  <2> HIDE DEF of
  <2>5. VectorIn(s, refs[key], of, refs)
    BY <1>4, <1>5, <2>3, <2>4, VectorRead
  <2> QED BY <2>3, <2>5 DEF of, VectorIn
<1>11. ASSUME NEW j \in 1 .. Len(t), t[j].op = "end", NEW i \in 1 .. j - 1, Open(t, i, j)
       PROVE  TableLaid(s, at, t, i, j)
  <2> DEFINE key == t[j].as
             rw == made[key].row
  <2>1. Makes(t[j]) /\ Calls[o + j] = t[j]
    BY <1>7, <1>11 DEF Makes
  <2>2. /\ made[key].kind = "table"
        /\ \E p \in 1 .. (o + j) - 1 : Open(Calls, p, o + j) /\ RowIs(Calls, rw, p, (o + j) - 1)
    BY <1>8, <1>11, <2>1 DEF MadeOf
  <2>3. refs[key] \in Nat /\ at[key] = Len(s) - refs[key]
    BY <1>8, <2>1
  <2>4. TableHere(s, Len(s), refs[key], rw, refs)
    BY <1>8, <2>1, <2>2 DEF ObjectHere
  <2>5. Open(Calls, o + i, o + j)
    <3> DEFINE c == Calls
    <3>1. Len(c) \in Nat /\ PartAt(c, o, t)
      BY <1>2
    <3> HIDE DEF c
    <3>2. Open(c, o + i, o + j)
      BY <1>7, <1>11, <3>1, OpenPart
    <3> QED BY <3>2 DEF c
  <2>6. RowIs(Calls, rw, o + i, (o + j) - 1)
    <3>1. PICK p \in 1 .. (o + j) - 1 : /\ Open(Calls, p, o + j)
                                        /\ RowIs(Calls, rw, p, (o + j) - 1)
      BY <2>2
    <3>2. CASE p < o + i
      <4>1. o + i \in p + 1 .. (o + j) - 1
        BY <1>7, <3>2
      <4> QED BY <2>5, <3>1, <4>1 DEF Open
    <3>3. CASE p > o + i
      <4>1. p \in (o + i) + 1 .. (o + j) - 1
        BY <1>7, <3>3
      <4> QED BY <2>5, <3>1, <4>1 DEF Open
    <3>4. p = o + i \/ p < o + i \/ p > o + i
      BY <1>7
    <3> QED BY <3>1, <3>2, <3>3, <3>4
  <2>7. ASSUME NEW k \in i + 1 .. j - 1
        PROVE  o + k \in (o + i) + 1 .. (o + j) - 1 /\ Calls[o + k] = t[k]
    <3>1. k \in 1 .. Len(t)
      BY <1>7
    <3> QED BY <1>7, <3>1
  <2>8. ASSUME NEW k \in (o + i) + 1 .. (o + j) - 1
        PROVE  k - o \in i + 1 .. j - 1 /\ Calls[k] = t[k - o]
    <3>1. k - o \in i + 1 .. j - 1 /\ o + (k - o) = k
      BY <1>7
    <3> QED BY <2>7, <3>1
  <2>9. ASSUME NEW id \in Nat, \A k \in i + 1 .. j - 1 : Adds(t[k]) => t[k].id # id
        PROVE  FieldOffset(s, at[key], id) = 0
    <3>1. id \notin DOMAIN rw
      <4> SUFFICES ASSUME id \in DOMAIN rw PROVE FALSE
        OBVIOUS
      <4>1. PICK k \in (o + i) + 1 .. (o + j) - 1 : Adds(Calls[k]) /\ Calls[k].id = id
        <5> HIDE DEF rw
        <5> QED BY <2>6 DEF RowIs
      <4>2. k - o \in i + 1 .. j - 1 /\ Calls[k] = t[k - o]
        BY <2>8
      <4> QED BY <2>9, <4>1, <4>2
    <3>2. FieldOffset(s, Len(s) - refs[key], id) = 0
      BY <2>4, <3>1 DEF TableHere
    <3> QED BY <2>3, <3>2
  <2>10. ASSUME NEW k \in i + 1 .. j - 1, Adds(t[k])
         PROVE  /\ t[k].op = "u32" => FieldU32(s, at[key], t[k].id, 0) = t[k].v
                /\ t[k].op = "offset" => /\ FieldOffset(s, at[key], t[k].id) # 0
                                         /\ FieldTarget(s, at[key], t[k].id) = at[t[k].of]
    <3> DEFINE id == t[k].id
    <3>1. id \in DOMAIN rw /\ rw[id] = Given(t[k])
      BY <2>6, <2>7, <2>10 DEF RowIs
    <3>2. id \in Nat
      BY <2>4, <3>1 DEF TableHere
    <3>3. /\ "v" \in DOMAIN rw[id] => FieldU32(s, at[key], id, 0) = rw[id].v
          /\ "v" \notin DOMAIN rw[id] =>
               /\ FieldOffset(s, at[key], id) # 0
               /\ FieldTarget(s, at[key], id) = Len(s) - refs[rw[id].of]
      <4>1. TableIn(s, refs[key], rw, refs)
        <5> HIDE DEF rw
        <5> QED BY <1>4, <1>5, <2>3, <2>4, TableRead
      <4> QED BY <2>3, <3>1, <3>2, <4>1 DEF TableIn
    <3>4. "v" \notin DOMAIN rw[id] => rw[id].of \in DOMAIN refs
      BY <2>4, <3>1 DEF TableHere
    <3>5. t[k].op = "u32" => "v" \in DOMAIN rw[id] /\ rw[id].v = t[k].v
      BY <3>1 DEF Given
    <3>6. t[k].op = "offset" => "v" \notin DOMAIN rw[id] /\ rw[id].of = t[k].of
      BY <3>1 DEF Given
    <3> QED BY <3>3, <3>4, <3>5, <3>6
  <2>11. ASSUME NEW k PROVE t[k].op = "u32" \/ t[k].op = "offset" => Adds(t[k])
    BY DEF Adds
  <2> QED BY <2>9, <2>10, <2>11 DEF TableLaid
<1>12. Laid(s, at, inner, t)
  BY <1>9, <1>10, <1>11 DEF Laid
<1> QED BY <1>3, <1>4, <1>9, <1>12

-----------------------------------------------------------------------------
(* Entries and languages. *)

\* The table at root is entry e to the parser.
EntryRead(s, root, e) ==
  /\ FieldU32(s, root, 0, 0) = e.id /\ FieldU32(s, root, 1, 0) = e.ts
  /\ StringField(s, root, 3) = e.name /\ StringField(s, root, 4) = e.author
  /\ StringField(s, root, 5) = e.code

\* An entry of scripts or styles reads as it is.
LEMMA LogEntryRead ==
  ASSUME NEW vector, NEW i, NEW e, NEW s, NEW at, NEW in,
         Laid(s, at, in, LogEntry(vector, i, e))
  PROVE  EntryRead(s, at[Key(vector, i)], e)
<1> DEFINE t == LogEntry(vector, i, e)
           key == Key(vector, i)
<1>1. CASE e.code # None
  <2>1. /\ Len(t) = 10
        /\ t[1] = Str("name", key, e.name) /\ t[2] = Str("author", key, e.author)
        /\ t[3] = Str("code", key, e.code) /\ t[4] = Start(6) /\ t[5] = U32(0, e.id)
        /\ t[6] = U32(1, e.ts) /\ t[7] = Off(3, "name", key) /\ t[8] = Off(4, "author", key)
        /\ t[9] = Off(5, "code", key) /\ t[10] = End(vector, i)
    BY <1>1, LogEntryCoded
  <2> HIDE DEF t
  <2>2. Open(t, 4, 10)
    <3>1. t[4].op = "start" /\ \A k \in 5 .. 9 : t[k].op \in {"u32", "offset"}
      BY <2>1 DEF Start, U32, Off
    <3> QED BY <3>1 DEF Open
  <2>3. t[10].op = "end" /\ t[10].as = key
    BY <2>1 DEF End
  <2>4. TableLaid(s, at, t, 4, 10)
    BY <2>1, <2>2, <2>3 DEF Laid, t
  <2>5. FieldU32(s, at[key], 0, 0) = e.id /\ FieldU32(s, at[key], 1, 0) = e.ts
    <3>1. /\ t[5].op = "u32" /\ t[5].id = 0 /\ t[5].v = e.id
          /\ t[6].op = "u32" /\ t[6].id = 1 /\ t[6].v = e.ts
      BY <2>1 DEF U32
    <3> QED BY <2>3, <2>4, <3>1 DEF TableLaid
  <2>6. /\ t[7].op = "offset" /\ t[7].id = 3 /\ t[7].of = t[1].as
        /\ t[8].op = "offset" /\ t[8].id = 4 /\ t[8].of = t[2].as
        /\ t[9].op = "offset" /\ t[9].id = 5 /\ t[9].of = t[3].as
        /\ \A k \in 1 .. 3 : t[k].op = "string"
        /\ t[1].bytes = e.name /\ t[2].bytes = e.author /\ t[3].bytes = e.code
    BY <2>1 DEF Off, Str
  <2>7. \A k \in 1 .. 3 : BlockAt(s, at[t[k].as]) = t[k].bytes
    BY <2>1, <2>6 DEF Laid, t
  <2>8. \A k \in 7 .. 9 : /\ FieldOffset(s, at[key], t[k].id) # 0
                          /\ FieldTarget(s, at[key], t[k].id) = at[t[k].of]
    BY <2>3, <2>4, <2>6 DEF TableLaid
  <2>9. StringField(s, at[key], 3) = e.name
    BY <2>6, <2>7, <2>8 DEF StringField
  <2>10. StringField(s, at[key], 4) = e.author
    BY <2>6, <2>7, <2>8 DEF StringField
  <2>11. StringField(s, at[key], 5) = e.code
    BY <2>6, <2>7, <2>8 DEF StringField
  <2> QED BY <2>5, <2>9, <2>10, <2>11 DEF EntryRead
<1>2. CASE e.code = None
  <2>1. /\ Len(t) = 8
        /\ t[1] = Str("name", key, e.name) /\ t[2] = Str("author", key, e.author)
        /\ t[3] = Start(5) /\ t[4] = U32(0, e.id) /\ t[5] = U32(1, e.ts)
        /\ t[6] = Off(3, "name", key) /\ t[7] = Off(4, "author", key) /\ t[8] = End(vector, i)
    BY <1>2, LogEntryBare
  <2> HIDE DEF t
  <2>2. Open(t, 3, 8)
    <3>1. t[3].op = "start" /\ \A k \in 4 .. 7 : t[k].op \in {"u32", "offset"}
      BY <2>1 DEF Start, U32, Off
    <3> QED BY <3>1 DEF Open
  <2>3. t[8].op = "end" /\ t[8].as = key
    BY <2>1 DEF End
  <2>4. TableLaid(s, at, t, 3, 8)
    BY <2>1, <2>2, <2>3 DEF Laid, t
  <2>5. FieldU32(s, at[key], 0, 0) = e.id /\ FieldU32(s, at[key], 1, 0) = e.ts
    <3>1. /\ t[4].op = "u32" /\ t[4].id = 0 /\ t[4].v = e.id
          /\ t[5].op = "u32" /\ t[5].id = 1 /\ t[5].v = e.ts
      BY <2>1 DEF U32
    <3> QED BY <2>3, <2>4, <3>1 DEF TableLaid
  <2>6. /\ t[6].op = "offset" /\ t[6].id = 3 /\ t[6].of = t[1].as
        /\ t[7].op = "offset" /\ t[7].id = 4 /\ t[7].of = t[2].as
        /\ \A k \in 1 .. 2 : t[k].op = "string"
        /\ t[1].bytes = e.name /\ t[2].bytes = e.author
    BY <2>1 DEF Off, Str
  <2>7. \A k \in 1 .. 2 : BlockAt(s, at[t[k].as]) = t[k].bytes
    BY <2>1, <2>6 DEF Laid, t
  <2>8. \A k \in 6 .. 7 : /\ FieldOffset(s, at[key], t[k].id) # 0
                          /\ FieldTarget(s, at[key], t[k].id) = at[t[k].of]
    BY <2>3, <2>4, <2>6 DEF TableLaid
  <2>9. StringField(s, at[key], 3) = e.name
    BY <2>6, <2>7, <2>8 DEF StringField
  <2>10. StringField(s, at[key], 4) = e.author
    BY <2>6, <2>7, <2>8 DEF StringField
  <2>11. StringField(s, at[key], 5) = e.code
    <3>1. \A k \in 4 .. 7 : t[k].id # 5
      BY <2>1 DEF U32, Off
    <3>2. FieldOffset(s, at[key], 5) = 0
      BY <2>3, <2>4, <3>1 DEF TableLaid
    <3> QED BY <1>2, <3>2 DEF StringField
  <2> QED BY <2>5, <2>9, <2>10, <2>11 DEF EntryRead
<1> QED BY <1>1, <1>2

\* An entry without its code.
LEMMA WithoutCode ==
  ASSUME NEW e, IsEntry(e)
  PROVE  LET w == [e EXCEPT !.code = None] IN
         /\ IsEntry(w) /\ w.code = None
         /\ w.id = e.id /\ w.ts = e.ts /\ w.name = e.name /\ w.author = e.author
<1> DEFINE w == [e EXCEPT !.code = None]
           u == [id |-> e.id, ts |-> e.ts, name |-> e.name, author |-> e.author, code |-> None]
<1>1. w = u
  <2> DEFINE f == [id |-> e.id, ts |-> e.ts, name |-> e.name, author |-> e.author,
                   code |-> e.code]
  <2>1. e = f
    BY DEF IsEntry
  <2>2. [f EXCEPT !.code = None] = u
    OBVIOUS
  <2> HIDE DEF f, u
  <2> QED BY <2>1, <2>2
<1>2. /\ u.id = e.id /\ u.ts = e.ts /\ u.name = e.name /\ u.author = e.author
      /\ u.code = None
      /\ u = [id |-> u.id, ts |-> u.ts, name |-> u.name, author |-> u.author, code |-> u.code]
  OBVIOUS
<1> HIDE DEF w, u
<1>3. IsEntry(u)
  BY <1>2 DEF IsEntry
<1> QED BY <1>1, <1>2, <1>3 DEF w

\* An entry of configs reads as it is, without its code.
LEMMA ConfigEntryRead ==
  ASSUME NEW i, NEW e, IsEntry(e), NEW s, NEW at, NEW in,
         Laid(s, at, in, ConfigEntry(i, e))
  PROVE  EntryRead(s, at[Key("config", i)], [e EXCEPT !.code = None])
<1> DEFINE t == ConfigEntry(i, e)
           key == Key("config", i)
<1>1. /\ Len(t) = 9
      /\ t[1] = Str("name", key, e.name) /\ t[2] = Str("author", key, e.author)
      /\ t[3] = Gap(8) /\ t[4] = Start(5) /\ t[5] = U32(0, e.id) /\ t[6] = U32(1, e.ts)
      /\ t[7] = Off(3, "name", key) /\ t[8] = Off(4, "author", key) /\ t[9] = End("config", i)
  BY ConfigEntryCalls
<1> HIDE DEF t
<1>2. Open(t, 4, 9)
  <2>1. t[4].op = "start" /\ \A k \in 5 .. 8 : t[k].op \in {"u32", "offset"}
    BY <1>1 DEF Start, U32, Off
  <2> QED BY <2>1 DEF Open
<1>3. t[9].op = "end" /\ t[9].as = key
  BY <1>1 DEF End
<1>4. TableLaid(s, at, t, 4, 9)
  BY <1>1, <1>2, <1>3 DEF Laid, t
<1>5. FieldU32(s, at[key], 0, 0) = e.id /\ FieldU32(s, at[key], 1, 0) = e.ts
  <2>1. /\ t[5].op = "u32" /\ t[5].id = 0 /\ t[5].v = e.id
        /\ t[6].op = "u32" /\ t[6].id = 1 /\ t[6].v = e.ts
    BY <1>1 DEF U32
  <2> QED BY <1>3, <1>4, <2>1 DEF TableLaid
<1>6. /\ t[7].op = "offset" /\ t[7].id = 3 /\ t[7].of = t[1].as
      /\ t[8].op = "offset" /\ t[8].id = 4 /\ t[8].of = t[2].as
      /\ \A k \in 1 .. 2 : t[k].op = "string"
      /\ t[1].bytes = e.name /\ t[2].bytes = e.author
  BY <1>1 DEF Off, Str
<1>7. \A k \in 1 .. 2 : BlockAt(s, at[t[k].as]) = t[k].bytes
  BY <1>1, <1>6 DEF Laid, t
<1>8. \A k \in 7 .. 8 : /\ FieldOffset(s, at[key], t[k].id) # 0
                        /\ FieldTarget(s, at[key], t[k].id) = at[t[k].of]
  BY <1>3, <1>4, <1>6 DEF TableLaid
<1>9. StringField(s, at[key], 3) = e.name
  BY <1>6, <1>7, <1>8 DEF StringField
<1>10. StringField(s, at[key], 4) = e.author
  BY <1>6, <1>7, <1>8 DEF StringField
<1>11. StringField(s, at[key], 5) = None
  <2>1. \A k \in 5 .. 8 : t[k].id # 5
    BY <1>1 DEF U32, Off
  <2>2. FieldOffset(s, at[key], 5) = 0
    BY <1>3, <1>4, <2>1 DEF TableLaid
  <2> QED BY <2>2 DEF StringField
<1> DEFINE w == [e EXCEPT !.code = None]
<1>12. /\ w.code = None
       /\ w.id = e.id /\ w.ts = e.ts /\ w.name = e.name /\ w.author = e.author
  BY WithoutCode
<1> HIDE DEF w
<1>13. EntryRead(s, at[key], w)
  BY <1>5, <1>9, <1>10, <1>11, <1>12 DEF EntryRead
<1> QED BY <1>13 DEF w

\* A sequence is a part of itself, and what is laid of the parts of a row is.
LEMMA LaidJoined ==
  ASSUME NEW s, NEW at, NEW in, NEW x, NEW y, IsBuffer(x), IsBuffer(y), Laid(s, at, in, x \o y)
  PROVE  Laid(s, at, in, x) /\ Laid(s, at, in, y)
<1> DEFINE z == x \o y
<1>1. Len(z) \in Nat /\ PartAt(z, 0, x) /\ PartAt(z, Len(x), y) /\ Len(x) \in Nat
  <2>1. IsBuffer(z) /\ PartAt(z, 0, x) /\ PartAt(z, Len(x), y) /\ Len(x) \in Nat
    BY Joined
  <2>2. Len(z) \in Nat
    BY <2>1, Buffers
  <2> QED BY <2>1, <2>2
<1>2. Laid(s, at, in, z)
  OBVIOUS
<1> HIDE DEF z
<1>3. Part(z, x) /\ Part(z, y)
  BY <1>1 DEF Part
<1> QED BY <1>1, <1>2, <1>3, LaidPart

\* A string that is laid, with a field that leads to it, is read.
LEMMA StringLaid ==
  ASSUME NEW s, NEW at, NEW in, NEW name, NEW i, NEW str,
         Laid(s, at, in, <<Str(name, i, str)>>)
  PROVE  BlockAt(s, at[Key(name, i)]) = str
<1> DEFINE c == Str(name, i, str)
           t == <<c>>
<1>1. c.op = "string" /\ c.as = Key(name, i) /\ c.bytes = str
  BY DEF Str
<1> HIDE DEF c
<1>2. Len(t) = 1 /\ t[1] = c
  OBVIOUS
<1> HIDE DEF t
<1>3. Laid(s, at, in, t)
  BY DEF c, t
<1> QED BY <1>1, <1>2, <1>3 DEF Laid

\* The strings of a language are there.
LEMMA LangStringsRead ==
  ASSUME NEW i, NEW l, NEW s, NEW at, NEW in, Laid(s, at, in, LangStrings(i, l))
  PROVE  /\ BlockAt(s, at[Key("langCode", i)]) = l.code
         /\ BlockAt(s, at[Key("english", i)]) = l.english
         /\ l.translations # None => BlockAt(s, at[Key("translations", i)]) = l.translations
         /\ l.native # l.english => BlockAt(s, at[Key("native", i)]) = l.native
<1> DEFINE x == When(l.translations # None, <<Str("translations", i, l.translations)>>)
           y == <<Str("langCode", i, l.code), Str("english", i, l.english)>>
           z == When(l.native # l.english, <<Str("native", i, l.native)>>)
<1>1. LangStrings(i, l) = (x \o y) \o z /\ IsBuffer(x) /\ IsBuffer(y) /\ IsBuffer(z)
      /\ IsBuffer(x \o y)
  BY LangStringsBuffer
<1> HIDE DEF x, y, z
<1>2. Laid(s, at, in, (x \o y)) /\ Laid(s, at, in, z)
  BY <1>1, LaidJoined
<1>3. Laid(s, at, in, x) /\ Laid(s, at, in, y)
  BY <1>1, <1>2, LaidJoined
<1>4. ASSUME l.translations # None
      PROVE  BlockAt(s, at[Key("translations", i)]) = l.translations
  <2>1. x = <<Str("translations", i, l.translations)>>
    BY <1>4 DEF x, When
  <2> QED BY <1>3, <2>1, StringLaid
<1>5. ASSUME l.native # l.english
      PROVE  BlockAt(s, at[Key("native", i)]) = l.native
  <2>1. z = <<Str("native", i, l.native)>>
    BY <1>5 DEF z, When
  <2> QED BY <1>2, <2>1, StringLaid
<1>6. /\ BlockAt(s, at[Key("langCode", i)]) = l.code
      /\ BlockAt(s, at[Key("english", i)]) = l.english
  <2> DEFINE c1 == Str("langCode", i, l.code)
             c2 == Str("english", i, l.english)
             t == <<c1, c2>>
  <2>1. /\ c1.op = "string" /\ c1.as = Key("langCode", i) /\ c1.bytes = l.code
        /\ c2.op = "string" /\ c2.as = Key("english", i) /\ c2.bytes = l.english
    BY DEF Str
  <2> HIDE DEF c1, c2
  <2>2. Len(t) = 2 /\ t[1] = c1 /\ t[2] = c2
    OBVIOUS
  <2> HIDE DEF t
  <2>3. Laid(s, at, in, t)
    BY <1>3 DEF y, t, c1, c2
  <2> QED BY <2>1, <2>2, <2>3 DEF Laid
<1> QED BY <1>4, <1>5, <1>6

\* The table at root is language l to the parser.
LanguageRead(s, root, l) ==
  /\ StringField(s, root, 2) = l.code /\ StringField(s, root, 4) = l.english
  /\ StringField(s, root, 5) = l.native /\ StringField(s, root, 6) = l.translations

\* A language reads as it is, whichever form its table has.
LEMMA LangTableRead ==
  ASSUME NEW i, NEW l, NEW s, NEW at, NEW in, Laid(s, at, in, LangStrings(i, l)),
         Laid(s, at, in, LangTable(i, l))
  PROVE  LanguageRead(s, at[Key("lang", i)], l)
<1> DEFINE t == LangTable(i, l)
           n == Len(t)
           key == Key("lang", i)
           root == at[key]
           native == IF l.native = l.english THEN "english" ELSE "native"
<1>1. /\ n = (IF l.translations # None THEN 6 ELSE 5)
      /\ t[1] = Start(7) /\ t[2] = Off(2, "langCode", i) /\ t[3] = Off(4, "english", i)
      /\ t[4] = Off(5, native, i) /\ t[n] = End("lang", i)
      /\ l.translations # None => t[5] = Off(6, "translations", i)
  BY LangTableCalls
<1>2. /\ BlockAt(s, at[Key("langCode", i)]) = l.code
      /\ BlockAt(s, at[Key("english", i)]) = l.english
      /\ l.translations # None => BlockAt(s, at[Key("translations", i)]) = l.translations
      /\ l.native # l.english => BlockAt(s, at[Key("native", i)]) = l.native
  BY LangStringsRead
<1>3. Laid(s, at, in, t)
  OBVIOUS
<1> HIDE DEF t, native
<1>4. /\ n \in {5, 6} /\ t[n].op = "end" /\ t[n].as = key
      /\ t[1].op = "start"
      /\ t[2].op = "offset" /\ t[2].id = 2 /\ t[2].of = Key("langCode", i)
      /\ t[3].op = "offset" /\ t[3].id = 4 /\ t[3].of = Key("english", i)
      /\ t[4].op = "offset" /\ t[4].id = 5 /\ t[4].of = Key(native, i)
      /\ l.translations # None =>
           t[5].op = "offset" /\ t[5].id = 6 /\ t[5].of = Key("translations", i) /\ n = 6
      /\ l.translations = None => n = 5
  BY <1>1 DEF Start, Off, End
<1> HIDE DEF n
<1>5. \A k \in 2 .. n - 1 : t[k].op = "offset"
  <2>1. ASSUME NEW k \in 2 .. n - 1 PROVE k \in {2, 3, 4} \/ (k = 5 /\ n = 6)
    BY <1>4
  <2>2. t[2].op = "offset" /\ t[3].op = "offset" /\ t[4].op = "offset"
        /\ (n = 6 => t[5].op = "offset")
    <3>1. n = 6 => l.translations # None
      BY <1>4
    <3> QED BY <1>4, <3>1
  <2> QED BY <2>1, <2>2
<1>6. Open(t, 1, n)
  BY <1>4, <1>5 DEF Open
<1>7. TableLaid(s, at, t, 1, n)
  <2>1. n \in 1 .. Len(t) /\ 1 \in 1 .. n - 1
    BY <1>4 DEF n
  <2> QED BY <1>3, <1>4, <1>6, <2>1 DEF Laid
<1>8. \A k \in 2 .. n - 1 : /\ FieldOffset(s, root, t[k].id) # 0
                            /\ FieldTarget(s, root, t[k].id) = at[t[k].of]
  BY <1>4, <1>5, <1>7 DEF TableLaid
<1>9. 2 \in 2 .. n - 1 /\ 3 \in 2 .. n - 1 /\ 4 \in 2 .. n - 1
  BY <1>4
<1> HIDE DEF root
<1>10. StringField(s, root, 2) = l.code
  BY <1>2, <1>4, <1>8, <1>9 DEF StringField
<1>11. StringField(s, root, 4) = l.english
  BY <1>2, <1>4, <1>8, <1>9 DEF StringField
<1>12. StringField(s, root, 5) = l.native
  <2>1. StringField(s, root, 5) = BlockAt(s, at[Key(native, i)])
    BY <1>4, <1>8, <1>9 DEF StringField
  <2>2. BlockAt(s, at[Key(native, i)]) = l.native
    BY <1>2 DEF native
  <2> QED BY <2>1, <2>2
<1>13. StringField(s, root, 6) = l.translations
  <2>1. CASE l.translations # None
    <3>1. 5 \in 2 .. n - 1
      BY <1>4, <2>1
    <3> QED BY <1>2, <1>4, <1>8, <2>1, <3>1 DEF StringField
  <2>2. CASE l.translations = None
    <3>1. \A k \in 2 .. n - 1 : t[k].id # 6
      BY <1>4, <2>2
    <3>2. FieldOffset(s, root, 6) = 0
      BY <1>4, <1>7, <3>1 DEF TableLaid, root, n
    <3> QED BY <2>2, <3>2 DEF StringField
  <2> QED BY <2>1, <2>2
<1> QED BY <1>10, <1>11, <1>12, <1>13 DEF LanguageRead, root

\* A vector of entries.
LEMMA LogRead ==
  ASSUME NEW s, NEW root, NEW id, NEW es, IsList(es), \A i \in 1 .. Len(es) : IsEntry(es[i]),
         FieldOffset(s, root, id) # 0, NEW p, p = FieldTarget(s, root, id),
         ReadU32(s, p) = Len(es),
         \A i \in 1 .. Len(es) : EntryRead(s, Follow(s, p + 4 * i), es[i])
  PROVE  ParseLog(s, root, id) = es
<1> DEFINE item(e) == [id |-> FieldU32(s, e, 0, 0), ts |-> FieldU32(s, e, 1, 0),
                       name |-> OrEmpty(StringField(s, e, 3)),
                       author |-> OrEmpty(StringField(s, e, 4)), code |-> StringField(s, e, 5)]
<1>1. ParseLog(s, root, id) = [i \in 1 .. Len(es) |-> item(Follow(s, p + 4 * i))]
  BY DEF ParseLog, VectorField
<1>2. ASSUME NEW i \in 1 .. Len(es) PROVE item(Follow(s, p + 4 * i)) = es[i]
  <2> DEFINE e == Follow(s, p + 4 * i)
  <2>1. EntryRead(s, e, es[i]) /\ IsEntry(es[i])
    OBVIOUS
  <2> HIDE DEF e
  <2>2. item(e) = [id |-> es[i].id, ts |-> es[i].ts, name |-> es[i].name,
                   author |-> es[i].author, code |-> es[i].code]
    <3>1. es[i].name # None /\ es[i].author # None
      BY <2>1 DEF IsEntry
    <3> QED BY <2>1, <3>1 DEF EntryRead, OrEmpty
  <2>3. item(e) = es[i]
    BY <2>1, <2>2 DEF IsEntry
  <2> QED BY <2>3 DEF e
<1>3. es = [i \in 1 .. Len(es) |-> es[i]]
  BY DEF IsList
<1> HIDE DEF item
<1> QED BY <1>1, <1>2, <1>3

\* A vector of languages.
LEMMA LanguagesRead ==
  ASSUME NEW s, NEW root, NEW id, NEW ls, IsList(ls),
         \A i \in 1 .. Len(ls) : IsLanguage(ls[i]),
         FieldOffset(s, root, id) # 0, NEW p, p = FieldTarget(s, root, id),
         ReadU32(s, p) = Len(ls),
         \A i \in 1 .. Len(ls) : LanguageRead(s, Follow(s, p + 4 * i), ls[i])
  PROVE  ParseLanguages(s, root, id) = ls
<1> DEFINE item(l) ==
             [code |-> OrEmpty(StringField(s, l, 2)), english |-> OrEmpty(StringField(s, l, 4)),
              native |-> OrEmpty(StringField(s, l, 5)),
              translations |-> LET t == StringField(s, l, 6) IN IF t = <<>> THEN None ELSE t]
<1>1. ParseLanguages(s, root, id) = [i \in 1 .. Len(ls) |-> item(Follow(s, p + 4 * i))]
  BY DEF ParseLanguages, VectorField
<1>2. ASSUME NEW i \in 1 .. Len(ls) PROVE item(Follow(s, p + 4 * i)) = ls[i]
  <2> DEFINE l == Follow(s, p + 4 * i)
  <2>1. LanguageRead(s, l, ls[i]) /\ IsLanguage(ls[i])
    OBVIOUS
  <2> HIDE DEF l
  <2>2. item(l) = [code |-> ls[i].code, english |-> ls[i].english, native |-> ls[i].native,
                   translations |-> ls[i].translations]
    <3>1. ls[i].code # None /\ ls[i].english # None /\ ls[i].native # None
      BY <2>1 DEF IsLanguage
    <3>2. ls[i].translations = None \/ ls[i].translations # <<>>
      BY <2>1 DEF IsLanguage
    <3> QED BY <2>1, <3>1, <3>2 DEF LanguageRead, OrEmpty
  <2>3. item(l) = ls[i]
    BY <2>1, <2>2 DEF IsLanguage
  <2> QED BY <2>3 DEF l
<1>3. ls = [i \in 1 .. Len(ls) |-> ls[i]]
  BY DEF IsList
<1> HIDE DEF item
<1> QED BY <1>1, <1>2, <1>3

-----------------------------------------------------------------------------
(* The wrapper and the two replies. *)

\* A wrapper reads as its type and its payload.
LEMMA WrapperRead ==
  ASSUME NEW forced, NEW type, NEW s, NEW at, NEW in, Laid(s, at, in, Wrapper(forced, type))
  PROVE  LET root == at[Key("wrapper", 0)] IN
         FieldU32(s, root, 0, 0) = type /\ BlockAt(s, FieldTarget(s, root, 1)) = in
<1> DEFINE x == When(forced, <<ForceCall>>)
           y == WrapperEnd(type)
           root == at[Key("wrapper", 0)]
<1>1. /\ Wrapper(forced, type) = x \o y /\ IsBuffer(x) /\ IsBuffer(y) /\ Len(y) = 6
      /\ y[1] = Payload /\ y[2] = Start(2) /\ y[3] = U32(0, type)
      /\ y[4] = Off(1, "payload", 0) /\ y[5] = End("wrapper", 0)
  BY WrapperBuffer
<1> HIDE DEF x, y
<1>2. Laid(s, at, in, y)
  BY <1>1, LaidJoined
<1>3. /\ y[1].op = "payload" /\ y[1].as = Key("payload", 0)
      /\ y[2].op = "start"
      /\ y[3].op = "u32" /\ y[3].id = 0 /\ y[3].v = type
      /\ y[4].op = "offset" /\ y[4].id = 1 /\ y[4].of = Key("payload", 0)
      /\ y[5].op = "end" /\ y[5].as = Key("wrapper", 0)
  BY <1>1 DEF Payload, Start, U32, Off, End
<1>4. \A k \in 3 .. 4 : y[k].op \in {"u32", "offset"}
  BY <1>3
<1>5. Open(y, 2, 5)
  BY <1>3, <1>4 DEF Open
<1>6. TableLaid(s, at, y, 2, 5)
  BY <1>1, <1>2, <1>3, <1>5 DEF Laid
<1>7. BlockAt(s, at[Key("payload", 0)]) = in
  BY <1>1, <1>2, <1>3 DEF Laid
<1>8. FieldU32(s, root, 0, 0) = type /\ FieldTarget(s, root, 1) = at[Key("payload", 0)]
  BY <1>3, <1>6 DEF TableLaid
<1> QED BY <1>7, <1>8

\* The inner FlatBuffer of a case-11 reply is m to the parser.
Case11Read(in, m) ==
  /\ FieldU32(in, RootOf(in), 0, 0) = m.id
  /\ StringField(in, RootOf(in), 2) = m.text

\* A case-11 reply reads as it is.
LEMMA Case11Reads ==
  ASSUME NEW m, NEW s, NEW at, NEW in, Laid(s, at, in, Case11Inner(m)),
         RootOf(s) = at[Key("root", 0)]
  PROVE  Case11Read(s, m)
<1> DEFINE t == Case11Inner(m)
           root == RootOf(s)
<1>1. /\ Len(t) = 6
      /\ t[1] = Str("text", 0, m.text) /\ t[2] = Start(3) /\ t[3] = U32(0, m.id)
      /\ t[4] = Off(2, "text", 0) /\ t[5] = End("root", 0)
  BY Case11Calls
<1>2. Laid(s, at, in, t)
  OBVIOUS
<1> HIDE DEF t
<1>3. /\ t[1].op = "string" /\ t[1].as = Key("text", 0) /\ t[1].bytes = m.text
      /\ t[2].op = "start"
      /\ t[3].op = "u32" /\ t[3].id = 0 /\ t[3].v = m.id
      /\ t[4].op = "offset" /\ t[4].id = 2 /\ t[4].of = Key("text", 0)
      /\ t[5].op = "end" /\ t[5].as = Key("root", 0)
  BY <1>1 DEF Str, Start, U32, Off, End
<1>4. \A k \in 3 .. 4 : t[k].op \in {"u32", "offset"}
  BY <1>3
<1>5. Open(t, 2, 5)
  BY <1>3, <1>4 DEF Open
<1>6. TableLaid(s, at, t, 2, 5)
  BY <1>1, <1>2, <1>3, <1>5 DEF Laid
<1>7. BlockAt(s, at[Key("text", 0)]) = m.text
  BY <1>1, <1>2, <1>3 DEF Laid
<1>8. /\ FieldU32(s, root, 0, 0) = m.id /\ FieldOffset(s, root, 2) # 0
      /\ FieldTarget(s, root, 2) = at[Key("text", 0)]
  BY <1>3, <1>6 DEF TableLaid
<1> QED BY <1>7, <1>8 DEF Case11Read, StringField

\* The inner FlatBuffer of a reply to a create is m to the parser.
CreateRead(in, m) ==
  /\ FieldU32(in, RootOf(in), 0, 0) = m.type
  /\ ParseLog(in, RootOf(in), 1)[1] = m.entry

\* A reply to a create reads as it is.
LEMMA CreateReads ==
  ASSUME NEW m, IsEntry(m.entry), NEW s, NEW at, NEW in, Laid(s, at, in, CreateInner(m)),
         RootOf(s) = at[Key("root", 0)]
  PROVE  CreateRead(s, m)
<1> DEFINE x == LogEntry("entry", 1, m.entry)
           t == CreateEnd(m)
           root == RootOf(s)
           of == <<Key("entry", 1)>>
           es == <<m.entry>>
           p == at[Key("entries", 0)]
<1>1. /\ CreateInner(m) = x \o t /\ IsBuffer(x) /\ IsBuffer(t) /\ Len(t) = 6
      /\ t[1] = Refs("entries", of) /\ t[2] = Start(3)
      /\ t[3] = U32(0, m.type) /\ t[4] = Off(1, "entries", 0) /\ t[5] = End("root", 0)
  BY CreateCalls
<1> HIDE DEF x, t
<1>2. Laid(s, at, in, x) /\ Laid(s, at, in, t)
  BY <1>1, LaidJoined
<1>3. EntryRead(s, at[Key("entry", 1)], m.entry)
  BY <1>2, LogEntryRead DEF x
<1>4. /\ t[1].op = "vector" /\ t[1].as = Key("entries", 0) /\ t[1].of = of
      /\ t[2].op = "start"
      /\ t[3].op = "u32" /\ t[3].id = 0 /\ t[3].v = m.type
      /\ t[4].op = "offset" /\ t[4].id = 1 /\ t[4].of = Key("entries", 0)
      /\ t[5].op = "end" /\ t[5].as = Key("root", 0)
  BY <1>1 DEF Refs, Start, U32, Off, End
<1>5. \A k \in 3 .. 4 : t[k].op \in {"u32", "offset"}
  BY <1>4
<1>6. Open(t, 2, 5)
  BY <1>4, <1>5 DEF Open
<1>7. TableLaid(s, at, t, 2, 5)
  BY <1>1, <1>2, <1>4, <1>6 DEF Laid
<1>8. Len(of) = 1 /\ of[1] = Key("entry", 1)
  OBVIOUS
<1> HIDE DEF of
<1>9. ReadU32(s, p) = 1 /\ Follow(s, p + 4 * 1) = at[Key("entry", 1)]
  <2>1. ReadU32(s, p) = Len(of) /\ \A i \in 1 .. Len(of) : Follow(s, p + 4 * i) = at[of[i]]
    <3>1. 1 \in 1 .. Len(t) /\ t[1].op = "vector" /\ at[t[1].as] = p /\ t[1].of = of
      BY <1>1, <1>4
    <3>2. /\ ReadU32(s, at[t[1].as]) = Len(t[1].of)
          /\ \A i \in 1 .. Len(t[1].of) : Follow(s, at[t[1].as] + 4 * i) = at[t[1].of[i]]
      BY <1>2, <3>1 DEF Laid
    <3> HIDE DEF p
    <3> QED BY <3>1, <3>2
  <2> QED BY <1>8, <2>1
<1>10. /\ FieldU32(s, root, 0, 0) = m.type /\ FieldOffset(s, root, 1) # 0
       /\ FieldTarget(s, root, 1) = p
  BY <1>4, <1>7 DEF TableLaid
<1>11. Len(es) = 1 /\ es[1] = m.entry /\ IsList(es)
  BY DEF IsList
<1> HIDE DEF es, p, root
<1>12. \A i \in 1 .. Len(es) : IsEntry(es[i]) /\ EntryRead(s, Follow(s, p + 4 * i), es[i])
  BY <1>3, <1>9, <1>11
<1>13. ParseLog(s, root, 1) = es
  <2>1. /\ IsList(es) /\ FieldOffset(s, root, 1) # 0 /\ p = FieldTarget(s, root, 1)
        /\ ReadU32(s, p) = Len(es)
    BY <1>9, <1>10, <1>11
  <2>2. \A i \in 1 .. Len(es) : IsEntry(es[i])
    BY <1>12
  <2>3. \A i \in 1 .. Len(es) : EntryRead(s, Follow(s, p + 4 * i), es[i])
    BY <1>12
  <2> QED BY <2>1, <2>2, <2>3, LogRead
<1> QED BY <1>10, <1>11, <1>13 DEF CreateRead, root

-----------------------------------------------------------------------------
(* The lists of a module. *)

\* What is laid of all the elements of a list is laid of each.
LEMMA LaidEach ==
  ASSUME NEW n \in Nat, NEW f, f = [i \in 1 .. n |-> f[i]], \A i \in 1 .. n : IsBuffer(f[i])
  PROVE  /\ IsBuffer(FlattenSeq(f))
         /\ \A s, at, in : Laid(s, at, in, FlattenSeq(f)) =>
              \A i \in 1 .. n : Laid(s, at, in, f[i])
<1>1. Len(f) = n
  <2>1. f \in Seq({f[i] : i \in 1 .. n}) /\ DOMAIN f = 1 .. n
    OBVIOUS
  <2> QED BY <2>1
<1>2. IsBuffer(FlattenSeq(f)) /\ \A i \in 1 .. n : Part(FlattenSeq(f), f[i])
  BY <1>1, Flattened
<1> DEFINE t == FlattenSeq(f)
<1>3. Len(t) \in Nat
  BY <1>2, Buffers
<1> HIDE DEF t
<1>4. ASSUME NEW s, NEW at, NEW in, Laid(s, at, in, t), NEW i \in 1 .. n
      PROVE  Laid(s, at, in, f[i])
  <2> DEFINE u == f[i]
  <2>1. Part(t, u)
    BY <1>2 DEF t
  <2> HIDE DEF u
  <2>2. Laid(s, at, in, u)
    BY <1>3, <1>4, <2>1, LaidPart
  <2> QED BY <2>2 DEF u
<1> QED BY <1>2, <1>4 DEF t

\* Every entry of configs reads as it is.
LEMMA ConfigsLaid ==
  ASSUME NEW m, IsList(m.configs)
  PROVE  /\ IsBuffer(ConfigCalls(m))
         /\ \A s, at, in : Laid(s, at, in, ConfigCalls(m)) =>
              \A i \in 1 .. Len(m.configs) : Laid(s, at, in, ConfigEntry(i, m.configs[i]))
<1> DEFINE n == Len(m.configs)
           f == [i \in 1 .. n |-> ConfigEntry(i, m.configs[i])]
<1>1. n \in Nat /\ DOMAIN m.configs = 1 .. n
  BY ForList
<1>2. ConfigCalls(m) = FlattenSeq(f)
  BY <1>1 DEF ConfigCalls, ForEach
<1>3. \A i \in 1 .. n : IsBuffer(f[i]) /\ f[i] = ConfigEntry(i, m.configs[i])
  BY ConfigEntryCalls
<1>4. f = [i \in 1 .. n |-> f[i]]
  OBVIOUS
<1> HIDE DEF n, f
<1>5. /\ IsBuffer(FlattenSeq(f))
      /\ \A s, at, in : Laid(s, at, in, FlattenSeq(f)) => \A i \in 1 .. n : Laid(s, at, in, f[i])
  BY <1>1, <1>3, <1>4, LaidEach
<1> QED BY <1>2, <1>3, <1>5 DEF n

\* Every entry of scripts or styles reads as it is.
LEMMA LogLaid ==
  ASSUME NEW vector, NEW es, IsList(es)
  PROVE  /\ IsBuffer(LogCalls(vector, es))
         /\ \A s, at, in : Laid(s, at, in, LogCalls(vector, es)) =>
              \A i \in 1 .. Len(es) : Laid(s, at, in, LogEntry(vector, i, es[i]))
<1> DEFINE n == Len(es)
           f == [i \in 1 .. n |-> LogEntry(vector, i, es[i])]
<1>1. n \in Nat /\ DOMAIN es = 1 .. n
  BY ForList
<1>2. LogCalls(vector, es) = FlattenSeq(f)
  BY <1>1 DEF LogCalls, ForEach
<1>3. \A i \in 1 .. n : IsBuffer(f[i]) /\ f[i] = LogEntry(vector, i, es[i])
  BY LogEntryCoded, LogEntryBare
<1>4. f = [i \in 1 .. n |-> f[i]]
  OBVIOUS
<1> HIDE DEF n, f
<1>5. /\ IsBuffer(FlattenSeq(f))
      /\ \A s, at, in : Laid(s, at, in, FlattenSeq(f)) => \A i \in 1 .. n : Laid(s, at, in, f[i])
  BY <1>1, <1>3, <1>4, LaidEach
<1> QED BY <1>2, <1>3, <1>5 DEF n

\* The strings of every language are there.
LEMMA StringsLaid ==
  ASSUME NEW m, IsList(m.langs)
  PROVE  /\ IsBuffer(StringCalls(m))
         /\ \A s, at, in : Laid(s, at, in, StringCalls(m)) =>
              \A i \in 1 .. Len(m.langs) : Laid(s, at, in, LangStrings(i, m.langs[i]))
<1> DEFINE n == Len(m.langs)
           f == [i \in 1 .. n |-> LangStrings(i, m.langs[i])]
<1>1. n \in Nat /\ DOMAIN m.langs = 1 .. n
  BY ForList
<1>2. StringCalls(m) = FlattenSeq(f)
  BY <1>1 DEF StringCalls, ForEach
<1>3. \A i \in 1 .. n : IsBuffer(f[i]) /\ f[i] = LangStrings(i, m.langs[i])
  BY LangStringsBuffer
<1>4. f = [i \in 1 .. n |-> f[i]]
  OBVIOUS
<1> HIDE DEF n, f
<1>5. /\ IsBuffer(FlattenSeq(f))
      /\ \A s, at, in : Laid(s, at, in, FlattenSeq(f)) => \A i \in 1 .. n : Laid(s, at, in, f[i])
  BY <1>1, <1>3, <1>4, LaidEach
<1> QED BY <1>2, <1>3, <1>5 DEF n

\* Every language reads as it is.
LEMMA LangsLaid ==
  ASSUME NEW m, IsList(m.langs)
  PROVE  /\ IsBuffer(LangCalls(m))
         /\ \A s, at, in : Laid(s, at, in, LangCalls(m)) =>
              \A i \in 1 .. Len(m.langs) : Laid(s, at, in, LangTable(i, m.langs[i]))
<1> DEFINE n == Len(m.langs)
           o == LangOrder(m.langs)
           f == [i \in 1 .. n |-> LangTable(o[i], m.langs[o[i]])]
<1>1. /\ n \in Nat /\ DOMAIN o = 1 .. n
      /\ \A l \in 1 .. n : \E i \in 1 .. n : o[i] = l
  BY ForList, LangOrderAll
<1>2. LangCalls(m) = FlattenSeq(f)
  BY <1>1 DEF LangCalls, ForEach
<1>3. \A i \in 1 .. n : IsBuffer(f[i]) /\ f[i] = LangTable(o[i], m.langs[o[i]])
  BY LangTableCalls
<1>4. f = [i \in 1 .. n |-> f[i]]
  OBVIOUS
<1> HIDE DEF n, f, o
<1>5. /\ IsBuffer(FlattenSeq(f))
      /\ \A s, at, in : Laid(s, at, in, FlattenSeq(f)) => \A i \in 1 .. n : Laid(s, at, in, f[i])
  BY <1>1, <1>3, <1>4, LaidEach
<1>6. ASSUME NEW s, NEW at, NEW in, Laid(s, at, in, FlattenSeq(f)), NEW l \in 1 .. n
      PROVE  Laid(s, at, in, LangTable(l, m.langs[l]))
  <2>1. PICK i \in 1 .. n : o[i] = l
    BY <1>1
  <2>2. Laid(s, at, in, f[i]) /\ f[i] = LangTable(l, m.langs[l])
    BY <1>3, <1>5, <1>6, <2>1
  <2> QED BY <2>2
<1> QED BY <1>2, <1>5, <1>6 DEF n

\* The strings and bytes of the module itself are there.
LEMMA ExtraLaid ==
  ASSUME NEW m
  PROVE  /\ IsBuffer(ExtraCalls(m))
         /\ \A s, at, in : Laid(s, at, in, ExtraCalls(m)) =>
              /\ BlockAt(s, at[Key("extra", 0)]) = m.extra
              /\ BlockAt(s, at[Key("skins", 0)]) = m.skins
              /\ BlockAt(s, at[Key("token", 0)]) = m.token
<1> DEFINE c1 == Gap(4)
           c2 == Bytes("extra", m.extra)
           c3 == Str("admin", 0, Admin)
           c4 == Bytes("skins", m.skins)
           c5 == Str("token", 0, m.token)
           t == <<c1, c2, c3, c4, c5>>
<1>1. /\ c2.op = "bytes" /\ c2.as = Key("extra", 0) /\ c2.bytes = m.extra
      /\ c4.op = "bytes" /\ c4.as = Key("skins", 0) /\ c4.bytes = m.skins
      /\ c5.op = "string" /\ c5.as = Key("token", 0) /\ c5.bytes = m.token
  BY DEF Bytes, Str
<1>2. ExtraCalls(m) = t
  BY DEF ExtraCalls
<1> HIDE DEF c1, c2, c3, c4, c5
<1>3. t \in Seq({c1, c2, c3, c4, c5}) /\ Len(t) = 5 /\ t[2] = c2 /\ t[4] = c4 /\ t[5] = c5
  OBVIOUS
<1> HIDE DEF t
<1>4. ASSUME NEW s, NEW at, NEW in, Laid(s, at, in, t)
      PROVE  /\ BlockAt(s, at[Key("extra", 0)]) = m.extra
             /\ BlockAt(s, at[Key("skins", 0)]) = m.skins
             /\ BlockAt(s, at[Key("token", 0)]) = m.token
  <2>1. \A j \in {2, 4, 5} : BlockAt(s, at[t[j].as]) = t[j].bytes
    BY <1>1, <1>3, <1>4 DEF Laid
  <2> QED BY <1>1, <1>3, <2>1
<1> QED BY <1>2, <1>3, <1>4 DEF IsBuffer

\* The root table of the module is read.
LEMMA RootLaid ==
  ASSUME NEW m, NEW s, NEW at, NEW in, Laid(s, at, in, RootCalls(m))
  PROVE  LET root == at[Key("root", 0)]
             Has(id, name) == /\ FieldOffset(s, root, id) # 0
                              /\ FieldTarget(s, root, id) = at[Key(name, 0)] IN
         /\ Has(4, "configs") /\ Has(5, "scripts") /\ Has(6, "styles") /\ Has(7, "langs")
         /\ Has(1, "extra") /\ Has(2, "user") /\ Has(9, "skins") /\ Has(11, "token")
         /\ FieldU32(s, root, 3, 0) = m.checksum /\ FieldU32(s, root, 8, 0) = m.enabled
         /\ FieldU32(s, root, 12, 0) = m.capacity
         /\ BlockAt(s, at[Key("user", 0)]) = m.user
<1> DEFINE t == RootCalls(m)
           root == at[Key("root", 0)]
<1>1. /\ Len(t) = 20 /\ t[5] = Start(13)
      /\ t[6] = Off(4, "configs", 0) /\ t[7] = Off(5, "scripts", 0)
      /\ t[8] = Off(6, "styles", 0) /\ t[9] = Off(7, "langs", 0)
      /\ t[10] = Off(1, "extra", 0) /\ t[11] = Gap(4) /\ t[12] = Str("user", 0, m.user)
      /\ t[13] = Off(2, "user", 0) /\ t[14] = Off(9, "skins", 0)
      /\ t[15] = U32(3, m.checksum) /\ t[16] = U32(8, m.enabled)
      /\ t[17] = U32(12, m.capacity) /\ t[18] = Off(11, "token", 0)
      /\ t[19] = End("root", 0)
  BY RootElements
<1>2. Laid(s, at, in, t)
  OBVIOUS
<1> HIDE DEF t
<1>3. /\ t[5].op = "start" /\ t[11].op = "zeros" /\ t[12].op = "string"
      /\ \A k \in {6, 7, 8, 9, 10, 13, 14, 18} : t[k].op = "offset"
      /\ \A k \in {15, 16, 17} : t[k].op = "u32"
      /\ t[19].op = "end" /\ t[19].as = Key("root", 0)
  BY <1>1 DEF Start, Off, Gap, Str, U32, End
<1>4. Open(t, 5, 19)
  <2>1. \A k \in 6 .. 18 : k \in {6, 7, 8, 9, 10, 13, 14, 18} \/ k \in {15, 16, 17}
                           \/ k = 11 \/ k = 12
    OBVIOUS
  <2> QED BY <1>3, <2>1 DEF Open
<1>5. TableLaid(s, at, t, 5, 19)
  BY <1>1, <1>2, <1>3, <1>4 DEF Laid
<1>6. /\ \A k \in {6, 7, 8, 9, 10, 13, 14, 18} :
           /\ FieldOffset(s, root, t[k].id) # 0
           /\ FieldTarget(s, root, t[k].id) = at[t[k].of]
      /\ \A k \in {15, 16, 17} : FieldU32(s, root, t[k].id, 0) = t[k].v
  <2>1. \A k \in {6, 7, 8, 9, 10, 13, 14, 18} \cup {15, 16, 17} : k \in 5 + 1 .. 19 - 1
    OBVIOUS
  <2> QED BY <1>3, <1>5, <2>1 DEF TableLaid
<1>7. BlockAt(s, at[Key("user", 0)]) = m.user
  <2>1. t[12].as = Key("user", 0) /\ t[12].bytes = m.user
    BY <1>1 DEF Str
  <2> QED BY <1>1, <1>2, <1>3, <2>1 DEF Laid
<1>8. /\ t[6].id = 4 /\ t[6].of = Key("configs", 0) /\ t[7].id = 5 /\ t[7].of = Key("scripts", 0)
      /\ t[8].id = 6 /\ t[8].of = Key("styles", 0) /\ t[9].id = 7 /\ t[9].of = Key("langs", 0)
      /\ t[10].id = 1 /\ t[10].of = Key("extra", 0) /\ t[13].id = 2 /\ t[13].of = Key("user", 0)
      /\ t[14].id = 9 /\ t[14].of = Key("skins", 0)
      /\ t[18].id = 11 /\ t[18].of = Key("token", 0)
      /\ t[15].id = 3 /\ t[15].v = m.checksum /\ t[16].id = 8 /\ t[16].v = m.enabled
      /\ t[17].id = 12 /\ t[17].v = m.capacity
  BY <1>1 DEF Off, U32
<1> HIDE DEF root
<1>9. /\ FieldU32(s, root, 3, 0) = m.checksum /\ FieldU32(s, root, 8, 0) = m.enabled
      /\ FieldU32(s, root, 12, 0) = m.capacity
  BY <1>6, <1>8
<1>10. /\ FieldOffset(s, root, 4) # 0 /\ FieldTarget(s, root, 4) = at[Key("configs", 0)]
       /\ FieldOffset(s, root, 5) # 0 /\ FieldTarget(s, root, 5) = at[Key("scripts", 0)]
       /\ FieldOffset(s, root, 6) # 0 /\ FieldTarget(s, root, 6) = at[Key("styles", 0)]
       /\ FieldOffset(s, root, 7) # 0 /\ FieldTarget(s, root, 7) = at[Key("langs", 0)]
  BY <1>6, <1>8
<1>11. /\ FieldOffset(s, root, 1) # 0 /\ FieldTarget(s, root, 1) = at[Key("extra", 0)]
       /\ FieldOffset(s, root, 2) # 0 /\ FieldTarget(s, root, 2) = at[Key("user", 0)]
       /\ FieldOffset(s, root, 9) # 0 /\ FieldTarget(s, root, 9) = at[Key("skins", 0)]
       /\ FieldOffset(s, root, 11) # 0 /\ FieldTarget(s, root, 11) = at[Key("token", 0)]
  BY <1>6, <1>8
<1> QED BY <1>7, <1>9, <1>10, <1>11 DEF root

\* The vector called name holds the tables of a list.
Lists(s, at, name, vector, seq) ==
  LET p == at[Key(name, 0)] IN
  /\ ReadU32(s, p) = Len(seq)
  /\ \A i \in 1 .. Len(seq) : Follow(s, p + 4 * i) = at[Key(vector, i)]

\* The vectors of the module.
LEMMA VectorLaid ==
  ASSUME NEW m, NEW s, NEW at, NEW in, Laid(s, at, in, RootCalls(m)),
         NEW name, NEW vector, NEW seq, IsList(seq),
         \/ name = "langs" /\ vector = "lang" /\ seq = m.langs
         \/ name = "scripts" /\ vector = "script" /\ seq = m.scripts
         \/ name = "styles" /\ vector = "style" /\ seq = m.styles
         \/ name = "configs" /\ vector = "config" /\ seq = m.configs
  PROVE  Lists(s, at, name, vector, seq)
<1> DEFINE t == RootCalls(m)
           of == Keys(vector, seq)
           p == at[Key(name, 0)]
<1>1. PICK j \in 1 .. 4 : t[j] = Refs(name, of)
  <2>1. /\ t[1] = Refs("langs", Keys("lang", m.langs))
        /\ t[2] = Refs("scripts", Keys("script", m.scripts))
        /\ t[3] = Refs("styles", Keys("style", m.styles))
        /\ t[4] = Refs("configs", Keys("config", m.configs))
    BY RootElements
  <2> HIDE DEF t
  <2> QED BY <2>1
<1>2. Len(t) = 20
  BY RootElements
<1>3. Laid(s, at, in, t)
  OBVIOUS
<1> HIDE DEF t
<1>4. t[j].op = "vector" /\ t[j].as = Key(name, 0) /\ t[j].of = of
  BY <1>1 DEF Refs
<1>5. Len(of) = Len(seq) /\ \A i \in 1 .. Len(seq) : of[i] = Key(vector, i)
  <2>1. DOMAIN seq = 1 .. Len(seq) /\ Len(seq) \in Nat
    BY ForList
  <2>2. of = [i \in 1 .. Len(seq) |-> Key(vector, i)]
    BY <2>1 DEF Keys
  <2> DEFINE n == Len(seq)
  <2> HIDE DEF n, of
  <2>3. of = [i \in 1 .. n |-> Key(vector, i)] /\ n \in Nat
    BY <2>1, <2>2 DEF n
  <2>4. of \in Seq({Key(vector, i) : i \in 1 .. n}) /\ DOMAIN of = 1 .. n
    BY <2>3
  <2> QED BY <2>3, <2>4 DEF n
<1> HIDE DEF of, p
<1>6. /\ ReadU32(s, p) = Len(of)
      /\ \A i \in 1 .. Len(of) : Follow(s, p + 4 * i) = at[of[i]]
  <2>1. j \in 1 .. Len(t) /\ at[t[j].as] = p
    BY <1>2, <1>4 DEF p
  <2>2. /\ ReadU32(s, at[t[j].as]) = Len(t[j].of)
        /\ \A i \in 1 .. Len(t[j].of) : Follow(s, at[t[j].as] + 4 * i) = at[t[j].of[i]]
    BY <1>3, <1>4, <2>1 DEF Laid
  <2> QED BY <1>4, <2>1, <2>2
<1> QED BY <1>5, <1>6 DEF p, Lists

\* The four vectors lead to the tables of their lists.
LEMMA VectorsLaid ==
  ASSUME NEW m, NEW s, NEW at, NEW in, Laid(s, at, in, RootCalls(m)),
         IsList(m.langs), IsList(m.scripts), IsList(m.styles), IsList(m.configs)
  PROVE  /\ Lists(s, at, "langs", "lang", m.langs)
         /\ Lists(s, at, "scripts", "script", m.scripts)
         /\ Lists(s, at, "styles", "style", m.styles)
         /\ Lists(s, at, "configs", "config", m.configs)
BY VectorLaid

\* The entries of configs as they are written.
Codeless(m) == [i \in DOMAIN m.configs |-> [m.configs[i] EXCEPT !.code = None]]

\* The inner FlatBuffer is module m to the parser.
ModuleRead(in, m) ==
  LET root == RootOf(in) IN
  /\ ParseLog(in, root, 4) = Codeless(m) /\ ParseLog(in, root, 5) = m.scripts
  /\ ParseLog(in, root, 6) = m.styles /\ ParseLanguages(in, root, 7) = m.langs
  /\ StringField(in, root, 1) = m.extra /\ StringField(in, root, 2) = m.user
  /\ StringField(in, root, 9) = m.skins /\ StringField(in, root, 11) = m.token
  /\ FieldU32(in, root, 3, 0) = m.checksum /\ FieldU32(in, root, 8, 0) = m.enabled
  /\ FieldU32(in, root, 12, 0) = m.capacity

\* The seven segments of the inner script.
LEMMA ModuleLaid ==
  ASSUME NEW m, IsModule(m)
  PROVE  /\ IsBuffer(ModuleInner(m))
         /\ \A s, at, in : Laid(s, at, in, ModuleInner(m)) =>
              /\ Laid(s, at, in, ConfigCalls(m)) /\ Laid(s, at, in, LogCalls("script", m.scripts))
              /\ Laid(s, at, in, LogCalls("style", m.styles)) /\ Laid(s, at, in, StringCalls(m))
              /\ Laid(s, at, in, ExtraCalls(m)) /\ Laid(s, at, in, LangCalls(m))
              /\ Laid(s, at, in, RootCalls(m))
<1> DEFINE t1 == ConfigCalls(m)
           t2 == LogCalls("script", m.scripts)
           t3 == LogCalls("style", m.styles)
           t4 == StringCalls(m)
           t5 == ExtraCalls(m)
           t6 == LangCalls(m)
           t7 == RootCalls(m)
           u2 == t1 \o t2
           u3 == u2 \o t3
           u4 == u3 \o t4
           u5 == u4 \o t5
           u6 == u5 \o t6
           u7 == u6 \o t7
<1>1. IsList(m.configs) /\ IsList(m.scripts) /\ IsList(m.styles) /\ IsList(m.langs)
  BY DEF IsModule
<1>2. /\ IsBuffer(t1) /\ IsBuffer(t2) /\ IsBuffer(t3) /\ IsBuffer(t4) /\ IsBuffer(t5)
      /\ IsBuffer(t6) /\ IsBuffer(t7)
  BY <1>1, ConfigsLaid, LogLaid, StringsLaid, ExtraLaid, LangsLaid, RootElements
<1>3. ModuleInner(m) = u7
  BY ModuleCalls
<1> HIDE DEF t1, t2, t3, t4, t5, t6, t7
<1>4. IsBuffer(u2)
  BY <1>2, Joined
<1> HIDE DEF u2
<1>5. IsBuffer(u3)
  BY <1>2, <1>4, Joined
<1> HIDE DEF u3
<1>6. IsBuffer(u4)
  BY <1>2, <1>5, Joined
<1> HIDE DEF u4
<1>7. IsBuffer(u5)
  BY <1>2, <1>6, Joined
<1> HIDE DEF u5
<1>8. IsBuffer(u6)
  BY <1>2, <1>7, Joined
<1> HIDE DEF u6
<1>9. IsBuffer(u7)
  BY <1>2, <1>8, Joined
<1>10. ASSUME NEW s, NEW at, NEW in, Laid(s, at, in, u7)
       PROVE  /\ Laid(s, at, in, t1) /\ Laid(s, at, in, t2) /\ Laid(s, at, in, t3)
              /\ Laid(s, at, in, t4) /\ Laid(s, at, in, t5) /\ Laid(s, at, in, t6)
              /\ Laid(s, at, in, t7)
  <2>1. Laid(s, at, in, u6) /\ Laid(s, at, in, t7)
    BY <1>2, <1>8, <1>10, LaidJoined
  <2>2. Laid(s, at, in, u5) /\ Laid(s, at, in, t6)
    BY <1>2, <1>7, <2>1, LaidJoined DEF u6
  <2>3. Laid(s, at, in, u4) /\ Laid(s, at, in, t5)
    BY <1>2, <1>6, <2>2, LaidJoined DEF u5
  <2>4. Laid(s, at, in, u3) /\ Laid(s, at, in, t4)
    BY <1>2, <1>5, <2>3, LaidJoined DEF u4
  <2>5. Laid(s, at, in, u2) /\ Laid(s, at, in, t3)
    BY <1>2, <1>4, <2>4, LaidJoined DEF u3
  <2>6. Laid(s, at, in, t1) /\ Laid(s, at, in, t2)
    BY <1>2, <2>5, LaidJoined DEF u2
  <2> QED BY <2>1, <2>2, <2>3, <2>4, <2>5, <2>6
<1> QED BY <1>3, <1>9, <1>10 DEF t1, t2, t3, t4, t5, t6, t7

\* A module reads as it is, configs without their codes.
LEMMA ModuleReads ==
  ASSUME NEW m, IsModule(m), NEW s, NEW at, NEW in, Laid(s, at, in, ModuleInner(m)),
         RootOf(s) = at[Key("root", 0)]
  PROVE  ModuleRead(s, m)
<1> DEFINE root == RootOf(s)
<1>1. /\ Laid(s, at, in, ConfigCalls(m)) /\ Laid(s, at, in, LogCalls("script", m.scripts))
      /\ Laid(s, at, in, LogCalls("style", m.styles)) /\ Laid(s, at, in, StringCalls(m))
      /\ Laid(s, at, in, ExtraCalls(m)) /\ Laid(s, at, in, LangCalls(m))
      /\ Laid(s, at, in, RootCalls(m))
  BY ModuleLaid
<1>2. /\ IsList(m.configs) /\ IsList(m.scripts) /\ IsList(m.styles) /\ IsList(m.langs)
      /\ \A i \in DOMAIN m.configs : IsEntry(m.configs[i])
      /\ \A i \in DOMAIN m.scripts : IsEntry(m.scripts[i])
      /\ \A i \in DOMAIN m.styles : IsEntry(m.styles[i])
      /\ \A i \in DOMAIN m.langs : IsLanguage(m.langs[i])
  BY DEF IsModule
<1>3. /\ DOMAIN m.configs = 1 .. Len(m.configs) /\ DOMAIN m.scripts = 1 .. Len(m.scripts)
      /\ DOMAIN m.styles = 1 .. Len(m.styles) /\ DOMAIN m.langs = 1 .. Len(m.langs)
  BY <1>2, ForList
<1>4. /\ FieldOffset(s, root, 4) # 0 /\ FieldTarget(s, root, 4) = at[Key("configs", 0)]
      /\ FieldOffset(s, root, 5) # 0 /\ FieldTarget(s, root, 5) = at[Key("scripts", 0)]
      /\ FieldOffset(s, root, 6) # 0 /\ FieldTarget(s, root, 6) = at[Key("styles", 0)]
      /\ FieldOffset(s, root, 7) # 0 /\ FieldTarget(s, root, 7) = at[Key("langs", 0)]
      /\ FieldOffset(s, root, 1) # 0 /\ FieldTarget(s, root, 1) = at[Key("extra", 0)]
      /\ FieldOffset(s, root, 2) # 0 /\ FieldTarget(s, root, 2) = at[Key("user", 0)]
      /\ FieldOffset(s, root, 9) # 0 /\ FieldTarget(s, root, 9) = at[Key("skins", 0)]
      /\ FieldOffset(s, root, 11) # 0 /\ FieldTarget(s, root, 11) = at[Key("token", 0)]
      /\ FieldU32(s, root, 3, 0) = m.checksum /\ FieldU32(s, root, 8, 0) = m.enabled
      /\ FieldU32(s, root, 12, 0) = m.capacity
      /\ BlockAt(s, at[Key("user", 0)]) = m.user
  BY <1>1, RootLaid
<1>5. /\ BlockAt(s, at[Key("extra", 0)]) = m.extra
      /\ BlockAt(s, at[Key("skins", 0)]) = m.skins
      /\ BlockAt(s, at[Key("token", 0)]) = m.token
  BY <1>1, ExtraLaid
<1>11. /\ Lists(s, at, "langs", "lang", m.langs)
       /\ Lists(s, at, "scripts", "script", m.scripts)
       /\ Lists(s, at, "styles", "style", m.styles)
       /\ Lists(s, at, "configs", "config", m.configs)
  BY <1>1, <1>2, VectorsLaid
<1> HIDE DEF root
<1>6. ParseLog(s, root, 4) = Codeless(m)
  <2> DEFINE es == Codeless(m)
             n == Len(m.configs)
             p == at[Key("configs", 0)]
  <2>1. ReadU32(s, p) = n
        /\ \A i \in 1 .. n : Follow(s, p + 4 * i) = at[Key("config", i)]
    BY <1>11 DEF Lists
  <2>2. /\ n \in Nat /\ es = [i \in 1 .. n |-> es[i]]
        /\ \A i \in 1 .. n : es[i] = [m.configs[i] EXCEPT !.code = None]
    BY <1>2, <1>3 DEF IsList, Codeless
  <2>3. ASSUME NEW i \in 1 .. n PROVE IsEntry(es[i]) /\ EntryRead(s, at[Key("config", i)], es[i])
    <3> DEFINE e == m.configs[i]
    <3>1. Laid(s, at, in, ConfigEntry(i, e)) /\ IsEntry(e)
      BY <1>1, <1>2, <1>3, ConfigsLaid
    <3>2. es[i] = [e EXCEPT !.code = None]
      BY <2>2
    <3> HIDE DEF e, es
    <3>3. IsEntry([e EXCEPT !.code = None])
      BY <3>1, WithoutCode
    <3>4. EntryRead(s, at[Key("config", i)], [e EXCEPT !.code = None])
      BY <3>1, ConfigEntryRead
    <3> QED BY <3>2, <3>3, <3>4
  <2>4. FieldOffset(s, root, 4) # 0 /\ p = FieldTarget(s, root, 4)
    BY <1>4
  <2> HIDE DEF es, n, p
  <2>5. Len(es) = n /\ IsList(es)
    <3>1. es \in Seq({es[i] : i \in 1 .. n}) /\ DOMAIN es = 1 .. n
      BY <2>2
    <3> QED BY <2>2, <3>1 DEF IsList
  <2>6. \A i \in 1 .. Len(es) : IsEntry(es[i])
    BY <2>3, <2>5
  <2>7. \A i \in 1 .. Len(es) : EntryRead(s, Follow(s, p + 4 * i), es[i])
    BY <2>1, <2>3, <2>5
  <2>8. ParseLog(s, root, 4) = es
    BY <2>1, <2>4, <2>5, <2>6, <2>7, LogRead
  <2> QED BY <2>8 DEF es
<1>7. ParseLog(s, root, 5) = m.scripts
  <2> DEFINE es == m.scripts
             p == at[Key("scripts", 0)]
  <2>1. ReadU32(s, p) = Len(es)
        /\ \A i \in 1 .. Len(es) : Follow(s, p + 4 * i) = at[Key("script", i)]
    BY <1>11 DEF Lists
  <2>2. ASSUME NEW i \in 1 .. Len(es) PROVE EntryRead(s, at[Key("script", i)], es[i])
    <3>1. Laid(s, at, in, LogEntry("script", i, es[i]))
      BY <1>1, <1>2, LogLaid
    <3> QED BY <3>1, LogEntryRead
  <2>3. IsList(es) /\ \A i \in 1 .. Len(es) : IsEntry(es[i])
    BY <1>2, <1>3
  <2>4. FieldOffset(s, root, 5) # 0 /\ p = FieldTarget(s, root, 5)
    BY <1>4
  <2> HIDE DEF es, p
  <2>5. \A i \in 1 .. Len(es) : EntryRead(s, Follow(s, p + 4 * i), es[i])
    BY <2>1, <2>2
  <2>6. ParseLog(s, root, 5) = es
    BY <2>1, <2>3, <2>4, <2>5, LogRead
  <2> QED BY <2>6 DEF es
<1>8. ParseLog(s, root, 6) = m.styles
  <2> DEFINE es == m.styles
             p == at[Key("styles", 0)]
  <2>1. ReadU32(s, p) = Len(es)
        /\ \A i \in 1 .. Len(es) : Follow(s, p + 4 * i) = at[Key("style", i)]
    BY <1>11 DEF Lists
  <2>2. ASSUME NEW i \in 1 .. Len(es) PROVE EntryRead(s, at[Key("style", i)], es[i])
    <3>1. Laid(s, at, in, LogEntry("style", i, es[i]))
      BY <1>1, <1>2, LogLaid
    <3> QED BY <3>1, LogEntryRead
  <2>3. IsList(es) /\ \A i \in 1 .. Len(es) : IsEntry(es[i])
    BY <1>2, <1>3
  <2>4. FieldOffset(s, root, 6) # 0 /\ p = FieldTarget(s, root, 6)
    BY <1>4
  <2> HIDE DEF es, p
  <2>5. \A i \in 1 .. Len(es) : EntryRead(s, Follow(s, p + 4 * i), es[i])
    BY <2>1, <2>2
  <2>6. ParseLog(s, root, 6) = es
    BY <2>1, <2>3, <2>4, <2>5, LogRead
  <2> QED BY <2>6 DEF es
<1>9. ParseLanguages(s, root, 7) = m.langs
  <2> DEFINE ls == m.langs
             p == at[Key("langs", 0)]
  <2>1. ReadU32(s, p) = Len(ls)
        /\ \A i \in 1 .. Len(ls) : Follow(s, p + 4 * i) = at[Key("lang", i)]
    BY <1>11 DEF Lists
  <2>2. ASSUME NEW i \in 1 .. Len(ls) PROVE LanguageRead(s, at[Key("lang", i)], ls[i])
    <3>1. Laid(s, at, in, LangStrings(i, ls[i]))
      BY <1>1, <1>2, StringsLaid
    <3>2. Laid(s, at, in, LangTable(i, ls[i]))
      BY <1>1, <1>2, LangsLaid
    <3> QED BY <3>1, <3>2, LangTableRead
  <2>3. IsList(ls) /\ \A i \in 1 .. Len(ls) : IsLanguage(ls[i])
    BY <1>2, <1>3
  <2>4. FieldOffset(s, root, 7) # 0 /\ p = FieldTarget(s, root, 7)
    BY <1>4
  <2> HIDE DEF ls, p
  <2>5. \A i \in 1 .. Len(ls) : LanguageRead(s, Follow(s, p + 4 * i), ls[i])
    BY <2>1, <2>2
  <2>6. ParseLanguages(s, root, 7) = ls
    BY <2>1, <2>3, <2>4, <2>5, LanguagesRead
  <2> QED BY <2>6 DEF ls
<1>10. /\ StringField(s, root, 1) = m.extra /\ StringField(s, root, 2) = m.user
       /\ StringField(s, root, 9) = m.skins /\ StringField(s, root, 11) = m.token
  BY <1>4, <1>5 DEF StringField
<1> QED BY <1>4, <1>6, <1>7, <1>8, <1>9, <1>10 DEF ModuleRead, root

\* What the parser makes of the inner FlatBuffer is in m.
InnerReads(m, in) ==
  /\ m.kind = "module" => ModuleRead(in, m)
  /\ m.kind = "create" => CreateRead(in, m)
  /\ m.kind = "case11" => Case11Read(in, m)

\* What is laid of the inner part is read.
LEMMA InnerLaid ==
  ASSUME NEW m \in Inputs, NEW s, NEW at, NEW in, Laid(s, at, in, InnerPart(m)),
         RootOf(s) = at[Key("root", 0)]
  PROVE  InnerReads(m, s)
<1>1. CASE m.kind = "module" /\ IsModule(m)
  <2>1. Laid(s, at, in, ModuleInner(m))
    BY <1>1 DEF InnerPart
  <2>2. ModuleRead(s, m)
    BY <1>1, <2>1, ModuleReads
  <2> QED BY <1>1, <2>2 DEF InnerReads
<1>2. CASE m.kind = "create" /\ IsEntry(m.entry)
  <2>1. Laid(s, at, in, CreateInner(m))
    BY <1>2 DEF InnerPart
  <2>2. CreateRead(s, m)
    BY <1>2, <2>1, CreateReads
  <2> QED BY <1>2, <2>2 DEF InnerReads
<1>3. CASE m.kind = "case11"
  <2>1. Laid(s, at, in, Case11Inner(m))
    BY <1>3 DEF InnerPart
  <2>2. Case11Read(s, m)
    BY <2>1, Case11Reads
  <2> QED BY <1>3, <2>2 DEF InnerReads
<1> QED BY <1>1, <1>2, <1>3, InputsAssumption

\* What is laid of the outer part is read: the frame parses to its input, as
\* it is written.
LEMMA OuterLaid ==
  ASSUME input \in Inputs, NEW s, NEW at, NEW in, Laid(s, at, in, OuterPart(input)),
         RootOf(s) = at[Key("wrapper", 0)], InnerReads(input, in)
  PROVE  Parse(s) = AsWritten(input)
<1> DEFINE root == at[Key("wrapper", 0)]
           type == CASE input.kind = "module" -> input.version
                     [] input.kind = "create" -> 3
                     [] input.kind = "case11" -> 11
<1>1. input.kind \in {"module", "create", "case11"}
  BY InputsAssumption
<1>2. PICK forced : OuterPart(input) = Wrapper(forced, type)
  BY <1>1 DEF OuterPart
<1>3. TypeOf(s) = type /\ PayloadOf(s) = in
  <2> HIDE DEF type
  <2>1. Laid(s, at, in, Wrapper(forced, type))
    BY <1>2
  <2>2. FieldU32(s, root, 0, 0) = type /\ BlockAt(s, FieldTarget(s, root, 1)) = in
    BY <2>1, WrapperRead
  <2> QED BY <2>2 DEF TypeOf, PayloadOf
<1>4. CASE input.kind = "module" /\ IsModule(input)
  <2> DEFINE m == input
  <2>1. Parse(s) = ParseModule(s) /\ TypeOf(s) = m.version /\ ModuleRead(in, m)
    BY <1>3, <1>4 DEF Parse, InnerReads
  <2>2. m.user # None /\ m.token # None
    BY <1>4 DEF IsModule
  <2>3. ParseModule(s) =
           [kind |-> "module", version |-> m.version, configs |-> Codeless(m),
            scripts |-> m.scripts, styles |-> m.styles, langs |-> m.langs,
            extra |-> m.extra, user |-> m.user, skins |-> m.skins, token |-> m.token,
            checksum |-> m.checksum, enabled |-> m.enabled, capacity |-> m.capacity]
    BY <1>3, <2>1, <2>2 DEF ParseModule, ModuleRead, OrEmpty
  <2>4. AsWritten(m) = ParseModule(s)
    <3> DEFINE f == [kind |-> "module", version |-> m.version, configs |-> m.configs,
                     scripts |-> m.scripts, styles |-> m.styles, langs |-> m.langs,
                     extra |-> m.extra, user |-> m.user, skins |-> m.skins, token |-> m.token,
                     checksum |-> m.checksum, enabled |-> m.enabled, capacity |-> m.capacity]
               c == Codeless(m)
    <3>1. m = f
      BY <1>4 DEF IsModule
    <3>2. AsWritten(m) = [m EXCEPT !.configs = c]
      BY <1>4 DEF AsWritten, Codeless
    <3> HIDE DEF c
    <3>3. [f EXCEPT !.configs = c] =
            [kind |-> "module", version |-> m.version, configs |-> c,
             scripts |-> m.scripts, styles |-> m.styles, langs |-> m.langs,
             extra |-> m.extra, user |-> m.user, skins |-> m.skins, token |-> m.token,
             checksum |-> m.checksum, enabled |-> m.enabled, capacity |-> m.capacity]
      OBVIOUS
    <3>4. [m EXCEPT !.configs = c] = [f EXCEPT !.configs = c]
      <4> HIDE DEF f
      <4> QED BY <3>1
    <3> QED BY <2>3, <3>2, <3>3, <3>4 DEF c
  <2> QED BY <2>1, <2>4
<1>5. CASE input.kind = "create" /\ input = [kind |-> "create", type |-> input.type,
                                             entry |-> input.entry]
  <2>1. Parse(s) = ParseCreate(s) /\ CreateRead(in, input)
    BY <1>5 DEF Parse, InnerReads
  <2>2. ParseCreate(s) = [kind |-> "create", type |-> input.type, entry |-> input.entry]
    BY <1>3, <2>1 DEF ParseCreate, CreateRead
  <2> QED BY <1>5, <2>1, <2>2 DEF AsWritten
<1>6. CASE input.kind = "case11" /\ input = [kind |-> "case11", id |-> input.id,
                                             text |-> input.text]
  <2>1. Parse(s) = ParseCase11(s) /\ Case11Read(in, input)
    BY <1>6 DEF Parse, InnerReads
  <2>2. ParseCase11(s) = [kind |-> "case11", id |-> input.id, text |-> input.text]
    BY <1>3, <2>1 DEF ParseCase11, Case11Read
  <2> QED BY <1>6, <2>1, <2>2 DEF AsWritten
<1> QED BY <1>4, <1>5, <1>6, InputsAssumption

-----------------------------------------------------------------------------
(* Finishing. *)

\* The script before its finish.
LEMMA FrontOf ==
  ASSUME NEW t, NEW name, Finishes(t, name)
  PROVE  /\ IsBuffer(Front(t)) /\ Len(Front(t)) = Len(t) - 1 /\ Len(t) \in Nat \ {0}
         /\ \A i \in 1 .. Len(t) - 1 : Front(t)[i] = t[i]
         /\ t[Len(t)].op = "finish" /\ t[Len(t)].of = Key(name, 0)
<1> DEFINE u == Front(t)
           n == Len(t) - 1
<1>1. Len(t) \in Nat \ {0} /\ t[Len(t)].op = "finish" /\ t[Len(t)].of = Key(name, 0)
  BY Buffers DEF Finishes
<1>2. n \in Nat
  BY <1>1
<1>3. u = [i \in 1 .. n |-> t[i]]
  <2>1. PICK S : t \in Seq(S)
    BY DEF Finishes, IsBuffer
  <2>2. u = SubSeq(t, 1, n)
    BY DEF Front
  <2> QED BY <1>1, <2>1, <2>2
<1> HIDE DEF n, u
<1>4. u \in Seq({t[i] : i \in 1 .. n}) /\ DOMAIN u = 1 .. n /\ \A i \in 1 .. n : u[i] = t[i]
  BY <1>2, <1>3
<1>5. IsBuffer(u) /\ Len(u) = n
  BY <1>2, <1>4 DEF IsBuffer
<1> QED BY <1>1, <1>4, <1>5 DEF n, u

\* A finish makes nothing.
LEMMA LaidFinished ==
  ASSUME NEW t, NEW name, Finishes(t, name), NEW s, NEW at, NEW in, Laid(s, at, in, Front(t))
  PROVE  Laid(s, at, in, t)
<1> DEFINE u == Front(t)
           n == Len(t) - 1
<1>1. /\ Len(t) \in Nat /\ n \in Nat /\ n + 1 = Len(t) /\ Len(u) = n
      /\ \A i \in 1 .. n : u[i] = t[i]
      /\ t[Len(t)].op = "finish"
  BY FrontOf
<1>2. Laid(s, at, in, u)
  OBVIOUS
<1> HIDE DEF u, n
<1>3. ASSUME NEW j \in 1 .. n, NEW i \in 1 .. j - 1, Open(t, i, j), t[j].op = "end"
      PROVE  TableLaid(s, at, t, i, j)
  <2>1. \A k \in i .. j : k \in 1 .. n /\ u[k] = t[k]
    BY <1>1
  <2>2. i \in i .. j /\ j \in i .. j /\ \A k \in i + 1 .. j - 1 : k \in i .. j
    BY <1>1
  <2>3. Open(u, i, j)
    BY <1>3, <2>1, <2>2 DEF Open
  <2>4. TableLaid(s, at, u, i, j)
    BY <1>1, <1>2, <1>3, <2>1, <2>2, <2>3 DEF Laid
  <2>5. u[j].as = t[j].as /\ \A k \in i + 1 .. j - 1 : u[k] = t[k]
    BY <2>1, <2>2
  <2> QED BY <2>4, <2>5 DEF TableLaid
<1>4. ASSUME NEW j \in 1 .. n
      PROVE  /\ t[j].op \in {"string", "bytes"} => BlockAt(s, at[t[j].as]) = t[j].bytes
             /\ t[j].op = "payload" => BlockAt(s, at[t[j].as]) = in
             /\ t[j].op = "vector" =>
                  /\ ReadU32(s, at[t[j].as]) = Len(t[j].of)
                  /\ \A i \in 1 .. Len(t[j].of) :
                       Follow(s, at[t[j].as] + 4 * i) = at[t[j].of[i]]
  BY <1>1, <1>2 DEF Laid
<1>5. \A j \in 1 .. Len(t) : j \in 1 .. n \/ j = Len(t)
  BY <1>1
<1> QED BY <1>1, <1>3, <1>4, <1>5 DEF Laid

\* What is left of a sequence that is not empty.
LEMMA TailOf ==
  ASSUME NEW t, IsBuffer(t), t # <<>>
  PROVE  Len(t) \in Nat /\ Len(t) >= 1 /\ (Len(t) = 1 <=> Tail(t) = <<>>)
<1>1. PICK S : t \in Seq(S)
  BY DEF IsBuffer
<1>2. Len(t) \in Nat /\ Len(t) >= 1 /\ Tail(t) \in Seq(S) /\ Len(Tail(t)) = Len(t) - 1
  BY <1>1
<1>3. \A u \in Seq(S) : u = <<>> <=> Len(u) = 0
  OBVIOUS
<1>4. Tail(t) = <<>> <=> Len(Tail(t)) = 0
  BY <1>2, <1>3
<1> QED BY <1>2, <1>4

\* Where in the script a finish is.
LEMMA FinishPlace ==
  ASSUME PlaceInv, Call("finish"), UNCHANGED input
  PROVE  LET x == InnerPart(input)
             y == OuterPart(input) IN
         /\ PartAt(Calls, 0, x) /\ PartAt(Calls, Len(x), y) /\ Len(Calls) = Len(x) + Len(y)
         /\ Finishes(x, "root") /\ Finishes(y, "wrapper")
         /\ \/ Done + 1 = Len(x) /\ Done + 1 < Len(Calls) /\ todo' # <<>>
            \/ Done + 1 = Len(Calls) /\ Done + 1 > Len(x) /\ todo' = <<>>
         /\ \A i \in 1 .. Done : Calls[i].op = "finish" => i = Len(x) /\ i < Len(Calls)
<1> DEFINE x == InnerPart(input)
           y == OuterPart(input)
           n == Len(x)
           c == Calls
<1>1. /\ Done \in Nat /\ Len(c) \in Nat /\ Done + 1 \in 1 .. Len(c)
      /\ c[Done + 1].op = "finish"
      /\ input \in Inputs
  BY Calling DEF PlaceInv
<1>2. c = x \o y /\ Finishes(x, "root") /\ Finishes(y, "wrapper")
  BY <1>1, ScriptParts DEF Calls
<1>3. /\ IsBuffer(x) /\ IsBuffer(y) /\ n \in Nat /\ n >= 1 /\ Len(y) >= 1 /\ Len(y) \in Nat
      /\ x[n].op = "finish"
  BY <1>2, Buffers DEF Finishes
<1>4. PartAt(c, 0, x) /\ PartAt(c, n, y) /\ Len(c) = n + Len(y)
  BY <1>2, <1>3, Joined
<1>5. \A i \in 1 .. Len(c) : InOrder(c, i)
  BY <1>1, ScriptCalls
<1>6. todo' = Tail(todo) /\ IsBuffer(todo) /\ todo # <<>> /\ Done = Len(c) - Len(todo)
  BY DEF Call, PlaceInv, Done
<1> HIDE DEF x, y, c
<1>7. c[n].op = "finish"
  <2>1. c[0 + n] = x[n] /\ 0 + n = n
    BY <1>3, <1>4 DEF PartAt
  <2> QED BY <1>3, <2>1
<1> HIDE DEF n
<1>8. n < Len(c)
  BY <1>3, <1>4
<1>9. ASSUME NEW i \in 1 .. Len(c), c[i].op = "finish", i < Len(c) PROVE i = n
  <2>1. \A j \in 1 .. i - 1 : c[j].op # "finish"
    BY <1>5, <1>9 DEF InOrder
  <2>2. \A j \in 1 .. n - 1 : c[j].op # "finish"
    <3>1. n \in 1 .. Len(c)
      BY <1>3, <1>8
    <3> QED BY <1>5, <1>7, <1>8, <3>1 DEF InOrder
  <2>3. CASE i < n
    <3>1. i \in 1 .. n - 1
      BY <1>3, <2>3
    <3> QED BY <1>9, <2>2, <3>1
  <2>4. CASE n < i
    <3>1. n \in 1 .. i - 1
      BY <1>3, <2>4
    <3> QED BY <1>7, <2>1, <3>1
  <2> QED BY <1>3, <2>3, <2>4
<1>10. Len(todo) \in Nat /\ Len(todo) >= 1 /\ (Len(todo) = 1 <=> todo' = <<>>)
  BY <1>6, TailOf
<1>11. /\ Done + 1 < Len(c) => Done + 1 = n /\ todo' # <<>>
       /\ Done + 1 = Len(c) => todo' = <<>>
  <2>1. Done + 1 < Len(c) => Done + 1 = n
    BY <1>1, <1>9
  <2> DEFINE d == Done
             l == Len(c)
             r == Len(todo)
  <2>2. d \in Nat /\ l \in Nat /\ r \in Nat /\ d = l - r
    BY <1>1, <1>6, <1>10
  <2> HIDE DEF d, l, r
  <2>3. (d + 1 < l => r # 1) /\ (d + 1 = l => r = 1)
    BY <2>2
  <2> QED BY <1>10, <2>1, <2>3 DEF d, l, r
<1>12. \A i \in 1 .. Done : c[i].op = "finish" => i = n /\ i < Len(c)
  BY <1>1, <1>9
<1>13. Done + 1 < Len(c) \/ Done + 1 = Len(c)
  BY <1>1
<1> QED BY <1>2, <1>4, <1>8, <1>11, <1>12, <1>13 DEF x, y, n, c

-----------------------------------------------------------------------------
(* The invariant. *)

\* The invariant for parsing: what the objects were made of, what the inner
\* FlatBuffer says once it is finished, and what the frame parses to.
ParseInv ==
  /\ GivenInv
  /\ (inner # None /\ todo # <<>> /\ lost = {} /\ Len(inner) < U32Size \div 2) =>
       InnerReads(input, inner)
  /\ frame # None => todo = <<>>
  /\ FrameParses

\* What a call makes has no name yet.
LEMMA FreshName ==
  ASSUME PlaceInv, NamesInv, NEW op \in {"string", "bytes", "payload", "vector", "end"},
         Call(op), UNCHANGED input
  PROVE  Head(todo).as \notin DOMAIN refs
<1>1. /\ Done \in Nat /\ Head(todo) = Calls[Done + 1] /\ InOrder(Calls, Done + 1)
      /\ (Done + 1) - 1 = Done /\ Calls[Done + 1].op = op /\ todo # <<>>
  BY Calling
<1>2. Makes(Calls[Done + 1])
  BY <1>1 DEF Makes
<1>3. ~ \E j \in 1 .. Done : MadeFor(Calls, j, Done + 1) /\ Calls[j].as = Calls[Done + 1].as
  BY <1>1, <1>2 DEF InOrder
<1> QED BY <1>1, <1>3 DEF NamesInv

\* What a call adds to the open table, the table has not got yet.
LEMMA FreshField ==
  ASSUME PlaceInv, GivenInv, NEW op \in {"u32", "offset"}, Call(op), UNCHANGED input
  PROVE  Head(todo).id \notin DOMAIN row
<1>1. /\ Done \in Nat /\ Head(todo) = Calls[Done + 1] /\ InOrder(Calls, Done + 1)
      /\ (Done + 1) - 1 = Done /\ Calls[Done + 1].op = op
  BY Calling
<1>2. Adds(Calls[Done + 1])
  BY <1>1 DEF Adds
<1>3. PICK j \in 1 .. Done : /\ Open(Calls, j, Done + 1)
                             /\ \A k \in j + 1 .. Done :
                                  Adds(Calls[k]) => Calls[k].id # Calls[Done + 1].id
  BY <1>1, <1>2 DEF InOrder
<1>4. RowIs(Calls, row, j, Done)
  BY <1>3 DEF GivenInv
<1> QED BY <1>1, <1>3, <1>4 DEF RowIs

\* Every call keeps GivenInv.
LEMMA GivenNext ==
  ASSUME FrameInv, GivenInv, Next
  PROVE  GivenInv'
<1>1. PlaceInv /\ NamesInv /\ OpenInv
  BY DEF FrameInv
<1>2. CASE ForceDefaults \/ PushGap
  <2>1. PICK op \in {"force", "zeros"} : Call(op)
    BY <1>2 DEF ForceDefaults, PushGap
  <2>2. UNCHANGED <<input, inner, made, row>>
    BY <1>2 DEF ForceDefaults, PushGap
  <2> QED BY <1>1, <2>1, <2>2, GivenStays
<1>3. CASE MakeString \/ MakeBytes \/ MakePayload \/ MakeVector
  <2>1. UNCHANGED <<input, inner, row>>
    BY <1>3 DEF MakeString, MakeBytes, MakePayload, MakeVector
  <2>2. CASE MakeString
    <3>1. /\ Call("string")
          /\ made' = With(made, Head(todo).as, [kind |-> "string", bytes |-> Head(todo).bytes])
      BY <2>2 DEF MakeString, Names
    <3>2. Head(todo).as \notin DOMAIN refs
      BY <1>1, <2>1, <3>1, FreshName
    <3> QED BY <1>1, <2>1, <3>1, <3>2, GivenMakes
  <2>3. CASE MakeBytes
    <3>1. /\ Call("bytes")
          /\ made' = With(made, Head(todo).as, [kind |-> "bytes", bytes |-> Head(todo).bytes])
      BY <2>3 DEF MakeBytes, Names
    <3>2. Head(todo).as \notin DOMAIN refs
      BY <1>1, <2>1, <3>1, FreshName
    <3> QED BY <1>1, <2>1, <3>1, <3>2, GivenMakes
  <2>4. CASE MakePayload
    <3>1. /\ Call("payload")
          /\ made' = With(made, Head(todo).as, [kind |-> "bytes", bytes |-> inner])
      BY <2>4 DEF MakePayload, Names
    <3>2. Head(todo).as \notin DOMAIN refs
      BY <1>1, <2>1, <3>1, FreshName
    <3> QED BY <1>1, <2>1, <3>1, <3>2, GivenMakes
  <2>5. CASE MakeVector
    <3>1. /\ Call("vector")
          /\ made' = With(made, Head(todo).as, [kind |-> "vector", of |-> Head(todo).of])
      BY <2>5 DEF MakeVector, Names
    <3>2. Head(todo).as \notin DOMAIN refs
      BY <1>1, <2>1, <3>1, FreshName
    <3> QED BY <1>1, <2>1, <3>1, <3>2, GivenMakes
  <2> QED BY <1>3, <2>2, <2>3, <2>4, <2>5
<1>4. CASE OpenTable
  BY <1>1, <1>4, GivenStarts DEF OpenTable
<1>5. CASE AddScalar \/ AddReference
  <2>1. UNCHANGED <<input, inner, made>>
    BY <1>5 DEF AddScalar, AddReference
  <2>2. PICK op \in {"u32", "offset"} :
          Call(op) /\ row' = With(row, Head(todo).id, Given(Head(todo)))
    BY <1>5 DEF AddScalar, AddReference, Given, Call
  <2>3. Head(todo).id \notin DOMAIN row
    BY <1>1, <2>1, <2>2, FreshField
  <2> QED BY <1>1, <2>1, <2>2, <2>3, GivenAdds
<1>6. CASE CloseTable
  <2>1. /\ Call("end") /\ UNCHANGED <<input, inner, row>>
        /\ made' = With(made, Head(todo).as, [kind |-> "table", row |-> row])
    BY <1>6 DEF CloseTable
  <2>2. Head(todo).as \notin DOMAIN refs
    BY <1>1, <2>1, FreshName
  <2> QED BY <1>1, <2>1, <2>2, GivenEnds
<1>7. CASE FinishBuffer
  <2>1. Call("finish") /\ UNCHANGED input
    BY <1>7 DEF FinishBuffer
  <2> QED BY <1>1, <2>1, GivenFinish
<1> QED BY <1>2, <1>3, <1>4, <1>5, <1>6, <1>7 DEF Next

\* A call that finishes nothing.
LEMMA ParseStays ==
  ASSUME ParseInv, NEW op, Call(op), GivenInv', UNCHANGED <<input, inner, frame>>,
         lost \subseteq lost'
  PROVE  ParseInv'
<1>1. todo # <<>> /\ frame' = None
  BY DEF Call, ParseInv
<1>2. lost' = {} => lost = {}
  OBVIOUS
<1>3. (inner' # None /\ todo' # <<>> /\ lost' = {} /\ Len(inner') < U32Size \div 2) =>
        InnerReads(input', inner')
  BY <1>1, <1>2 DEF ParseInv
<1> QED BY <1>1, <1>3 DEF ParseInv, FrameParses

\* The end of the inner FlatBuffer.
LEMMA InnerFinish ==
  ASSUME FrameInv, ParseInv, FinishBuffer, todo' # <<>>
  PROVE  /\ inner = None /\ frame' = None
         /\ (lost = {} /\ Len(inner') < U32Size \div 2) => InnerReads(input, inner')
<1> DEFINE x == InnerPart(input)
           y == OuterPart(input)
           t == Front(x)
           s == Finish(b, refs[Head(todo).of])
           at == [key \in DOMAIN refs |-> Len(s) - refs[key]]
<1>1. PlaceInv /\ NamesInv /\ InnerInv /\ GivenInv /\ input \in Inputs
  BY DEF FrameInv, ParseInv, PlaceInv
<1>2. Call("finish") /\ UNCHANGED input /\ todo # <<>>
  BY DEF FinishBuffer, Call
<1>3. /\ PartAt(Calls, 0, x) /\ Finishes(x, "root") /\ Done + 1 = Len(x)
      /\ \A i \in 1 .. Done : Calls[i].op = "finish" => i = Len(x)
  BY <1>1, <1>2, FinishPlace
<1>4. Done \in Nat /\ Head(todo) = Calls[Done + 1]
  BY <1>1, <1>2, Calling
<1>5. \A i \in 1 .. Done : Calls[i].op # "finish"
  BY <1>3, <1>4
<1>6. inner = None
  BY <1>1, <1>5 DEF InnerInv
<1>7. frame = None
  BY <1>2 DEF ParseInv
<1>8. inner' = s /\ frame' = frame
  BY <1>6 DEF FinishBuffer
<1>9. ASSUME lost = {}, Len(s) < U32Size \div 2 PROVE InnerReads(input, s)
  <2>1. /\ IsBuffer(t) /\ Len(t) = Len(x) - 1
        /\ \A i \in 1 .. Len(x) - 1 : t[i] = x[i]
        /\ x[Len(x)].of = Key("root", 0) /\ Len(x) \in Nat
    BY <1>3, FrontOf
  <2> HIDE DEF t, x, s
  <2>2. Len(t) = Done /\ 0 + Len(t) = Done
    BY <1>3, <1>4, <2>1
  <2>3. PartAt(Calls, 0, t)
    <3>1. 0 + Len(x) <= Len(Calls) /\ \A i \in 1 .. Len(x) : Calls[0 + i] = x[i]
      BY <1>3 DEF PartAt
    <3>2. 0 + Len(t) <= Len(Calls)
      <4>1. Len(Calls) \in Nat
        BY <1>1, ScriptCalls
      <4> QED BY <2>1, <3>1, <4>1
    <3>3. \A i \in 1 .. Len(t) : Calls[0 + i] = t[i]
      <4>1. \A i \in 1 .. Len(t) : i \in 1 .. Len(x) /\ t[i] = x[i]
        BY <2>1
      <4> QED BY <3>1, <4>1
    <3> QED BY <3>2, <3>3 DEF PartAt
  <2>4. \A i \in 1 .. Len(t) : t[i].op # "finish"
    <3>1. \A i \in 1 .. Len(t) : Calls[0 + i] = t[i] /\ 0 + i = i
      BY <2>3 DEF PartAt
    <3> QED BY <1>5, <2>2, <3>1
  <2>5. Laid(s, at, inner, t) /\ RootOf(s) = at[Head(todo).of]
    <3> DEFINE o == 0
    <3>1. s = Finish(b, refs[Head(todo).of]) /\ Len(s) < U32Size \div 2 /\ lost = {}
      BY <1>9 DEF s
    <3>2. PartAt(Calls, o, t) /\ o + Len(t) = Done
      BY <2>2, <2>3
    <3> HIDE DEF o
    <3> QED BY <1>1, <1>2, <2>1, <2>4, <3>1, <3>2, FinishLaid
  <2>6. Head(todo).of = Key("root", 0)
    <3>1. Calls[0 + Len(x)] = x[Len(x)] /\ 0 + Len(x) = Done + 1
      BY <1>3, <1>4, <2>1 DEF PartAt, Finishes
    <3> QED BY <1>4, <2>1, <3>1
  <2> HIDE DEF at
  <2>7. Laid(s, at, inner, x)
    BY <1>3, <2>5, LaidFinished DEF t
  <2> QED BY <1>1, <2>5, <2>6, <2>7, InnerLaid DEF x
<1> QED BY <1>6, <1>7, <1>8, <1>9

\* The outer part has a payload.
LEMMA OuterPayload ==
  ASSUME NEW m \in Inputs
  PROVE  LET y == OuterPart(m) IN \E i \in 1 .. Len(y) : y[i].op = "payload" /\ i # Len(y)
<1>1. PICK forced, type : OuterPart(m) = Wrapper(forced, type)
  BY InputsAssumption DEF OuterPart
<1> DEFINE x == When(forced, <<ForceCall>>)
           y == WrapperEnd(type)
           z == x \o y
           n == Len(x)
<1>2. z = OuterPart(m) /\ IsBuffer(x) /\ IsBuffer(y) /\ Len(y) = 6 /\ y[1] = Payload
  BY <1>1, WrapperBuffer
<1> HIDE DEF x, y
<1>3. n \in Nat /\ Len(z) = n + 6 /\ PartAt(z, n, y)
  BY <1>2, Joined
<1> HIDE DEF z, n
<1>4. z[n + 1] = Payload
  BY <1>2, <1>3 DEF PartAt
<1>5. n + 1 \in 1 .. Len(z) /\ n + 1 # Len(z)
  BY <1>3
<1> QED BY <1>2, <1>4, <1>5 DEF Payload

\* The end of the frame.
LEMMA OuterFinish ==
  ASSUME FrameInv, ParseInv, FinishBuffer, todo' = <<>>, frame' # None,
         lost = {}, Len(frame') < U32Size \div 2
  PROVE  Parse(frame') = AsWritten(input)
<1> DEFINE x == InnerPart(input)
           y == OuterPart(input)
           t == Front(y)
           o == Len(x)
           s == Finish(b, refs[Head(todo).of])
           at == [key \in DOMAIN refs |-> Len(s) - refs[key]]
<1>1. PlaceInv /\ NamesInv /\ InnerInv /\ GivenInv /\ input \in Inputs
  BY DEF FrameInv, ParseInv, PlaceInv
<1>2. Call("finish") /\ UNCHANGED input /\ todo # <<>>
  BY DEF FinishBuffer, Call
<1>3. /\ PartAt(Calls, o, y) /\ Finishes(x, "root") /\ Finishes(y, "wrapper")
      /\ Done + 1 = Len(Calls) /\ Done + 1 > o /\ Len(Calls) = o + Len(y)
      /\ \A i \in 1 .. Done : Calls[i].op = "finish" => i = o
  BY <1>1, <1>2, FinishPlace
<1>4. Done \in Nat /\ Head(todo) = Calls[Done + 1]
  BY <1>1, <1>2, Calling
<1>5. frame = None
  BY <1>2 DEF ParseInv
<1>6. inner # None /\ frame' = s
  BY <1>5 DEF FinishBuffer
<1>7. /\ IsBuffer(t) /\ Len(t) = Len(y) - 1 /\ Len(y) \in Nat \ {0}
      /\ \A i \in 1 .. Len(y) - 1 : t[i] = y[i]
      /\ y[Len(y)].of = Key("wrapper", 0)
  BY <1>3, FrontOf
<1>8. o \in Nat
  BY <1>3, Buffers DEF Finishes
<1> HIDE DEF t, x, y, s, o
<1>9. o + Len(t) = Done
  BY <1>3, <1>4, <1>7, <1>8
<1>10. PartAt(Calls, o, t)
  BY <1>3, <1>7, <1>8 DEF PartAt
<1>11. \A i \in 1 .. Len(t) : t[i].op # "finish"
  <2>1. \A i \in 1 .. Len(t) : Calls[o + i] = t[i] /\ o + i \in 1 .. Done /\ o + i # o
    BY <1>7, <1>8, <1>9, <1>10 DEF PartAt
  <2> QED BY <1>3, <2>1
<1>12. /\ Laid(s, at, inner, t) /\ RootOf(s) = at[Head(todo).of]
       /\ \A i \in 1 .. Len(t) : t[i].op = "payload" => Len(inner) < U32Size \div 2
  <2>1. s = Finish(b, refs[Head(todo).of]) /\ Len(s) < U32Size \div 2
    BY <1>6 DEF s
  <2> QED BY <1>1, <1>2, <1>7, <1>9, <1>10, <1>11, <2>1, FinishLaid
<1>13. Head(todo).of = Key("wrapper", 0)
  <2>1. Calls[o + Len(y)] = y[Len(y)]
    BY <1>3, <1>7 DEF PartAt
  <2> QED BY <1>3, <1>4, <1>7, <2>1
<1>14. Len(inner) < U32Size \div 2
  <2>1. \E i \in 1 .. Len(t) : t[i].op = "payload"
    <3>1. \E i \in 1 .. Len(y) : y[i].op = "payload" /\ i # Len(y)
      BY <1>1, OuterPayload DEF y
    <3> QED BY <1>7, <3>1
  <2> QED BY <1>12, <2>1
<1>15. InnerReads(input, inner)
  BY <1>2, <1>6, <1>14 DEF ParseInv
<1> HIDE DEF at
<1>16. Laid(s, at, inner, y)
  BY <1>3, <1>12, LaidFinished DEF t
<1>17. Parse(s) = AsWritten(input)
  BY <1>1, <1>12, <1>13, <1>15, <1>16, OuterLaid DEF y
<1> QED BY <1>6, <1>17

\* Every call keeps the invariant.
LEMMA ParseStep == FrameInv /\ ParseInv /\ Next => ParseInv'
<1> SUFFICES ASSUME FrameInv, ParseInv, Next PROVE ParseInv'
  OBVIOUS
<1>1. GivenInv'
  BY GivenNext DEF ParseInv
<1>2. CASE FinishBuffer
  <2>1. UNCHANGED <<input, lost>>
    BY <1>2 DEF FinishBuffer
  <2>2. CASE todo' = <<>>
    <3>1. FrameParses'
      <4>1. ASSUME frame' # None, lost' = {}, Len(frame') < U32Size \div 2
            PROVE  Parse(frame)' = AsWritten(input')
        <5>1. Parse(frame') = AsWritten(input)
          BY <1>2, <2>1, <2>2, <4>1, OuterFinish
        <5> QED BY <2>1, <5>1 DEF Parse, ParseModule, ParseCreate, ParseCase11
      <4> QED BY <4>1 DEF FrameParses, AsWritten
    <3> QED BY <1>1, <2>2, <3>1 DEF ParseInv
  <2>3. CASE todo' # <<>>
    <3>1. /\ frame' = None
          /\ (lost = {} /\ Len(inner') < U32Size \div 2) => InnerReads(input, inner')
      BY <1>2, <2>3, InnerFinish
    <3> QED BY <1>1, <2>1, <3>1 DEF ParseInv, FrameParses
  <2> QED BY <2>2, <2>3
<1>3. CASE ~FinishBuffer
  <2>1. /\ UNCHANGED <<input, inner, frame>> /\ lost \subseteq lost'
        /\ \E op : Call(op)
    BY <1>3 DEF Next, ForceDefaults, MakeString, MakeBytes, MakePayload, MakeVector, PushGap,
                OpenTable, AddScalar, AddReference, CloseTable
  <2> QED BY <1>1, <2>1, ParseStays
<1> QED BY <1>2, <1>3

\* It holds before the first call,
LEMMA ParseStart == Init => ParseInv
<1> SUFFICES ASSUME Init PROVE ParseInv
  OBVIOUS
<1>1. inner = None /\ frame = None /\ Done = 0
  <2>1. input \in Inputs /\ todo = Calls
    BY DEF Init, Calls
  <2> QED BY <2>1, ScriptCalls DEF Init, Done
<1>2. GivenInv
  BY <1>1 DEF GivenInv
<1> QED BY <1>1, <1>2 DEF ParseInv, FrameParses

\* and when nothing changes.
LEMMA ParseStutter == ParseInv /\ UNCHANGED vars => ParseInv'
<1> SUFFICES ASSUME ParseInv, UNCHANGED vars PROVE ParseInv'
  OBVIOUS
<1>1. UNCHANGED <<input, todo, b, inner, frame, refs, made, row, lost>>
  BY DEF vars
<1>2. Calls' = Calls /\ Done' = Done
  BY <1>1 DEF Calls, Done
<1>3. GivenInv'
  BY <1>1, <1>2 DEF ParseInv, GivenInv
<1>4. FrameParses'
  BY <1>1 DEF ParseInv, FrameParses, Parse, ParseModule, ParseCreate, ParseCase11, AsWritten
<1> QED BY <1>1, <1>3, <1>4 DEF ParseInv

-----------------------------------------------------------------------------
(* Theorem. *)

\* A frame that was built parses to what it was built from, an entry of configs
\* without its code: the wrapper gives
\* its type and its payload, and the payload every entry of configs, scripts
\* and styles, every language in its place and the fields of the module, in the
\* bytes that Builder.finish returns; or the one of the two replies.  Frames in
\* which end_table lost a table are left out, and those of 2 GiB and more, which
\* an soffset does not span.
THEOREM FramesParse == Spec => []FrameParses
<1>1. ParseInv => FrameParses
  BY DEF ParseInv
<1> QED BY <1>1, FrameInvariant, ParseStart, ParseStep, ParseStutter, PTL DEF Spec
=================================================================================
