------------------------------ MODULE FlatBuilder ------------------------------
(***************************************************************************)
(* FlatccBuilder (nl_parser/src/flatcc_builder/mod.rs), which lays out     *)
(* every FlatBuffer the server sends.  The buffer fills from its end: data *)
(* lives in buf[head..], an object is named by its distance from the end   *)
(* (a Ref), and everything before head is free and expected to be zero.    *)
(* A builder is a record, an operation of the code an operator on it; an   *)
(* operation that returns a Ref returns it as UsedSpace of its result.     *)
(*                                                                         *)
(* Base is the number of values of a byte, 256 in the code.  Addresses     *)
(* count from 0 as in the code, so address a is buf[a + 1].                *)
(***************************************************************************)
EXTENDS Integers, SequencesExt

CONSTANTS
  Base,        \* the values of a byte
  InitialCap   \* the bytes FlatccBuilder::new allocates

ASSUME BaseAssumption == Base \in Nat \ {0, 1}

ASSUME InitialCapAssumption == InitialCap \in Nat \ {0}

Byte == 0 .. (Base - 1)

Zeros(n) == [i \in 1 .. n |-> 0]

\* How many values a u16 and a u32 have.
U16Size == Base * Base
U32Size == U16Size * U16Size

\* n little-endian bytes of v; a narrowing cast (as u16) drops the rest.
LE(n, v) ==
  LET weight == <<1, Base, U16Size, Base * U16Size>>
  IN [i \in 1 .. n |-> (v \div weight[i]) % Base]

\* The words of a sequence, n bytes each.
Words(n, ws) ==
  [i \in 1 .. n * Len(ws) |-> LE(n, ws[(i - 1) \div n + 1])[((i - 1) % n) + 1]]

ReadU16(bytes, at) == bytes[at + 1] + Base * bytes[at + 2]

ReadU32(bytes, at) == ReadU16(bytes, at) + U16Size * ReadU16(bytes, at + 2)

ReadI32(bytes, at) ==
  LET v == ReadU32(bytes, at) IN IF v < U32Size \div 2 THEN v ELSE v - U32Size

-----------------------------------------------------------------------------
(* The buffer. *)

New ==
  [buf |-> Zeros(InitialCap), head |-> InitialCap, minAlign |-> 1,
   forceDefaults |-> FALSE, tableStart |-> 0, fieldCount |-> 0, fields |-> {},
   inTable |-> FALSE, vtables |-> {}]

Cap(b) == Len(b.buf)

UsedSpace(b) == Cap(b) - b.head

\* Bound: a size beyond 2^30 bytes is not rounded.
NextPowerOfTwo(n) ==
  LET fits == {k \in 0 .. 30 : 2 ^ k >= n} IN
  IF fits = {} THEN n ELSE 2 ^ Min(fits)

\* Mutant: the free part keeps what was there before the data moved.
GrowDirty(b, additional) ==
  IF b.head >= additional THEN b
  ELSE LET grown == NextPowerOfTwo(Cap(b) + additional - b.head) - Cap(b) IN
       [b EXCEPT !.buf  = [i \in 1 .. grown + Cap(b) |->
                             IF i > grown + b.head THEN b.buf[i - grown]
                             ELSE IF i <= Cap(b) THEN b.buf[i] ELSE 0],
                 !.head = @ + grown]

\* Mutant: the data stays where it is, the new bytes come behind it.
GrowInPlace(b, additional) ==
  IF b.head >= additional THEN b
  ELSE LET grown == NextPowerOfTwo(Cap(b) + additional - b.head) - Cap(b) IN
       [b EXCEPT !.buf = @ \o Zeros(grown), !.head = @ + grown]

\* The data moves to the end of a larger buffer; what was free comes back
\* zeroed.
Grow(b, additional) ==
  IF b.head >= additional THEN b
  ELSE LET grown == NextPowerOfTwo(Cap(b) + additional - b.head) - Cap(b) IN
       [b EXCEPT !.buf  = Zeros(grown + b.head) \o SubSeq(@, b.head + 1, Len(@)),
                 !.head = @ + grown]

WriteAt(b, at, bytes) ==
  [b EXCEPT !.buf = [i \in DOMAIN @ |-> IF i - at \in DOMAIN bytes THEN bytes[i - at]
                                                                  ELSE @[i]]]

\* Moves head over n bytes without writing them.
Skip(b, n) == LET g == Grow(b, n) IN [g EXCEPT !.head = @ - n]

PushBytes(b, bytes) == LET g == Skip(b, Len(bytes)) IN WriteAt(g, g.head, bytes)

PushU32(b, v) == PushBytes(b, LE(4, v))

Pad(used, to) == (to - (used % to)) % to

Aligned(b, to) == [b EXCEPT !.minAlign = IF to > @ THEN to ELSE @]

Align(b, to) == Aligned(Skip(b, Pad(UsedSpace(b), to)), to)

PushZeros(b, n) == Skip(b, n)

\* A counted block: all of it is grown for at once, the count and the data
\* are written, and tail (a terminator) and padding bytes are skipped.
Block(b, count, data, tail) ==
  LET pad  == Pad(UsedSpace(b) + Len(data) + tail, 4)
      body == LE(4, count) \o data
      g    == Grow(b, pad + tail + Len(body))
      at   == g.head - pad - tail - Len(body)
  IN Aligned(WriteAt([g EXCEPT !.head = at], at, body), 4)

CreateString(b, s) == Block(b, Len(s), s, 1)

CreateVectorU8(b, data) == Block(b, Len(data), data, 0)

\* Each offset is relative to the slot that holds it.
CreateVectorOffsets(b, refs) ==
  LET n     == Len(refs)
      start == UsedSpace(b) + Pad(UsedSpace(b) + 4 * n, 4) + 4 * n
      slots == [i \in 1 .. n |-> start - 4 * (i - 1) - refs[i]]
  IN Block(b, n, Words(4, slots), 0)

-----------------------------------------------------------------------------
(* Tables. *)

StartTable(b, count) ==
  [b EXCEPT !.inTable = TRUE, !.tableStart = UsedSpace(b), !.fieldCount = count,
            !.fields = {}]

AddField(b, id, v) ==
  LET p == PushU32(b, v) IN [p EXCEPT !.fields = @ \cup {[id |-> id, used |-> UsedSpace(p)]}]

\* A value equal to its default is left out.
AddU32(b, id, v, default) ==
  IF ~b.forceDefaults /\ v = default THEN b ELSE AddField(Align(b, 4), id, v)

\* Mutant: the offset counts from the end of its slot.
AddOffsetFromEnd(b, id, ref) ==
  LET a == Align(b, 4) IN AddField(a, id, UsedSpace(a) - ref)

\* Mutant: the slot is not aligned.
AddOffsetUnaligned(b, id, ref) == AddField(b, id, UsedSpace(b) + 4 - ref)

AddOffset(b, id, ref) ==
  LET a == Align(b, 4) IN AddField(a, id, UsedSpace(a) + 4 - ref)

\* The vtable of the open table whose soffset is at used space loc: its own
\* size, the table's size and a slot per field, as two bytes each, without
\* the empty slots at its end.
VTable(b, loc) ==
  LET offset(id) == LET its == {f \in b.fields : f.id = id} IN
                    IF its = {} THEN 0 ELSE (loc - (CHOOSE f \in its : TRUE).used) % U16Size
      slots == {id \in 0 .. (b.fieldCount - 1) : offset(id) # 0}
      count == Max({id + 1 : id \in slots} \cup {0})
  IN Words(2, <<4 + 2 * count, loc - b.tableStart>> \o [i \in 1 .. count |-> offset(i - 1)])

BytesAt(b, used, n) == SubSeq(b.buf, Cap(b) - used + 1, Cap(b) - used + n)

\* Mutant: only the latest vtable is compared.
SameLatest(b, vtable) ==
  {used \in b.vtables : /\ \A other \in b.vtables : other <= used
                        /\ used >= Len(vtable) /\ BytesAt(b, used, Len(vtable)) = vtable}

\* Vtables already written that are the same bytes.
Same(b, vtable) ==
  {used \in b.vtables : used >= Len(vtable) /\ BytesAt(b, used, Len(vtable)) = vtable}

\* The address of the soffset is taken before the vtable is pushed, and used
\* to patch it after.
EndTable(b) ==
  LET t      == PushU32(Align(b, 4), 0)
      abs    == t.head
      vtable == VTable(t, UsedSpace(t))
      shared == Same(t, vtable)
      v      == IF shared # {} THEN t
                ELSE LET p == PushBytes(t, vtable)
                     IN [p EXCEPT !.vtables = @ \cup {UsedSpace(p)}]
      vused  == IF shared # {} THEN CHOOSE used \in shared : TRUE ELSE UsedSpace(v)
  IN [WriteAt(v, abs, LE(4, abs - (Cap(v) - vused))) EXCEPT !.inTable = FALSE]

\* end_table returns the place of the soffset, not of what follows it.
TableRef(b) == UsedSpace(PushU32(Align(b, 4), 0))

\* The vtable of the open table does not fit before head.
VTableGrows(b) ==
  LET t == PushU32(Align(b, 4), 0)
      vtable == VTable(t, UsedSpace(t))
  IN Same(t, vtable) = {} /\ t.head < Len(vtable)

\* The finished bytes: the root's position, counted from the first of them.
Finish(b, root) ==
  LET to   == IF b.minAlign > 4 THEN b.minAlign ELSE 4
      p    == Skip(b, Pad(UsedSpace(b) + 4, to))
      done == PushU32(p, Cap(p) - root - p.head + 4)
  IN SubSeq(done.buf, done.head + 1, Cap(done))

-----------------------------------------------------------------------------
(* The reader: Table of client_msg.rs, on frames the builder makes. *)

\* The bytes of a counted block.
BlockAt(bytes, at) == SubSeq(bytes, at + 5, at + 4 + ReadU32(bytes, at))

\* Where the field of the table at root is; 0 when the table has not got it.
FieldOffset(bytes, root, id) ==
  LET vt == root - ReadI32(bytes, root) IN
  IF id >= (ReadU16(bytes, vt) - 4) \div 2 THEN 0 ELSE ReadU16(bytes, vt + 4 + 2 * id)

RootOf(bytes) == ReadU32(bytes, 0)

FieldU32(bytes, root, id, default) ==
  LET f == FieldOffset(bytes, root, id) IN
  IF f = 0 THEN default ELSE ReadU32(bytes, root + f)

\* Where the object that an offset at this address refers to is.
Follow(bytes, at) == at + ReadU32(bytes, at)

FieldTarget(bytes, root, id) == Follow(bytes, root + FieldOffset(bytes, root, id))

=============================================================================
