-------------------------------- MODULE Frames --------------------------------
(***************************************************************************)
(* The frames the server builds with FlatBuilder: a module                 *)
(* (module_builder.rs), the reply that shows a new entry and the case-11   *)
(* reply (ws.rs).  Each is two FlatBuffers, the inner one a byte vector of *)
(* the outer.  What a build function does is its script, the sequence of   *)
(* builder calls it makes, with a key for each object made; a step makes   *)
(* one call.  A frame is judged by the schema module.fbs and by the parser *)
(* Module::from_flatbuffer (nl_parser/src/module.rs).                      *)
(***************************************************************************)
EXTENDS FlatBuilder

CONSTANTS
  Inputs,   \* what frames are built from
  None,     \* Option::None
  Admin     \* the string "admin"

VARIABLES
  input,   \* what this frame is built from
  todo,    \* the builder calls left to make
  b,       \* the builder
  inner,   \* the finished inner FlatBuffer, or None
  frame,   \* the finished frame, or None
  refs,    \* the Ref of each object made in this builder
  made,    \* history: what each of them was made of
  row,     \* history: what the open table was given
  lost     \* history: tables that end_table may have spoiled

vars == <<input, todo, b, inner, frame, refs, made, row, lost>>

-----------------------------------------------------------------------------
(* Scripts. *)

Key(name, i) == <<name, i>>

Str(name, i, s) == [op |-> "string", as |-> Key(name, i), bytes |-> s]

Bytes(name, s) == [op |-> "bytes", as |-> Key(name, 0), bytes |-> s]

Refs(name, keys) == [op |-> "vector", as |-> Key(name, 0), of |-> keys]

Gap(n) == [op |-> "zeros", n |-> n]

Start(n) == [op |-> "start", n |-> n]

U32(id, v) == [op |-> "u32", id |-> id, v |-> v]

Off(id, name, i) == [op |-> "offset", id |-> id, of |-> Key(name, i)]

End(name, i) == [op |-> "end", as |-> Key(name, i)]

Finished(name) == [op |-> "finish", of |-> Key(name, 0)]

ForceCall == [op |-> "force"]

Payload == [op |-> "payload", as |-> Key("payload", 0)]

When(present, calls) == IF present THEN calls ELSE <<>>

ForEach(seq, Calls(_)) == FlattenSeq([i \in DOMAIN seq |-> Calls(i)])

Keys(name, seq) == [i \in DOMAIN seq |-> Key(name, i)]

\* build_log_entry, and what build_create_response does for its one entry.
LogEntry(vector, i, e) ==
  LET at == Key(vector, i) IN
  <<Str("name", at, e.name), Str("author", at, e.author)>>
  \o When(e.code # None, <<Str("code", at, e.code)>>)
  \o <<Start(IF e.code # None THEN 6 ELSE 5), U32(0, e.id), U32(1, e.ts),
       Off(3, "name", at), Off(4, "author", at)>>
  \o When(e.code # None, <<Off(5, "code", at)>>)
  \o <<End(vector, i)>>

\* build_log_entry_with_gap: no code, and a gap below the strings.
ConfigEntry(i, e) ==
  LET at == Key("config", i) IN
  <<Str("name", at, e.name), Str("author", at, e.author), Gap(8), Start(5),
    U32(0, e.id), U32(1, e.ts), Off(3, "name", at), Off(4, "author", at),
    End("config", i)>>

\* The strings of a language; equal names are one string.
LangStrings(i, l) ==
  When(l.translations # None, <<Str("translations", i, l.translations)>>)
  \o <<Str("langCode", i, l.code), Str("english", i, l.english)>>
  \o When(l.native # l.english, <<Str("native", i, l.native)>>)

\* Mutant: the native name is taken for the English one.
LangTableEnglish(i, l) ==
  <<Start(7), Off(2, "langCode", i), Off(4, "english", i), Off(5, "english", i)>>
  \o When(l.translations # None, <<Off(6, "translations", i)>>)
  \o <<End("lang", i)>>

LangTable(i, l) ==
  <<Start(7), Off(2, "langCode", i), Off(4, "english", i),
    Off(5, IF l.native = l.english THEN "english" ELSE "native", i)>>
  \o When(l.translations # None, <<Off(6, "translations", i)>>)
  \o <<End("lang", i)>>

\* Five languages are laid out in the order of the original.
LangOrder(langs) ==
  IF Len(langs) = 5 THEN <<1, 4, 3, 2, 5>> ELSE [i \in DOMAIN langs |-> i]

\* build_inner_flatbuffer.
ModuleInner(m) ==
  ForEach(m.configs, LAMBDA i : ConfigEntry(i, m.configs[i]))
  \o ForEach(m.scripts, LAMBDA i : LogEntry("script", i, m.scripts[i]))
  \o ForEach(m.styles, LAMBDA i : LogEntry("style", i, m.styles[i]))
  \o ForEach(m.langs, LAMBDA i : LangStrings(i, m.langs[i]))
  \o <<Gap(4), Bytes("extra", m.extra), Str("admin", 0, Admin),
       Bytes("skins", m.skins), Str("token", 0, m.token)>>
  \o ForEach(LangOrder(m.langs),
             LAMBDA i : LangTable(LangOrder(m.langs)[i], m.langs[LangOrder(m.langs)[i]]))
  \o <<Refs("langs", Keys("lang", m.langs)), Refs("scripts", Keys("script", m.scripts)),
       Refs("styles", Keys("style", m.styles)), Refs("configs", Keys("config", m.configs)),
       Start(13), Off(4, "configs", 0), Off(5, "scripts", 0), Off(6, "styles", 0),
       Off(7, "langs", 0), Off(1, "extra", 0), Gap(4), Str("user", 0, m.user),
       Off(2, "user", 0), Off(9, "skins", 0), U32(3, m.checksum), U32(8, m.enabled),
       U32(12, m.capacity), Off(11, "token", 0), End("root", 0), Finished("root")>>

\* The inner part of build_create_response.
CreateInner(m) ==
  LogEntry("entry", 1, m.entry)
  \o <<Refs("entries", <<Key("entry", 1)>>), Start(3), U32(0, m.type),
       Off(1, "entries", 0), End("root", 0), Finished("root")>>

\* build_case11_inner, as build_case11_response calls it.
Case11Inner(m) ==
  <<Str("text", 0, m.text), Start(3), U32(0, m.id), Off(2, "text", 0),
    End("root", 0), Finished("root")>>

\* The outer FlatBuffer; build_outer_wrapper writes its version even if 0.
Wrapper(forced, type) ==
  When(forced, <<ForceCall>>)
  \o <<Payload, Start(2), U32(0, type), Off(1, "payload", 0), End("wrapper", 0),
       Finished("wrapper")>>

Script(m) ==
  CASE m.kind = "module" -> ModuleInner(m) \o Wrapper(TRUE, m.version)
    [] m.kind = "create" -> CreateInner(m) \o Wrapper(FALSE, 3)
    [] m.kind = "case11" -> Case11Inner(m) \o Wrapper(FALSE, 11)

\* What the build functions are given, by the types of their parameters: a
\* string or a blob is bytes, a list a Vec, None only an Option that is not
\* there.  Translations that are there are serialized JSON, so not empty.
Word == 0 .. (U32Size - 1)

IsList(seq) == Len(seq) \in Nat /\ seq = [i \in 1 .. Len(seq) |-> seq[i]]

IsEntry(e) ==
  /\ e = [id |-> e.id, ts |-> e.ts, name |-> e.name, author |-> e.author, code |-> e.code]
  /\ {e.id, e.ts} \subseteq Word /\ {e.name, e.author} \subseteq Seq(Byte) \ {None}
  /\ e.code = None \/ e.code \in Seq(Byte)

IsLanguage(l) ==
  /\ l = [code |-> l.code, english |-> l.english, native |-> l.native,
          translations |-> l.translations]
  /\ {l.code, l.english, l.native} \subseteq Seq(Byte) \ {None}
  /\ l.translations = None \/ l.translations \in Seq(Byte) \ {<<>>}

IsModule(m) ==
  /\ m = [kind |-> "module", version |-> m.version, configs |-> m.configs,
          scripts |-> m.scripts, styles |-> m.styles, langs |-> m.langs,
          extra |-> m.extra, user |-> m.user, skins |-> m.skins, token |-> m.token,
          checksum |-> m.checksum, enabled |-> m.enabled, capacity |-> m.capacity]
  /\ \A list \in {m.configs, m.scripts, m.styles, m.langs} : IsList(list)
  /\ \A list \in {m.configs, m.scripts, m.styles} : \A i \in DOMAIN list : IsEntry(list[i])
  /\ \A i \in DOMAIN m.langs : IsLanguage(m.langs[i])
  /\ {m.extra, m.user, m.skins, m.token} \subseteq Seq(Byte) \ {None}
  /\ {m.version, m.checksum, m.enabled, m.capacity} \subseteq Word

ASSUME InputsAssumption ==
  \A m \in Inputs :
    \/ m.kind = "module" /\ IsModule(m)
    \/ /\ m.kind = "create" /\ IsEntry(m.entry) /\ m.type \in Word
       /\ m = [kind |-> "create", type |-> m.type, entry |-> m.entry]
    \/ /\ m.kind = "case11" /\ m.id \in Word /\ m.text \in Seq(Byte)
       /\ m = [kind |-> "case11", id |-> m.id, text |-> m.text]

ASSUME AdminAssumption == Admin \in Seq(Byte)

\* The vtable of the largest table, the root of a module, is of a size that
\* is a u16.
ASSUME WidthAssumption == 4 + 2 * 13 < U16Size

-----------------------------------------------------------------------------
(* Steps: the next call of the script. *)

Init ==
  /\ input \in Inputs
  /\ todo = Script(input)
  /\ b = New
  /\ inner = None /\ frame = None
  /\ refs = <<>> /\ made = <<>> /\ row = <<>> /\ lost = {}

Call(op) == todo # <<>> /\ Head(todo).op = op /\ todo' = Tail(todo)

\* Function f with v at key.
With(f, key, v) == [k \in DOMAIN f \cup {key} |-> IF k = key THEN v ELSE f[k]]

\* The call made an object: its Ref is the space used now.
Names(content) ==
  /\ refs' = With(refs, Head(todo).as, UsedSpace(b'))
  /\ made' = With(made, Head(todo).as, content)

ForceDefaults ==
  /\ Call("force")
  /\ b' = [b EXCEPT !.forceDefaults = TRUE]
  /\ UNCHANGED <<input, inner, frame, refs, made, row, lost>>

MakeString ==
  /\ Call("string")
  /\ b' = CreateString(b, Head(todo).bytes)
  /\ Names([kind |-> "string", bytes |-> Head(todo).bytes])
  /\ UNCHANGED <<input, inner, frame, row, lost>>

MakeBytes ==
  /\ Call("bytes")
  /\ b' = CreateVectorU8(b, Head(todo).bytes)
  /\ Names([kind |-> "bytes", bytes |-> Head(todo).bytes])
  /\ UNCHANGED <<input, inner, frame, row, lost>>

\* The finished inner FlatBuffer goes into the outer one.
MakePayload ==
  /\ Call("payload")
  /\ b' = CreateVectorU8(b, inner)
  /\ Names([kind |-> "bytes", bytes |-> inner])
  /\ UNCHANGED <<input, inner, frame, row, lost>>

MakeVector ==
  /\ Call("vector")
  /\ LET of == Head(todo).of IN
     /\ b' = CreateVectorOffsets(b, [i \in DOMAIN of |-> refs[of[i]]])
     /\ Names([kind |-> "vector", of |-> of])
  /\ UNCHANGED <<input, inner, frame, row, lost>>

PushGap ==
  /\ Call("zeros")
  /\ b' = PushZeros(b, Head(todo).n)
  /\ UNCHANGED <<input, inner, frame, refs, made, row, lost>>

OpenTable ==
  /\ Call("start")
  /\ b' = StartTable(b, Head(todo).n)
  /\ row' = <<>>
  /\ UNCHANGED <<input, inner, frame, refs, made, lost>>

AddScalar ==
  /\ Call("u32")
  /\ b' = AddU32(b, Head(todo).id, Head(todo).v, 0)
  /\ row' = With(row, Head(todo).id, [v |-> Head(todo).v])
  /\ UNCHANGED <<input, inner, frame, refs, made, lost>>

AddReference ==
  /\ Call("offset")
  /\ b' = AddOffset(b, Head(todo).id, refs[Head(todo).of])
  /\ row' = With(row, Head(todo).id, [of |-> Head(todo).of])
  /\ UNCHANGED <<input, inner, frame, refs, made, lost>>

\* The space of the table, soffset included.
Extent == TableRef(b) - b.tableStart

CloseTable ==
  /\ Call("end")
  /\ b' = EndTable(b)
  /\ refs' = With(refs, Head(todo).as, TableRef(b))
  /\ made' = With(made, Head(todo).as, [kind |-> "table", row |-> row])
  /\ lost' = IF VTableGrows(b) \/ Extent >= U16Size THEN lost \cup {Head(todo).as} ELSE lost
  /\ UNCHANGED <<input, inner, frame, row>>

\* The finished bytes; a new builder takes over after the inner FlatBuffer.
FinishBuffer ==
  /\ Call("finish")
  /\ LET bytes == Finish(b, refs[Head(todo).of]) IN
     IF inner = None
     THEN /\ inner' = bytes /\ b' = New /\ refs' = <<>> /\ made' = <<>>
          /\ UNCHANGED frame
     ELSE frame' = bytes /\ UNCHANGED <<inner, b, refs, made>>
  /\ UNCHANGED <<input, row, lost>>

Next ==
  \/ ForceDefaults \/ MakeString \/ MakeBytes \/ MakePayload \/ MakeVector \/ PushGap
  \/ OpenTable \/ AddScalar \/ AddReference \/ CloseTable \/ FinishBuffer

Spec == Init /\ [][Next]_vars

-----------------------------------------------------------------------------
(* The parser: Module::from_flatbuffer with the ids of module.fbs. *)

StringField(bytes, root, id) ==
  IF FieldOffset(bytes, root, id) = 0 THEN None
  ELSE BlockAt(bytes, FieldTarget(bytes, root, id))

OrEmpty(s) == IF s = None THEN <<>> ELSE s

\* What Read makes of each table of the vector in the field.
VectorField(bytes, root, id, Read(_)) ==
  IF FieldOffset(bytes, root, id) = 0 THEN <<>>
  ELSE LET at == FieldTarget(bytes, root, id) IN
       [i \in 1 .. ReadU32(bytes, at) |-> Read(Follow(bytes, at + 4 * i))]

ParseLog(bytes, root, id) ==
  VectorField(bytes, root, id, LAMBDA e :
    [id |-> FieldU32(bytes, e, 0, 0), ts |-> FieldU32(bytes, e, 1, 0),
     name |-> OrEmpty(StringField(bytes, e, 3)),
     author |-> OrEmpty(StringField(bytes, e, 4)), code |-> StringField(bytes, e, 5)])

\* An empty translation parses as none.
ParseLanguages(bytes, root, id) ==
  VectorField(bytes, root, id, LAMBDA l :
    [code |-> OrEmpty(StringField(bytes, l, 2)), english |-> OrEmpty(StringField(bytes, l, 4)),
     native |-> OrEmpty(StringField(bytes, l, 5)),
     translations |-> LET t == StringField(bytes, l, 6) IN IF t = <<>> THEN None ELSE t])

\* The payload is a byte vector that holds the inner FlatBuffer.
PayloadOf(bytes) == BlockAt(bytes, FieldTarget(bytes, RootOf(bytes), 1))

TypeOf(bytes) == FieldU32(bytes, RootOf(bytes), 0, 0)

ParseModule(bytes) ==
  LET in   == PayloadOf(bytes)
      root == RootOf(in)
  IN [kind |-> "module", version |-> TypeOf(bytes),
      configs |-> ParseLog(in, root, 4), scripts |-> ParseLog(in, root, 5),
      styles |-> ParseLog(in, root, 6), langs |-> ParseLanguages(in, root, 7),
      extra |-> StringField(in, root, 1), user |-> OrEmpty(StringField(in, root, 2)),
      skins |-> StringField(in, root, 9), token |-> OrEmpty(StringField(in, root, 11)),
      checksum |-> FieldU32(in, root, 3, 0), enabled |-> FieldU32(in, root, 8, 0),
      capacity |-> FieldU32(in, root, 12, 0)]

\* The two replies, by the ids their builders use.
ParseCreate(bytes) ==
  LET in == PayloadOf(bytes) IN
  [kind |-> "create", type |-> FieldU32(in, RootOf(in), 0, 0),
   entry |-> ParseLog(in, RootOf(in), 1)[1]]

ParseCase11(bytes) ==
  LET in == PayloadOf(bytes) IN
  [kind |-> "case11", id |-> FieldU32(in, RootOf(in), 0, 0),
   text |-> StringField(in, RootOf(in), 2)]

Parse(bytes) ==
  CASE input.kind = "module" -> ParseModule(bytes)
    [] input.kind = "create" -> ParseCreate(bytes)
    [] input.kind = "case11" -> ParseCase11(bytes)

-----------------------------------------------------------------------------
(* Properties. *)

\* Where an object is in the buffer as it is now.
Place(key) == Cap(b) - refs[key]

\* The object reads as what it was made of.
Reads(key) ==
  LET o == made[key]  at == Place(key) IN
  CASE o.kind = "string" ->
         /\ BlockAt(b.buf, at) = o.bytes
         /\ lost = {} => b.buf[at + 5 + Len(o.bytes)] = 0
    [] o.kind = "bytes" -> BlockAt(b.buf, at) = o.bytes
    [] o.kind = "vector" ->
         /\ ReadU32(b.buf, at) = Len(o.of)
         /\ \A i \in DOMAIN o.of : Follow(b.buf, at + 4 * i) = Place(o.of[i])
    [] o.kind = "table" ->
         \A id \in 0 .. 13 :
           IF id \notin DOMAIN o.row THEN FieldOffset(b.buf, at, id) = 0
           ELSE IF "v" \in DOMAIN o.row[id] THEN FieldU32(b.buf, at, id, 0) = o.row[id].v
           ELSE FieldTarget(b.buf, at, id) = Place(o.row[id].of)

\* A Ref is a u32 and an soffset an i32.
InReach == UsedSpace(b) < U32Size \div 2

\* An object once made reads as what it was made of for as long as the
\* buffer is built, whatever grows, moves or patches it later: except a table
\* whose vtable made the buffer grow, or that is too wide for a u16.
ReadsBack == InReach => \A key \in DOMAIN made \ lost : Reads(key)

\* Everything before head is zero, which padding, gaps and the terminators
\* of strings rely on, unless a patch went astray or a table was too wide.
ZeroAhead == lost = {} => \A i \in 1 .. b.head : b.buf[i] = 0

\* A byte once written keeps its value and its distance from the end while
\* its buffer is built, whatever grows, moves or patches it: even a patch that
\* goes astray hits no object made before.
WrittenOnce ==
  [][b' # New =>
       \A i \in 1 .. UsedSpace(b) : b'.buf[Cap(b') - i + 1] = b.buf[Cap(b) - i + 1]]_vars

\* No two vtables of a buffer are the same bytes, unless a patch went astray,
\* which may spoil one, or a table was too wide for what its vtable says.
VTablesShared ==
  lost = {} => \A u, w \in b.vtables :
    (u # w /\ ReadU16(b.buf, Cap(b) - u) = ReadU16(b.buf, Cap(b) - w)) =>
      LET n == ReadU16(b.buf, Cap(b) - u) IN BytesAt(b, u, n) # BytesAt(b, w, n)

\* Offsets, counts and scalars are four-aligned in the finished bytes, though
\* a vtable may end between.
FourAligned ==
  /\ \A key \in DOMAIN refs : refs[key] % 4 = 0
  /\ \A f \in b.fields : f.used % 4 = 0
  /\ \A bytes \in {inner, frame} \ {None} : Len(bytes) % 4 = 0

\* What a frame says of its input: an entry of configs is written without the
\* code it got from a script of the same id.
AsWritten(m) ==
  IF m.kind # "module" THEN m
  ELSE [m EXCEPT !.configs = [i \in DOMAIN m.configs |-> [m.configs[i] EXCEPT !.code = None]]]

\* A finished frame parses as what it was built from, when no table was lost.
FrameParses ==
  (frame # None /\ lost = {} /\ Len(frame) < U32Size \div 2) => Parse(frame) = AsWritten(input)

\* A finished frame parses as what it was built from.
EveryFrameParses == frame # None => Parse(frame) = AsWritten(input)

=============================================================================
