# A specification of the nlmeow server

TLA+ modules of the server in `src/server/rust-server`, the TLC runs that check
them and the theorems about them that TLAPS proves. Lines are given as
`ws.rs:470`, meaning `src/server/rust-server/src/ws.rs`.

## The system

The server keeps *accounts*. An account owns *entries* (scripts, configs,
styles). A game client holds a websocket to it, a browser uses the HTTP API, an
administrator a few HTTP routes. All of them run as tokio tasks of one process
over one SQLite database; there is no transaction anywhere, so each SQL statement
is atomic and everything between two of them may interleave.

| part | state | operations | talks to |
|---|---|---|---|
| entry handlers, websocket (`ws.rs` `handle_client_msg`) | the progress of a handler | create, update, duplicate, delete, type-7 blob | entry tables, module cache, own socket |
| entry handlers, HTTP (`http.rs`) | the same | import to account, admin create / update / delete of a log row | entry tables, module cache, live replies |
| entry tables (`migrations/001_initial.sql`, `db.rs`) | `log_entries`, `scripts`, `configs`, `styles`, `users.type7_blob` | the statements | |
| module cache (`main.rs` `AppState`, `ws.rs` `build_user_module`) | `module_cache` | get, set, invalidate, build | entry tables |
| module encoding (`module_builder.rs`, `nl_parser` `FlatccBuilder`) | a buffer | build the bytes of a module | |
| websocket session, live replies (`ws.rs` `handle_ws`, `push_live_insert`) | `live_replies`, one channel per session | handshake, register, push, unregister | accounts, module cache |
| sharing (`http.rs`, `db.rs`) | `share_codes` | share, unshare, show, fetch for an import | entry tables |
| accounts (`http.rs`) | `users`, `ip_tokens` | signup, login, avatar | |
| boot (`main.rs`, `http.rs` `admin_seed`, `tls.rs`) | `base_modules`, `users`, certificate files | seed, admin seed, make certificates | accounts, entry tables |
| message parser (`client_msg.rs`), pipeline, module parser (`nl_parser`) | none | bytes to messages and back | |
| read-only HTTP, Lua libraries, web client | none on the server | one read, one answer | |

What makes it hard:

* Ids. `next_entry_id` reads `MAX(entry_id) + 1` and reserves nothing. The log row
  that moves the maximum on comes one to seven statements later.
* Two tables per entry, written in different orders: create logs first, duplicate
  and import insert the backing row first. `create_style` swallows a conflict,
  `create_script` and `create_config` report it.
* A delete or a timestamp update goes by id over all types; the rest goes by type
  and id.
* A cache beside the database, dropped by each handler at points of its own
  choosing and filled by a reader that knows nothing of that.
* HTTP handlers are dropped when the peer goes away, websocket handlers are not;
  the process can die at any await, and starts again from what is on disk.
* A session chooses its module before it registers for live frames, and an import
  writes, invalidates and pushes without looking at either.
* A buffer that fills from its end and moves when it grows, while positions in it
  are held as indices from the front.

What makes each part correct:

* entries: ids belong to one entry, an entry has its two rows, an answer tells the
  truth, the next id is usable; a client alone sees atomic operations;
* cache: what is served is what the tables say, except where the code cannot
  guarantee it, and those places are known;
* encoding: whatever the buffer does while it is built, a finished frame parses as
  what went in;
* live replies: a session sees what is imported into its account, by its module or
  by a frame, and leaves nothing registered;
* sharing: a code shows items of the account that shared, and only that account
  takes it back;
* accounts and boot: a token belongs to one account, who was told of an account has
  it, and a server comes up again wherever it died, or it is known where not.

## The modules

| module | models | extends |
|---|---|---|
| `EntryStore` | the entries of one account and every handler that changes them, a statement a step | |
| `EntryBook` | what a client is promised: a book of entries with one-step operations | |
| `EntrySerial` | `EntryStore` with one client that waits for each message, as an implementation of `EntryBook` | `EntryStore` |
| `ModuleCache` | the cache and the builds of opening connections over `EntryStore` | `EntryStore` |
| `FlatBuilder` | `FlatccBuilder`: every operation on its buffer, and the reader's arithmetic | |
| `Frames` | the build of a module, a new-entry reply and a case-11 reply, call by call, and the parsers | `FlatBuilder` |
| `LiveReplies` | sessions from the first message to their end, imports and the frames they push | |
| `Accounts` | `main()`, seeding, the TLS files, crashes and restarts, the requests that make accounts | |
| `Sharing` | share codes over items that come and go, on a server as `Accounts` has it | `Accounts` |
| `MCEntryStore`, `MCEntrySerial`, `MCModuleCache`, `MCFrames`, `MCLive`, `MCService` | inputs and symmetry of the runs | |
| `EntryStoreProofs` | type correctness, and theorems about the handlers that run at once: owners, free ids, replies, backed log rows | `EntryStore`, `TLAPS` |
| `EntrySerialProofs` | the refinement of `EntryBook`, and that the tables agree | `EntrySerial`, `EntryStoreProofs` |
| `ModuleCacheProofs` | the theorems about the cache | `ModuleCache`, `EntryStoreProofs` |
| `FlatBuilderProofs` | lemmas about numbers as bytes, each operation of the builder, and reading what is there | `FlatBuilder`, `TLAPS` |
| `FramesProofs` | theorems about the frames: calls in order, zeros, alignment, bytes that stay, vtables shared, objects that read back | `Frames`, `FlatBuilderProofs` |
| `FrameParsingProofs` | the theorem that a finished frame parses to its input | `FramesProofs` |
| `LiveRepliesProofs` | theorems about registration and what a session is shown | `LiveReplies`, `TLAPS` |
| `SharingProofs` | the invariant of accounts and boot, kept by each step of `Accounts` and of `Sharing`, and the theorems about accounts, boot and share codes | `Sharing`, `TLAPS` |

### EntryStore

`log`, `rows` and `blob` are the database; `task[t]` is what websocket or request
`t` is doing. Every query filters by `user_id`, so one account is enough. A handler
is a path through steps: `pc` names the statement that comes next, the tables
`CreateNext` .. `AdminNext` give the order of the statements of each handler,
`OnError` where a failing one leads (`Tolerated`: the error is logged and passed
over), and each statement is one action that any handler may use, as the functions
of `db.rs` are. `recreate` / `rewrite` is the fallback of
`update_entry_content`, `createNamed` that of `update_entry_name`. `upsert` walks
through the INSERT, the UPDATE and the SELECT of `create_style`.

* A websocket task handles one message at a time (`ws.rs:160`): `Receive` needs an
  idle task. It is not cancelled when the peer goes (`on_upgrade` spawns it).
* `StatementFails` is any `Err` of sqlx, `HangUp` the drop of a request future,
  `Crash` the end of the process. The constants `Faulty` and `Crashes` switch them on.
* Ids are 32-bit in the code and `-MaxId-1 .. MaxId` here, wrap-around included
  (`NextId`): the shipped build is a release build, where `+ 1` wraps.
* Names, contents, timestamps and blobs are members of small sets. Authors,
  `updated_at`, the uuids of the backing tables and logging are left out; no
  handler branches on them. The read of the source's log row in `DuplicateEntry`
  only finds an author, so it is not a step.
* Bound: `Room` lets a creating message come only while `Uuids` has one for it.

### EntryBook and EntrySerial

`EntryBook` is the abstract specification: a client asks (`Ask`), and the operation it
asked for, that one and no other, is done as a whole on a function from type and id to an
entry before it may ask again (`Perform`). `EntrySerial` runs `EntryStore` under the
discipline of one client that waits (`Quiescent`), names what exists and is not an
administrator (`WellFormed`); its history variable `settled` is `Joined` as of the last
finished message. `Joined` is a view of the tables and not of what a connection is shown:
an entry is there where its log row and its backing row both are. (What a module shows is
`ModuleOf` of `ModuleCache`, which shows configs otherwise.) `KeepsPromise` is the
refinement `Promise == INSTANCE EntryBook WITH book <- settled, asked <- Asked`, where
`Asked` is the message of the handler at work: a handler that ends is `Perform` with its
message, so one that does nothing, less, or what another message asks for breaks the
promise.

### ModuleCache

A build is six steps: the user's row, the cache, log, scripts, styles, store.
`ModuleOf` is the content of a module: which log rows are shown, under which name
and text. `dirty` and `taint` are history: a task is dirty from its first change of
what modules are built from to its next invalidation; a change that is never
invalidated taints the module with the operation and step that let it escape, a
build that an invalidation overtook taints it with `Race`. `CacheTypeOK` types all of
it, what a build has read by each step included. `LockedOut` is about a type-7 blob that
the standard base64 decoder refuses although `extract_type7_blob_text` takes it
(`ws.rs:737`): once its handler has ended, no connection of the account is sent a module.

### FlatBuilder and Frames

A builder is a record with the fields of the struct; an operation of the code is an
operator from builder to builder, with `Grow`, padding, the index taken before a push
and the narrowing of each cast as in the code. The number of values of a byte
(`Base`) and the first capacity (`InitialCap`) are constants, so that 16-bit offsets
and the growth of the buffer come within reach of small frames. `NextPowerOfTwo` rounds
sizes up to 2^30 bytes and leaves larger ones as they are, a bound no frame comes near.

What a build function of `module_builder.rs` or `ws.rs` does is its *script*, the
sequence of builder calls it makes for an input; a step of `Frames` makes one call,
the inner FlatBuffer first, then the wrapper. `made` and `row` remember what each
object was made of, `lost` the tables `end_table` may have spoiled: those whose
vtable makes the buffer grow, and those too wide for 16 bits. `ParseModule` reads a
frame by `module.fbs` as `Module::from_flatbuffer` does; the two replies are read by
the ids their builders use.

### LiveReplies

One action per await of `handle_ws`: the first message, the three sends, the build
(cache or tables, then the store), the second look at the account, `Register`, the
`select!` loop, `Unregister`. A frame that was taken is `held` until it is sent. An
import writes its entry (`LogImport`; `EntryStore` has the statements), invalidates
and pushes, and may be dropped anywhere (`Abandon`). A failed send ends a session
before its loop and is only logged inside it, as in the code. `BuildFails` stands for
an unknown token and for a database error.

`gap` and `cacheGap` are history: an import is added to a session's gap where it
falls between the choice of the module and the registration (`PushImport`), or where
a build that has read without it is about to cache what it read
(`InvalidateImport`), from where it reaches the sessions that hit the cache. So
`ShownUnlessRaced` says these two are the *only* ways to miss an import.

### Accounts and Sharing

`life` is where `main()` is: the count of users, the two inserts of the seed and its
entries, the look at the TLS files, the opening and the writing of each (`fs::write`
truncates first), the load. A base module of that name that is already there,
or files that do not load, ends the process (`Panic`); `Crash` ends it anywhere, drops the requests and keeps database and files. A `?`
that fails between the inserts of the seed, or an `expect` on a failed `fs::write`, has
the effect of a `Crash` at that step and is no action of its own. `LoseFile` is an operator
who removes a file while the server is down. `seedOk`, whether the build's
`seed_module.bin` parses, is fixed once. Requests make accounts in steps
(`SignUp`, `CheckName`, `FindBase`, `InsertUser`, `Answer`; `AdminCreateUser`,
`AdminSeed`), and `InsertUser` fails by the UNIQUE clauses alone. A signup's token is
a fresh uuid; an administrator chooses names and tokens freely.

`Sharing` adds items, as rows with an owner, that any account makes and deletes, and
`share_codes`. `share` and `unshare` look first and write later; `unshare` deletes by
code alone, and `overtaken` remembers the unshares whose code another one has deleted
since they found it theirs, the only ones `OnlyOwnerUnshares` lets delete a code of
another account (one that was drawn again meanwhile); a reader fetches the code, then the row by its uuid whoever owns it, and
an import copies it. A code that was freed may be drawn again.

Two facts that follow, both checked and proved: with a seed that parses, a server
that serves always has the default account and a base module, so the inserts of
`/admin/seed` and the upsert of signup are never reached (`BaseOnlyAtBoot`); without
one there is no base module and no account can be made at all.

## The runs

| run | instance | shows |
|---|---|---|
| `MCStoreCreators` | two websockets and a request create, duplicate and import scripts and styles while an administrator logs the largest id; three log rows, `MaxId` = 2, faults, hang-ups and crashes | `TypeOK` with ids that wrap; `UniqueOwner`: the unique indexes do what the ids do not; `TruthfulReply`, where a create may be without its content |
| `MCStoreReplies` | two websockets and an import create, duplicate and import over three types; three log rows, `MaxId` = 3, nothing fails | `TruthfulReply` to the letter for scripts and configs, `StyleReply`, `NextIdFree` |
| `MCStoreEdits` | two websockets create, update and delete over two types and ids, and set the type-7 blob | `LogBacked` |
| `MCEntrySerial` | one websocket, one import, 3 ids, all message shapes | `KeepsPromise`, `Consistent` |
| `MCCacheSocket` | one websocket, one opening connection, faults and crashes | `CacheTypeOK`, `Fresh`, `EscapeSites`, `LockedOut` |
| `MCCacheRequests` | imports of two styles and admin requests, one opening connection, faults, hang-ups | `Fresh`, `EscapeSites` |
| `MCFlat` | modules and replies of about 270 shapes, built call by call; `Base` 8, capacity 64 | `ReadsBack`, `ZeroAhead`, `WrittenOnce`, `VTablesShared`, `FourAligned`, `FrameParses` |
| `MCLive` | two sessions and an import of one account, a token that is nobody's, clients that hang up | `TypeOK`, `Registered`, `ShownUnlessRaced`, `CountedIsShown`, `LeavesNothing` |
| `MCService` | the default account and one other, two requests, two items, one code; two crashes, one lost file | `TokenResolves`, `AccountKept`, `ServesSeeded`, `WedgedOnlyByCrash`, `CodeOwnsItem`, `BaseOnlyAtBoot`, `NoSelfRepair`, `OnlyOwnerUnshares`, `ComesUp` |

Runs that are expected to fail, each against a line of the repository:

| run | violates | because |
|---|---|---|
| `MCCacheRace` | `CacheCoherent` | a build stores what an update has invalidated (`ws.rs:233`) |
| `MCCacheConfigName` | `ConfigNamed` | config names are not looked up (`module_builder.rs:37`) |
| `MCFlatGrowth` | `EveryFrameParses` | `end_table` patches at an index taken before the vtable makes the buffer grow (`flatcc_builder/mod.rs:305`): a case-11 reply with a text of about 1000 characters cannot be read, in the code's own 1024-byte buffer |

The other ways to a stale module (a duplicate that logs after its invalidation,
`ws.rs:626`; an update of the timestamp alone, `ws.rs:525`; a create that loses its
row, `ws.rs:470`; an admin request on another account's path, `http.rs:1362`; a
duplicate or import of a style that renamed the row it conflicted with and then does
not find it, `db.rs:504`) are
`PlainSites` of `EscapeSites`; `ErrorSites` and `HangUpSites` come with failing
statements and dropped requests. A delete under the wrong type removes the log rows
of the id and leaves the backing row of the other type, which `client_msg.rs:44`
("Delete an existing log entry and backing row") does not say; `LogBacked` holds all
the same, since it asks for the row of each log entry and not the reverse. Backing rows
without a log row, from such a delete or from an update that creates a row again, are
reachable and no property forbids them.

What a reply is worth. `TruthfulReply` says of every create, duplicate and import that
answers that the entry has its log row and its backing row, and of scripts and configs that
the row holds what is announced; only a create goes on without its content when that write
fails (`ws.rs:872`). Of styles the second part would be false: two handlers that drew the
same id both answer, because `create_style` renames the row it finds (`db.rs:491`).
`StyleReply` says that this is the only way: where nothing fails, the row holds what is
announced, unless another handler made a style of that id, which then is at work or has left
a second log row. With failures even that is not so, since a handler that renames a row and
dies leaves no trace. All three are about entries being made; an update or a delete may
change the row before the answer is sent.

Why the bounds are enough. Two websockets and a request make every pair of
handlers overlap, and a third party besides; conflicts over an id need two tasks.
Two or three log rows let ids be given out, shared, deleted and given out again.
Ids up to 3 are more than the log rows can use up; `MCStoreCreators` and the cache
runs take 2 and 1 so that the increment wraps. One opening connection is enough for the
race with a handler; two do not interact except through the cache, which the
second can only read or overwrite with a later one of the same shape. Symmetry is
over websockets, requests, opening connections and uuids, which no property
distinguishes. Deadlock is checked except in the runs of creating handlers alone,
where `Room` stops them for good once the uuids are used up; the server then sits
idle.

In `MCFlat` the strings and modules are on both sides of each multiple of four, of
the vtable sharing and of several growths from 64 bytes on, and `Base` 8 makes a
table of 64 bytes overflow its width; the operations compare lengths and positions
and never look at a byte's meaning. `MCFlatGrowth` has the code's capacity, and only
`Base` smaller, since no offset of its frames comes near 2^16. Two sessions and one import in
`MCLive` give each race its two parties and a second session that hits the cache the
first one filled; more imports are further entries of the same sets, and the
theorems below are for any number. In `MCService` a wedge takes one crash and the
second is for the starts after it (`MaxCrashes` = 2); a lost file is needed to have
the pair made anew over an old key (`MaxLosses` = 1); two requests race for a name,
two uuids and one code let an item and a code be replaced under a request's hands.

## Fairness

`LiveReplies`: weak fairness of each session's own steps (tokio polls a task that can
go on; a send to a peer that does not read ends when the connection breaks), and
strong fairness of `TakeLive` and `ReceiveEnd`, because `select!` (`ws.rs:161`) polls
its branches in a random order, so a branch that is ready again and again is taken in
the end however many messages the client sends. The client owes nothing: it may fall
silent, or talk for ever. Imports owe nothing either, since a request may be dropped.
Under this `CountedIsShown` holds (a session an import counted is shown the frame, or
its client has left) and `LeavesNothing` (a session whose client left ends and
unregisters).

`Sharing`: weak fairness of `Boot`, that is `main()` goes on and whoever runs the
server starts it again. The latter is an assumption about the environment, not the
code; `ComesUp` shows that it is enough, unless the server is `Wedged`.

The runs over `EntryStore` state no fairness: a handler that does not end shows in
their invariants as one that has stopped.

## The proofs

TLAPS proves, for any sets of tasks, messages, names and uuids and any `MaxId` > 0:

* `TypeCorrect`: `Spec => []TypeOK`. `TypeOK` is not inductive: that an INSERT has
  a name to write depends on the handler having one at that step. `TypeInv` adds
  `TaskOK`: the message is one of `Messages`, the step is one this handler has
  (`StepOK`), and at the steps that write a name or a content the task has it.
  `StepFollows` shows that the tables of the handlers stay inside `StepOK`.
* `OwnersUnique`: `Spec => []UniqueOwner`, if no client deletes (`NeverDeletes`);
  with deletes a row can be taken over. `OwnerInv` adds that a handler that holds
  an entry still finds its row, so the INSERT of another one
  with the same id conflicts. `TaskKeeps` reduces every action to: who holds after
  a step held before, or has inserted into an empty place, or is a style's and found a
  row. Failing statements, hang-ups and crashes are included, and so are the updates and
  the administrator's changes that `MCStoreCreators` leaves out.
* `NextIdsFree`: `Spec => []NextIdFree`, if clients only create, duplicate and
  import (`OnlyCreates`) and either they only create or nothing fails or stops
  (`Sheltered`). `AccountInv` accounts for each backing row: its id is at or below
  one in the log, or its handler owes the log row and is on its way to insert it.

* `RepliesTruthful`: `Spec => []TruthfulReply`, under `OnlyCreates`, with failing
  statements, hang-ups and crashes. `FruitInv` says how far the row of each script or
  config has come, step by step of the handler that holds it: named from its INSERT on,
  with its content once that is written, or without where a create passed over the failure.
  Nobody else writes that row because `OwnerInv` makes the holder the only one; `LogsThere`
  is the same for the log row, which nobody deletes here. For styles it proves the two rows
  and not what is in the backing one.
* `StylesTold`: `Spec => []StyleReply`, under `OnlyCreates` and where nothing fails or stops
  (`Undisturbed`). `StyleInv` follows each handler of a style from the id it draws: if the
  row is there, it is its own as far as it has come, or the entry is `Contested`, by another
  handler that has `Touched` the row or by log rows. A contest lasts: who has touched the row
  holds it until its log row is there (`TouchedOn`), a row that is there has its writer at
  work or a log row (`Traced`), and two handlers that logged made two log rows
  (`LoggedTwice`).
* `LogsBacked`: `Spec => []LogBacked`, where clients create, update, delete and set the
  type-7 blob (`OnlyEdits`) and nothing fails or crashes. `BackedInv` weakens
  `LogBacked` at every state, not the idle ones alone, by what a handler under way
  still owes (`Excuses`): a create whose INSERT comes next, a delete whose DELETE of
  the log rows comes next. A row that goes leaves such a delete behind (`RowGoes`),
  an excuse ends only with a row there or no log row (`ExcuseKept`).

For one client that waits, any messages, names, contents, tasks and ids
(`EntrySerialProofs`):

* `BookKept`: `SerialSpec => KeepsPromise`, the refinement. `SerialInv` says that one
  task at most is at work (`OneAtWork`), that between messages the tables show
  `settled` and nothing else (`Everywhere`), and for each step of a handler what they
  show by then (`Serving`): the book with its entry half made (`Making`), half changed
  (`Changing`) or half removed (`Removing`). So when the handler ends, they show the
  book after the operation of its message: `MakingEnds`, `ChangingEnds`, `RemovingEnds` and
  `BlobEnds` are its `Perform`, `Receive` is its `Ask`, everything between is a stutter. It needs that the id
  drawn is fresh in every table (`FreshId`), which is where waiting matters.
* `ConsistentAlways`: `SerialSpec => []Consistent`, from the same invariant.

For any handlers, opening connections, messages and rows, with failing statements,
hang-ups and crashes (`ModuleCacheProofs`):

* `CacheKeepsStore`: `CacheSpec => Spec`. The cache only watches the store.
* `CacheTypeCorrect`, `FreshAlways`, `EscapesKnown`, `LockedOutAlways`: the four
  invariants of the cache.
  `CacheInv` says of each build what `Fresh` says of the cached module: what it has read
  is what the tables say now, unless it missed an invalidation or some handler is dirty
  (`BuildsFresh`); and that a handler is dirty only at the steps that follow one of its
  changes (`Owing`, `DirtyInv`). `EscapesKnown` then goes through the steps: one that
  ends a dirty handler without an invalidation is among the listed sites. (`db.rs:504` is
  one that the proof found and `MCCacheRequests` now reaches.) `LockedOutAlways` follows
  from what `CacheInv` says of a module and of a build when the current blob does not
  decode.

For any sessions, imports, tokens and accounts (`LiveRepliesProofs`):

* `TypeCorrect`: `Spec => []TypeOK`; it needs that the token of an import under way is
  an account's (`ImportsKnown`).
* `RegisteredAlways`: `Spec => []Registered`, which is inductive with the types it
  stands on. It is why the drop of closed channels in `push_live_insert` never finds one.
* `ShownAlways`: `Spec => []ShownUnlessRaced`. `ShownInv` follows an import on its way
  to the loop: what the cache holds or misses once the import has invalidated
  (`CacheTold`), what a build that has read is about to cache (`BuildTold`), what a
  chosen module holds or misses once the import has pushed (`ChosenTold`), and that
  a module that was sent was shown (`ModuleSeen`). The push itself rests on `Registered`: a
  session in its loop is there to be pushed to.

For any bytes, any first capacity, and modules and replies of any size whose fields are
of the types the build functions take (`FramesProofs`, on the lemmas of `FlatBuilderProofs`):

* `ScriptInOrder`, which the others rest on: the build functions call the builder in an order
  that makes sense, whatever they are given. A Ref is named once, in the buffer it is used
  in and before it is used; a field is added once, to a table that is open and has a slot
  for it; the inner FlatBuffer is finished before it is made the payload, and the outer one
  is finished last (`InOrder`). Whether calls may come next depends only on the names given
  before them, so each build function has a lemma about its own calls (`EntryCodedFits`,
  `LangTableFits`, `RootFits` and the others: a `Segment`), and `SegmentEach` joins those of
  all the elements of a list, of any length. `LangOrderAll` shows that the order in which
  languages are built has each of them once.
* `ZerosAhead`: `Spec => []ZeroAhead`; `AlignedAlways`: `Spec => []FourAligned`;
  `BytesStay`: `Spec => WrittenOnce`. Each operation of the builder has a lemma that says
  the result is `Longer`: a builder again, by so many bytes, with every old byte at its
  distance from the end (`Kept`) and, if there were only zeros before head, only zeros
  there still (`Ahead`). `Moving` is the core: what `Grow` makes of a buffer. The lengths
  alone give the alignment: a block is padded so that its count comes to lie on a multiple
  of four from the end, a field is aligned before it is pushed, and `end_table` aligns
  before it takes the table's place, so the vtable may end between. `TableClosed` is about
  the vtable that is shared, or pushed with or without growing: without, the patch of the
  soffset hits the placeholder of this very table; with (`VTableGrows`), it may hit free
  bytes or the new vtable, but nothing older.
* `VTablesAlwaysShared`: `Spec => []VTablesShared`. What `Same` compares are the bytes a
  vtable has now, so the invariant says of the vtables in the list that each one's size
  word covers bytes of the buffer and that no two are equal (`VTablesApart`); `VTablesKept`
  carries it through any call that keeps what was written, and `VTablesMade` through
  `end_table`, from the case in which nothing equal was found.
* `AlwaysReadsBack`: `Spec => []ReadsBack`. First, that what is written is what is read:
  `FourBytes` and `Read32` show that the bytes `LE` makes of a number give it back, also
  the two's complement of a negative soffset, `HoldsWord` finds the words of a vtable.
  Then what each call writes is stated as a place and a content (`ObjectHere`:
  `BytesHere`, `VectorHere`, `TableHere`), and `ObjectKept` shows that it needs only the
  bytes up to that place, so all later calls keep it. The open table is what makes the
  invariant delicate: until `end_table`, what it was given is scattered over its slots,
  with gaps and a string of its own between (`FieldsHere`, `RowInv`); `TableMade` shows
  that the vtable end_table then writes, or the older one it finds equal, leads each
  field to its slot and every other id to none. It needs that a field is given once and
  below the table's count, and that the offsets given are of this buffer: which calls came
  before, in the inner FlatBuffer or the wrapper, is kept by `PlaceInv`, `NamesInv`,
  `InnerInv` and `OpenInv`.

`FrameInv`, the conjunction of these parts, is the inductive invariant: the content of the
objects (`ObjectsInv`) and of the open table (`RowInv`) hold of every table not in `lost`;
zeros, terminators and sharing (`CleanInv`) only while `lost` is empty, since a patch that
goes astray may hit them, and the lemma `CloseStep` shows that it hits nothing else.

On top of that, for the same inputs (`FrameParsingProofs`):

* `FramesParse`: `Spec => []FrameParses`. `AlwaysReadsBack` says that each object reads as
  what it was made of; left is that these are the objects of the input, in its order, and
  that the parser finds them. The invariant `ParseInv` ties both to the script. `GivenInv`
  says what each object was made of by its place in the script (`MadeOf`): a string of
  its call's bytes, a table of what the calls since its `start_table` gave (`RowIs`).
  `FinishLaid` carries this to the finished bytes: what the calls of a script say can be read
  there (`Laid`), at the distances from the end that `finish` keeps. From then on the
  builder is out of the proof. A script is its segments in a row, and what is laid of
  the whole is laid of each part (`LaidPart`); so each build function has a lemma about
  its own calls alone (`LogEntryRead`, `ConfigEntryRead`, `LangTableRead`, `RootLaid`,
  `WrapperRead` and the others) that gives what the parser makes of its table. The
  loops over entries are folds; `Flattened` shows of the fold, by a least
  counterexample and not by induction, that the calls for each element are a part of the
  whole, so a list may be of any length. By `LangOrderAll` the vector of languages leads to
  each of them in its place. `InnerFinish` and `OuterFinish` are the two steps that
  matter: the inner FlatBuffer reads as the input once it is finished, and keeps to it as
  the payload of the wrapper.

For any names, tokens, requests, uuids, codes, crashes and losses (`SharingProofs`):

* `TypeCorrect`, `TokensResolve`, `AccountsKept`, `SeedServed`, `WedgedByCrash`,
  `CodesOwnItems`, `BasesAtBoot`, `NothingRepairs`, `OwnersUnshare`: every invariant and
  action property of `MCService`. `AccountInv` joins the tables to where `main()` is:
  there is no account without the default one and no base module but with it, save
  inside the seeding and in what a start that died there left (`SeedInv`, `HalfInv`),
  and the TLS files are whole and of one pair unless a start died writing them
  (`FilesInv`). From it follow the seed's availability, token resolution (the default
  token belongs to the default account because that account comes first) and that
  nothing repairs itself. `ShareInv` adds that the item of a share was there once, so
  its uuid is not given again (`ItemsInv`), and that an unshare that has looked holds a
  code of its account or one that another unshare deleted since (`UnshareInv`).

Assumptions on the constants: the named ones in `EntryStore`. What clients send is
restricted by `MessagesAssumption` only: a create or import has a name, an import a
content, an admin request a timestamp, a type-7 message a blob, and an admin's new log
row goes to the account in its path; the parser (`client_msg.rs`) and the request types
guarantee that. `EntrySerial` assumes that `None` is no entry and no message. The other modules assume that
`None` is none of the names, tokens, imports, uuids or codes, that accounts' tokens are tokens,
and that the default name and token exist. `Frames` assumes of its inputs
only their types (`InputsAssumption`): `IsModule`, `IsEntry` and `IsLanguage` say what the
structs of `module.rs` hold, with `Vec`s for lists, bytes for strings and `None` only where
the struct has an `Option`; translations that are there are serialized JSON and so not
empty. A module is built with an entry of `configs` that has a code when a script of its id
exists (`module_builder.rs:46`), but the builder writes none (`module_builder.rs:252`), so
what a frame is judged by is `AsWritten`. `AdminAssumption` says that "admin" is bytes, and
`WidthAssumption` that the vtable of the widest table, a module's root of 13 slots, is of a
16-bit size. TLC evaluates the three for every input of `MCFlat` and `MCFlatGrowth`.
`ReadsBack` speaks of buffers shorter than 2^31 bytes (`InReach`), and `FrameParses` of
frames shorter than that: beyond, an `as i32` or `as u32` of the builder does not keep an
offset. In `MCFlat`, where that bound is 2048 bytes, it leaves out no frame that lost nothing.

Only model-checked: `CountedIsShown`, `LeavesNothing` and `ComesUp`, since liveness is beyond the prover; and
the three runs that are expected to fail.

## Not modelled

* Client messages: how a table finds its fields is in `FlatBuilder`, on frames the
  builder makes; the bounds checks on any other bytes are a sequence of early
  returns without state.
* The writer of the `nl_parser` tool, skin data, JSON of translations: opaque bytes that
  the server hands through. AES and LZ4 (`pipeline.rs`) are one call each way.
* Passwords, login and avatars: one read and one answer. `ip_tokens` is a map from
  address to last token (`ws.rs:73`) that the avatar route reads; nothing in the repository
  says what it should hold, so there is no property to state.
* The raw module override of `handle_ws` (a file in place of the database) and
  `ws_tls = false`, which leaves out the files of `Accounts`.
* Read-only routes, the web client (its requests come in any order in the modules of
  the server), Lua libraries.

sqlx and SQLite are taken to execute one statement atomically and to give back what
was stored, uuids compared by value. Crashes are deaths of the process; a commit that
is lost with the machine (`synchronous = NORMAL`) counts as a crash before the
statement, but a file that the system had not written out is not modelled. A module
parses or is an error; that it panics is left out (`module.rs:50` catches a panic, which
the release profile's `panic = "abort"`, `Cargo.toml:36`, does not let it do).

## Plan

Done: the modules above, and a theorem for every invariant and action property of the
passing runs. Left: `ClientMsg`, the parser of a client's frames over arbitrary small byte
strings.
