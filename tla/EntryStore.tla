------------------------------ MODULE EntryStore ------------------------------
(***************************************************************************)
(* The entries of one account of the server (src/server/rust-server): its  *)
(* rows in log_entries, scripts, configs and styles, and the handlers that *)
(* change them.  Every query of those handlers filters by user_id, so one  *)
(* account is the whole story.                                             *)
(*                                                                         *)
(* A handler is a task: a websocket of the account running                 *)
(* handle_client_msg, or an HTTP request running import_to_account or one  *)
(* of the /admin/users/{id}/logs handlers.  Each SQL statement is one step *)
(* of its task (SQLite runs a statement atomically, and none of these      *)
(* handlers opens a transaction); between two statements any other task    *)
(* may run.  Authors, row uuids of the backing tables, updated_at and the  *)
(* logging are left out.                                                   *)
(***************************************************************************)
EXTENDS Integers, FiniteSets, FiniteSetsExt

CONSTANTS
  Sockets,    \* websocket connections of the account
  Requests,   \* HTTP requests that touch the account
  Messages,   \* what clients and administrators may send
  Uuids,      \* primary keys of log_entries (its size bounds the log)
  MaxId,      \* i32::MAX: entry ids are the integers -MaxId-1 .. MaxId
  Names,      \* entry names
  Contents,   \* entry contents
  Times,      \* timestamps
  Blobs,      \* type-7 blobs, in the text form the client sends
  Empty,      \* the empty string, a name and a content
  None,       \* an absent option, an absent row
  Faulty,     \* whether an SQL statement may fail
  Crashes     \* whether the process may die and HTTP peers may hang up

Tasks == Sockets \cup Requests

Types == {"Config", "Script", "Style"}

Ids == (-MaxId - 1) .. MaxId

Row == [name : Names, content : Contents]

LogRow == [uid : Uuids, type : Types, id : Ids, ts : Times]

Creating == {"create", "duplicate", "import"}

Admin == {"adminCreate", "adminUpdate", "adminDelete"}

SocketOps == {"create", "update", "duplicate", "delete", "type7"}

RequestOps == {"import"} \cup Admin

\* A message after parsing, or the JSON body of a request.  An option that
\* is not there, and a field the operation has no use for, is None.  For
\* "import" name and content are those of the shared item the handler has
\* fetched; "own" says whether the user id in an admin path is the account
\* that owns the log row the path names.
Message ==
  [op : SocketOps \cup RequestOps, type : Types, id : Ids,
   name : Names \cup {None}, content : Contents \cup {None},
   ts : Times \cup {None}, blob : Blobs \cup {None}, own : BOOLEAN]

ASSUME TasksAssumption == Sockets \cap Requests = {}

ASSUME IdsAssumption == MaxId \in Nat \ {0}

ASSUME NoneAssumption ==
  /\ Empty \in Names \cap Contents
  /\ None \notin Names \cup Contents \cup Times \cup Blobs
  /\ None \notin Row

\* Clients always name what they create and share what has a text; an
\* administrator always gives a timestamp, and creates a log row in the
\* account the path names.
ASSUME MessagesAssumption ==
  /\ Messages \subseteq Message
  /\ \A m \in Messages :
       /\ m.op \in {"create", "import"} => m.name # None
       /\ m.op = "import" => m.content # None
       /\ m.op \in {"adminCreate", "adminUpdate"} => m.ts # None
       /\ m.op = "adminCreate" => m.own
       /\ m.op = "type7" => m.blob # None

ASSUME SwitchAssumption == Faulty \in BOOLEAN /\ Crashes \in BOOLEAN

VARIABLES
  log,    \* the account's rows of log_entries
  rows,   \* rows[type][id]: the row of that table with that entry_id
  blob,   \* users.type7_blob
  task    \* what each task is doing

vars == <<log, rows, blob, task>>

-----------------------------------------------------------------------------
(* Tasks. *)

InsertSteps == {"insertRow", "createNamed", "recreate"}

Steps == InsertSteps \cup
  {"idle", "nextId", "readSource", "insertLog", "copyText", "touchLog",
   "rename", "invalidateName", "setText", "rewrite", "deleteRow",
   "deleteLog", "setBlob", "adminLog", "invalidate", "reply"}

\* pc is the statement the task runs next, msg what it is handling, id the
\* entry it works on, name and content what it will write there, and upsert
\* the statement of create_style it has come to.
TaskState ==
  [pc : Steps, msg : Message, id : Ids, name : Names \cup {None},
   content : Contents \cup {None}, upsert : {"insert", "update", "fetch"}]

NoMessage ==
  [op |-> "delete", type |-> "Config", id |-> 0, name |-> None,
   content |-> None, ts |-> None, blob |-> None, own |-> TRUE]

Idle ==
  [pc |-> "idle", msg |-> NoMessage, id |-> 0, name |-> None,
   content |-> None, upsert |-> "insert"]

Busy(t) == task[t].pc # "idle"

Quiescent == \A t \in Tasks : ~Busy(t)

-----------------------------------------------------------------------------
(* The order of the statements in each handler: the step that follows step *)
(* s, which succeeded, in the handler of message m.                        *)

\* Mutant: the content is left out.
CreateNextNoText(m, s) ==
  CASE s = "nextId"     -> "insertLog"
    [] s = "insertLog"  -> "insertRow"
    [] s = "insertRow"  -> "invalidate"
    [] s = "invalidate" -> "reply"
    [] OTHER            -> "idle"

CreateNext(m, s) ==
  CASE s = "nextId"     -> "insertLog"
    [] s = "insertLog"  -> "insertRow"
    [] s = "insertRow"  -> IF m.content # None THEN "setText" ELSE "invalidate"
    [] s = "invalidate" -> "reply"
    [] OTHER            -> "idle"

\* The parts of an update still to do once its timestamp is written.
UpdateRest(m) ==
  IF m.name # None THEN "rename"
  ELSE IF m.content # None THEN "setText" ELSE "idle"

\* Mutant: the handler returns once the timestamp is written.
UpdateNextEarly(m, s) ==
  IF s = "invalidateName" /\ m.content # None THEN "setText" ELSE "idle"

UpdateNext(m, s) ==
  CASE s = "touchLog"       -> UpdateRest(m)
    [] s = "invalidateName" -> IF m.content # None THEN "setText" ELSE "idle"
    [] OTHER                -> "idle"

DuplicateNext(m, s) ==
  CASE s = "nextId"     -> "readSource"
    [] s = "readSource" -> "insertRow"
    [] s = "insertRow"  -> "copyText"
    [] s = "copyText"   -> "invalidate"
    [] s = "invalidate" -> "insertLog"
    [] s = "insertLog"  -> "reply"
    [] OTHER            -> "idle"

\* Mutant: the log row stays.
DeleteNextNoLog(m, s) == IF s = "deleteRow" THEN "invalidate" ELSE "idle"

DeleteNext(m, s) ==
  CASE s = "deleteRow" -> "deleteLog"
    [] s = "deleteLog" -> "invalidate"
    [] OTHER           -> "idle"

\* Mutant: no log row.
ImportNextNoLog(m, s) ==
  CASE s = "nextId"     -> "insertRow"
    [] s = "insertRow"  -> "copyText"
    [] s = "copyText"   -> "invalidate"
    [] s = "invalidate" -> "reply"
    [] OTHER            -> "idle"

\* Mutant: the invalidation before the last change.
ImportNextEarly(m, s) ==
  CASE s = "nextId"     -> "insertRow"
    [] s = "insertRow"  -> "copyText"
    [] s = "copyText"   -> "invalidate"
    [] s = "invalidate" -> "insertLog"
    [] s = "insertLog"  -> "reply"
    [] OTHER            -> "idle"

ImportNext(m, s) ==
  CASE s = "nextId"     -> "insertRow"
    [] s = "insertRow"  -> "copyText"
    [] s = "copyText"   -> "insertLog"
    [] s = "insertLog"  -> "invalidate"
    [] s = "invalidate" -> "reply"
    [] OTHER            -> "idle"

\* Every admin log handler invalidates the module of the user in its path,
\* which is this account's only if "own".
AdminNext(m, s) ==
  IF s = "adminLog" /\ m.own THEN "invalidate" ELSE "idle"

\* update_entry_name and update_entry_content invalidate before they return.
After(m, s) ==
  CASE s \in {"rename", "createNamed"} -> "invalidateName"
    [] s \in {"setText", "rewrite"}    -> "invalidate"
    [] s = "recreate"                  -> "rewrite"
    [] s = "setBlob"                   -> "invalidate"
    [] OTHER ->
         CASE m.op = "create"    -> CreateNext(m, s)
           [] m.op = "update"    -> UpdateNext(m, s)
           [] m.op = "duplicate" -> DuplicateNext(m, s)
           [] m.op = "delete"    -> DeleteNext(m, s)
           [] m.op = "import"    -> ImportNext(m, s)
           [] m.op \in Admin     -> AdminNext(m, s)
           [] OTHER              -> "idle"

\* Mutant: a failing content write ends the handler.
ToleratedButText == {"touchLog", "rename", "createNamed", "rewrite", "deleteLog"}

\* Mutant: a failing write of a copied content is passed over.
ToleratedCopy ==
  {"touchLog", "rename", "createNamed", "setText", "rewrite", "deleteLog",
   "copyText"}

\* An error is logged and passed over here; everywhere else it ends the
\* handler on the spot.
Tolerated ==
  {"touchLog", "rename", "createNamed", "setText", "rewrite", "deleteLog"}

OnError(m, s) ==
  IF s = "recreate" THEN "invalidate"
  ELSE IF s \in Tolerated THEN After(m, s)
  ELSE "idle"

FirstStep(m) ==
  CASE m.op \in Creating -> "nextId"
    [] m.op = "update"   -> IF m.ts # None THEN "touchLog" ELSE UpdateRest(m)
    [] m.op = "delete"   -> "deleteRow"
    [] m.op = "type7"    -> "setBlob"
    [] OTHER             -> "adminLog"

Goto(t, s) ==
  task' = [task EXCEPT ![t] =
             IF s = "idle" THEN Idle
             ELSE [@ EXCEPT !.pc = s, !.upsert = "insert"]]

Done(t) == Goto(t, After(task[t].msg, task[t].pc))

Fail(t) == Goto(t, OnError(task[t].msg, task[t].pc))

-----------------------------------------------------------------------------
(* Statements on log_entries. *)

\* SELECT MAX(entry_id), COALESCEd to 0.
LastId == IF log = {} THEN 0 ELSE Max({l.id : l \in log})

\* Mutant: the next id does not wrap.
NextIdUnbounded == LastId + 1

\* The increment is an i32 addition: a release build wraps.
NextId == IF LastId = MaxId THEN -MaxId - 1 ELSE LastId + 1

FreeUuids == Uuids \ {l.uid : l \in log}

\* INSERT INTO log_entries: nothing but the new uuid is unique.
AddLog(ty, i, ts) ==
  \E u \in FreeUuids :
    log' = log \cup {[uid |-> u, type |-> ty, id |-> i, ts |-> ts]}

NextEntryId(t) ==
  /\ task[t].pc = "nextId"
  /\ task' = [task EXCEPT ![t].pc = After(task[t].msg, "nextId"),
                          ![t].id = NextId]
  /\ UNCHANGED <<log, rows, blob>>

InsertLog(t) ==
  /\ task[t].pc = "insertLog"
  /\ \E now \in Times : AddLog(task[t].msg.type, task[t].id, now)
  /\ Done(t)
  /\ UNCHANGED <<rows, blob>>

\* UPDATE ... WHERE user_id = ? AND entry_id = ?: rows of every type.
TouchLog(t) ==
  /\ task[t].pc = "touchLog"
  /\ log' = {IF l.id = task[t].id THEN [l EXCEPT !.ts = task[t].msg.ts] ELSE l :
               l \in log}
  /\ Done(t)
  /\ UNCHANGED <<rows, blob>>

\* DELETE ... WHERE user_id = ? AND entry_id = ?: rows of every type.
DeleteLog(t) ==
  /\ task[t].pc = "deleteLog"
  /\ log' = {l \in log : l.id # task[t].id}
  /\ Done(t)
  /\ UNCHANGED <<rows, blob>>

\* The admin handlers name a log row by its uuid, not by account and id; a
\* uuid that is gone changes nothing.
AdminLog(t) ==
  LET m == task[t].msg IN
  /\ task[t].pc = "adminLog"
  /\ \/ m.op = "adminCreate" /\ AddLog(m.type, m.id, m.ts)
     \/ /\ m.op = "adminUpdate"
        /\ \E l \in log :
             log' = (log \ {l}) \cup
                      {[l EXCEPT !.type = m.type, !.id = m.id, !.ts = m.ts]}
     \/ m.op = "adminDelete" /\ \E l \in log : log' = log \ {l}
     \/ m.op # "adminCreate" /\ UNCHANGED log
  /\ Done(t)
  /\ UNCHANGED <<rows, blob>>

-----------------------------------------------------------------------------
(* Statements on scripts, configs and styles. *)

\* The row a task works on: its table is the one for the type it was given.
Backing(t) == rows[task[t].msg.type][task[t].id]

Write(t, r) == rows' = [rows EXCEPT ![task[t].msg.type][task[t].id] = r]

\* SELECT of the source; a name that is given (and not blank) wins over the
\* source's own.
ReadSource(t) ==
  LET m == task[t].msg
      source == rows[m.type][m.id]
  IN
  /\ task[t].pc = "readSource"
  /\ \/ /\ source # None
        /\ task' = [task EXCEPT
             ![t].pc = After(m, "readSource"),
             ![t].name = IF m.name \in {None, Empty} THEN source.name ELSE m.name,
             ![t].content = source.content]
     \/ source = None /\ Fail(t)
  /\ UNCHANGED <<log, rows, blob>>

\* Mutant: every table is renamed over.
UpsertingAll == Types

\* The types whose create_ function carries on when the INSERT fails.
Upserting == {"Style"}

\* INSERT of a row without content, unique on (user_id, entry_id).  On any
\* error create_style goes on to an UPDATE; the other two report it.
InsertRow(t) ==
  LET s == task[t].pc IN
  /\ s \in InsertSteps /\ task[t].upsert = "insert"
  /\ \/ /\ Backing(t) = None
        /\ Write(t, [name    |-> IF s = "recreate" THEN Empty ELSE task[t].name,
                     content |-> Empty])
        /\ Done(t)
     \/ /\ Backing(t) # None
        /\ \/ task[t].msg.type \notin Upserting /\ Fail(t)
           \/ /\ task[t].msg.type \in Upserting
              /\ task' = [task EXCEPT ![t].upsert = "update"]
        /\ UNCHANGED rows
  /\ UNCHANGED <<log, blob>>

\* The UPDATE of create_style gives the row that is there the new name and
\* leaves its content.
UpsertStyle(t) ==
  /\ task[t].upsert = "update"
  /\ IF Backing(t) = None THEN UNCHANGED rows
     ELSE Write(t, [Backing(t) EXCEPT
                      !.name = IF task[t].pc = "recreate" THEN Empty ELSE task[t].name])
  /\ task' = [task EXCEPT ![t].upsert = "fetch"]
  /\ UNCHANGED <<log, blob>>

\* The SELECT that ends create_style fails if the row is gone by now.
FetchStyle(t) ==
  /\ task[t].upsert = "fetch"
  /\ IF Backing(t) = None THEN Fail(t) ELSE Done(t)
  /\ UNCHANGED <<log, rows, blob>>

\* update_*_content of a duplicate or an import: no row to update is fine.
CopyText(t) ==
  /\ task[t].pc = "copyText"
  /\ IF Backing(t) = None THEN UNCHANGED rows
     ELSE Write(t, [Backing(t) EXCEPT !.content = task[t].content])
  /\ Done(t)
  /\ UNCHANGED <<log, blob>>

Rename(t) ==
  /\ task[t].pc = "rename"
  /\ \/ /\ Backing(t) # None
        /\ Write(t, [Backing(t) EXCEPT !.name = task[t].name])
        /\ Done(t)
     \/ Backing(t) = None /\ Goto(t, "createNamed") /\ UNCHANGED rows
  /\ UNCHANGED <<log, blob>>

\* update_entry_content: no row to update is created and written again.
SetText(t) ==
  LET s == task[t].pc IN
  /\ s \in {"setText", "rewrite"}
  /\ \/ /\ Backing(t) # None
        /\ Write(t, [Backing(t) EXCEPT !.content = task[t].content])
        /\ Done(t)
     \/ /\ Backing(t) = None
        /\ IF s = "setText" THEN Goto(t, "recreate") ELSE Done(t)
        /\ UNCHANGED rows
  /\ UNCHANGED <<log, blob>>

DeleteRow(t) ==
  /\ task[t].pc = "deleteRow"
  /\ Write(t, None)
  /\ Done(t)
  /\ UNCHANGED <<log, blob>>

-----------------------------------------------------------------------------
(* The rest of a handler, and what may befall it. *)

SetBlob(t) ==
  /\ task[t].pc = "setBlob"
  /\ blob' = task[t].msg.blob
  /\ Done(t)
  /\ UNCHANGED <<log, rows>>

\* AppState::invalidate_module.  The cache itself is in ModuleCache.
Invalidate(t) ==
  /\ task[t].pc \in {"invalidate", "invalidateName"}
  /\ Done(t)
  /\ UNCHANGED <<log, rows, blob>>

\* The answer: a case-1 frame on the task's own socket, or a live insert
\* pushed to the account's sockets and 200 OK.
Reply(t) ==
  /\ task[t].pc = "reply"
  /\ Done(t)
  /\ UNCHANGED <<log, rows, blob>>

\* A statement returns Err: the disk is full, the database is busy.
StatementFails(t) ==
  /\ Faulty /\ Busy(t)
  /\ task[t].pc \notin {"invalidate", "invalidateName", "reply"}
  /\ IF /\ task[t].pc \in InsertSteps
        /\ task[t].msg.type \in Upserting /\ task[t].upsert = "insert"
     THEN task' = [task EXCEPT ![t].upsert = "update"]
     ELSE Fail(t)
  /\ UNCHANGED <<log, rows, blob>>

\* hyper drops the future of a request whose peer has gone.
HangUp(r) ==
  /\ Crashes /\ Busy(r)
  /\ Goto(r, "idle")
  /\ UNCHANGED <<log, rows, blob>>

\* The process dies (or is told to stop) between two statements.
Crash ==
  /\ Crashes /\ ~Quiescent
  /\ task' = [t \in Tasks |-> Idle]
  /\ UNCHANGED <<log, rows, blob>>

\* Bound: a message that adds a log row comes only while there is a uuid
\* left for the row of each such message under way.
Room ==
  Cardinality({t \in Tasks : task[t].msg.op \in Creating \cup {"adminCreate"}})
    < Cardinality(FreeUuids)

Receive(t, m) ==
  /\ ~Busy(t)
  /\ m.op \in IF t \in Sockets THEN SocketOps ELSE RequestOps
  /\ m.op \in Creating \cup {"adminCreate"} => Room
  /\ FirstStep(m) # "idle"
  /\ task' = [task EXCEPT ![t] =
       [pc |-> FirstStep(m), msg |-> m, id |-> m.id, name |-> m.name,
        content |-> m.content, upsert |-> "insert"]]
  /\ UNCHANGED <<log, rows, blob>>

-----------------------------------------------------------------------------
(* Specification. *)

\* A new account: nothing in it.
Init ==
  /\ log = {}
  /\ rows = [ty \in Types |-> [i \in Ids |-> None]]
  /\ blob = None
  /\ task = [t \in Tasks |-> Idle]

Statement(t) ==
  \/ NextEntryId(t) \/ ReadSource(t) \/ InsertLog(t) \/ InsertRow(t)
  \/ UpsertStyle(t) \/ FetchStyle(t) \/ CopyText(t) \/ TouchLog(t)
  \/ Rename(t) \/ SetText(t) \/ DeleteRow(t) \/ DeleteLog(t)
  \/ SetBlob(t) \/ AdminLog(t)

Next ==
  \/ \E t \in Tasks :
       \/ \E m \in Messages : Receive(t, m)
       \/ Statement(t) \/ Invalidate(t) \/ Reply(t) \/ StatementFails(t)
  \/ \E r \in Requests : HangUp(r)
  \/ Crash

Spec == Init /\ [][Next]_vars

-----------------------------------------------------------------------------
(* Properties. *)

\* The variables hold what the schema and the Rust types allow.
TypeOK ==
  /\ log \subseteq LogRow
  /\ rows \in [Types -> [Ids -> Row \cup {None}]]
  /\ blob \in Blobs \cup {None}
  /\ task \in [Tasks -> TaskState]

Ops == {m.op : m \in Messages}

\* The steps of a handler that has inserted the backing row of a new entry
\* and has not returned.
Holding(m, s) ==
  \/ /\ m.op = "create"
     /\ s \in {"setText", "recreate", "rewrite", "invalidate", "reply"}
  \/ /\ m.op \in {"duplicate", "import"}
     /\ s \in {"copyText", "insertLog", "invalidate", "reply"}

Holds(t) == Holding(task[t].msg, task[t].pc)

\* Next entry ids are read, not reserved: two handlers may hold the same
\* one.  The unique indexes must keep them from filling the same row of
\* scripts or configs.  (Of styles they do not: create_style renames the
\* other's row and carries on.)
UniqueOwner ==
  \A t, u \in Tasks :
    /\ t # u /\ Holds(t) /\ Holds(u)
    /\ task[t].msg.type = task[u].msg.type
    /\ task[t].msg.type # "Style"
    => task[t].id # task[u].id

\* What the new entry of a task holds once all is written.
Announced(t) ==
  [name    |-> task[t].name,
   content |-> IF task[t].content = None THEN Empty ELSE task[t].content]

\* Where entries are only made: when a create, duplicate or import answers,
\* the entry it announces has its log row and its backing row.  The backing
\* row of a script or config has the name and the content that the client
\* sent or asked to have copied, except that a create passes over a failed
\* write of its content and announces the entry empty of it.  What the row
\* of a style holds is StyleReply's subject.
TruthfulReply ==
  \A t \in Tasks :
    LET m == task[t].msg IN
    task[t].pc = "reply" =>
      /\ \E l \in log : l.type = m.type /\ l.id = task[t].id
      /\ Backing(t) # None
      /\ \/ m.type = "Style"
         \/ Backing(t) = Announced(t)
         \/ /\ Faulty /\ m.op = "create"
            /\ Backing(t) = [Announced(t) EXCEPT !.content = Empty]

\* Where entries are only made and nothing fails: the row of a style that is
\* announced holds what is announced, unless another handler made a style
\* under the same id (it is past its INSERT or UPDATE, or its log row is
\* there as well): create_style then has renamed one's row for the other,
\* and each writes its content over the other's.
StyleReply ==
  \A t \in Tasks :
    LET m == task[t].msg IN
    task[t].pc = "reply" /\ m.type = "Style" =>
      \/ Backing(t) = Announced(t)
      \/ \E u \in Tasks \ {t} :
           /\ task[u].msg.type = "Style" /\ task[u].id = task[t].id
           /\ Holds(u) \/ task[u].upsert = "fetch"
      \/ \E k, l \in log :
           /\ k # l /\ k.type = "Style" /\ l.type = "Style"
           /\ k.id = task[t].id /\ l.id = task[t].id

\* The next id to be given out is free in every table with a unique index,
\* or a handler is about to insert the log row that moves it on.  Otherwise
\* duplicate and import, which insert the backing row first, fail on every
\* call from then on.
NextIdFree ==
  Quiescent /\ LastId # MaxId =>
    \A ty \in Types : rows[ty][NextId] = None

\* Every log row has its backing row, unless its creator has yet to insert
\* it or a delete of that id has yet to remove the log row.
LogBacked ==
  \A l \in log :
    \/ rows[l.type][l.id] # None
    \/ \E t \in Tasks :
         /\ task[t].id = l.id
         /\ \/ task[t].pc = "deleteLog"
            \/ /\ task[t].msg.op = "create" /\ task[t].msg.type = l.type
               /\ task[t].pc = "insertRow"

=============================================================================
