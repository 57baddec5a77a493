-------------------------- MODULE EntrySerialProofs --------------------------
(***************************************************************************)
(* EntrySerial implements EntryBook, for any client, any number of entries *)
(* and any width of the ids: a message that arrives is asked of the book,  *)
(* and the handler's last statement is the step that does it.              *)
(***************************************************************************)
EXTENDS EntrySerial, EntryStoreProofs

-----------------------------------------------------------------------------
(* The invariant: what the tables show of a book of entries, and how far   *)
(* the handler at work has come with its entry.                            *)

\* The log rows of one entry.
At(ty, i) == {l \in log : l.type = ty /\ l.id = i}

\* The tables show entry e (or none) at a type and an id.
Shows(ty, i, e) ==
  IF e = None
  THEN rows[ty][i] = None /\ At(ty, i) = {}
  ELSE /\ rows[ty][i] = [name |-> e.name, content |-> e.content]
       /\ \E l \in At(ty, i) : l.ts = e.ts

Books == [Types -> [Ids -> Promise!Entry \cup {None}]]

Everywhere(b) == \A ty \in Types, i \in Ids : Shows(ty, i, b[ty][i])

\* The tables are as the last message left them, but for the entry that
\* task k is at work on.
Elsewhere(b, k) ==
  \A ty \in Types, i \in Ids :
    ty # k.msg.type \/ i # k.id => Shows(ty, i, b[ty][i])

UniqueIds == \A k, l \in log : k.id = l.id => k = l

PositiveIds == \A l \in log : l.id > 0

Given(new, old) == IF new = None THEN old ELSE new

\* NewId of EntryBook, of book b.
NewIdOf(b) == Max({i \in Ids : \E ty \in Types : b[ty][i] # None} \cup {0}) + 1

\* Which parts of a new entry are there at step s of a handler that makes
\* one ("idle" being its end).
Inserted(op, s) ==
  s \notin {"readSource", "insertRow"} /\ ~ (op = "create" /\ s = "insertLog")

Written(op, s) == Inserted(op, s) /\ s \notin {"setText", "copyText"}

Logged(op, s) ==
  \/ op = "create" /\ s # "insertLog"
  \/ op = "import" /\ s \in {"invalidate", "reply", "idle"}
  \/ op = "duplicate" /\ s \in {"reply", "idle"}

\* Task k is making an entry that is not in book b and has come to step s.
Making(b, k, s) ==
  LET m == k.msg
      source == b[m.type][m.id]
  IN
  /\ m.op = "duplicate" => source # None
  /\ s \notin {"recreate", "rewrite"}
  /\ s = "nextId" => Everywhere(b) /\ LastId < MaxId
  /\ s # "nextId" =>
       /\ k.id = NewIdOf(b) /\ k.id > 0
       /\ \A ty \in Types : b[ty][k.id] = None
       /\ Elsewhere(b, k)
       /\ rows[m.type][k.id] =
            IF Inserted(m.op, s)
            THEN [name    |-> k.name,
                  content |-> IF Written(m.op, s) THEN Given(k.content, Empty)
                              ELSE Empty]
            ELSE None
       /\ Logged(m.op, s) <=> At(m.type, k.id) # {}
  /\ s \notin {"nextId", "readSource"} /\ m.op = "duplicate" =>
       /\ k.name = IF m.name \in {None, Empty} THEN source.name ELSE m.name
       /\ k.content = source.content

\* Task k is changing an entry of book b.
Changing(b, k, s) ==
  LET m == k.msg
      old == b[m.type][m.id]
  IN
  /\ old # None /\ k.id = m.id
  /\ s \in {"touchLog", "rename", "invalidateName", "setText", "invalidate", "idle"}
  /\ Elsewhere(b, k)
  /\ rows[m.type][m.id] # None
  /\ rows[m.type][m.id] =
       [name    |-> IF s \in {"touchLog", "rename"} THEN old.name
                    ELSE Given(m.name, old.name),
        content |-> IF s \in {"invalidate", "idle"} THEN Given(m.content, old.content)
                    ELSE old.content]
  /\ \E l \in At(m.type, m.id) :
       l.ts = IF s = "touchLog" THEN old.ts ELSE Given(m.ts, old.ts)

\* Task k is removing an entry of book b.
Removing(b, k, s) ==
  LET m == k.msg IN
  /\ b[m.type][m.id] # None /\ k.id = m.id
  /\ Elsewhere(b, k)
  /\ s # "deleteRow" => rows[m.type][m.id] = None
  /\ IF s \in {"deleteRow", "deleteLog"} THEN At(m.type, m.id) # {}
     ELSE At(m.type, m.id) = {}

Serving(b, k, s) ==
  \/ k.msg.op \in Creating /\ Making(b, k, s)
  \/ k.msg.op = "update" /\ Changing(b, k, s)
  \/ k.msg.op = "delete" /\ Removing(b, k, s)
  \/ k.msg.op = "type7" /\ Everywhere(b)

OneAtWork ==
  \A t \in Tasks : Busy(t) =>
    /\ task[t].upsert = "insert"
    /\ \A u \in Tasks \ {t} : ~Busy(u)

SerialInv ==
  /\ TypeInv
  /\ UniqueIds /\ PositiveIds
  /\ settled \in Books
  /\ OneAtWork
  /\ Quiescent => Everywhere(settled)
  /\ \A t \in Tasks : Busy(t) => Serving(settled, task[t], task[t].pc)

-----------------------------------------------------------------------------
(* What one statement does to the tables. *)

\* Nothing changes outside of one entry.
OnlyAt(ty, i) ==
  \A uy \in Types, j \in Ids :
    uy # ty \/ j # i => rows'[uy][j] = rows[uy][j] /\ At(uy, j)' = At(uy, j)

LEMMA ElsewhereKept ==
  ASSUME NEW b, NEW k, Elsewhere(b, k), OnlyAt(k.msg.type, k.id)
  PROVE  Elsewhere(b, k)'
BY DEF Elsewhere, OnlyAt, Shows

LEMMA RowWritten ==
  ASSUME TypeInv, NEW t \in Tasks, NEW r, Write(t, r), UNCHANGED log
  PROVE  /\ rows'[task[t].msg.type][task[t].id] = r
         /\ OnlyAt(task[t].msg.type, task[t].id)
<1>1. /\ rows \in [Types -> [Ids -> Row \cup {None}]]
      /\ task[t].msg.type \in Types /\ task[t].id \in Ids
  BY WritesTyped DEF TypeInv, TypeOK
<1>2. rows' = [rows EXCEPT ![task[t].msg.type][task[t].id] = r]
  BY DEF Write
<1>3. \A uy \in Types, j \in Ids : At(uy, j)' = At(uy, j)
  BY DEF At
<1>4. \A uy \in Types, j \in Ids :
        uy # task[t].msg.type \/ j # task[t].id => rows'[uy][j] = rows[uy][j]
  BY <1>1, <1>2
<1> QED BY <1>1, <1>2, <1>3, <1>4 DEF OnlyAt

\* A log row under an id that has none.
LEMMA LogAdded ==
  ASSUME TypeInv, UniqueIds, PositiveIds,
         NEW ty \in Types, NEW i \in Ids, NEW ts \in Times, AddLog(ty, i, ts),
         i > 0, \A l \in log : l.id # i, UNCHANGED rows
  PROVE  /\ UniqueIds' /\ PositiveIds'
         /\ \E l \in At(ty, i)' : l.ts = ts
         /\ OnlyAt(ty, i)
<1>1. PICK u \in FreeUuids : log' = log \cup {[uid |-> u, type |-> ty, id |-> i, ts |-> ts]}
  BY DEF AddLog
<1> DEFINE l == [uid |-> u, type |-> ty, id |-> i, ts |-> ts]
<1>2. l.id = i /\ l.type = ty /\ l.ts = ts /\ log' = log \cup {l}
  BY <1>1
<1> HIDE DEF l
<1>3. UniqueIds' /\ PositiveIds'
  BY <1>2 DEF UniqueIds, PositiveIds
<1>4. l \in At(ty, i)'
  BY <1>2 DEF At
<1>5. ASSUME NEW uy \in Types, NEW j \in Ids, uy # ty \/ j # i
      PROVE  At(uy, j)' = At(uy, j)
  BY <1>2, <1>5 DEF At
<1> QED BY <1>2, <1>3, <1>4, <1>5 DEF OnlyAt

\* The timestamp of the log row of an id.
LEMMA LogTouched ==
  ASSUME TypeInv, UniqueIds, PositiveIds, NEW ty \in Types, NEW i \in Ids, NEW ts,
         log' = {IF l.id = i THEN [l EXCEPT !.ts = ts] ELSE l : l \in log},
         At(ty, i) # {}, UNCHANGED rows
  PROVE  /\ UniqueIds' /\ PositiveIds'
         /\ \E l \in At(ty, i)' : l.ts = ts
         /\ OnlyAt(ty, i)
<1> DEFINE T(l) == IF l.id = i THEN [l EXCEPT !.ts = ts] ELSE l
<1>1. \A l \in log : /\ T(l).id = l.id /\ T(l).type = l.type
                     /\ l.id = i => T(l).ts = ts
                     /\ l.id # i => T(l) = l
  BY DEF TypeInv, TypeOK, LogRow
<1>2. log' = {T(l) : l \in log}
  OBVIOUS
<1> HIDE DEF T
<1>3. UniqueIds' /\ PositiveIds'
  BY <1>1, <1>2 DEF UniqueIds, PositiveIds
<1>4. PICK l \in log : l.type = ty /\ l.id = i
  BY DEF At
<1>5. T(l) \in At(ty, i)' /\ T(l).ts = ts
  BY <1>1, <1>2, <1>4 DEF At
<1>6. ASSUME NEW uy \in Types, NEW j \in Ids, uy # ty \/ j # i
      PROVE  At(uy, j)' = At(uy, j)
  <2>1. CASE j # i
    <3>1. \A k : k \in log' /\ k.id = j <=> k \in log /\ k.id = j
      BY <1>1, <1>2, <2>1
    <3> QED BY <3>1 DEF At
  <2>2. CASE j = i /\ uy # ty
    <3>1. \A k \in log : k.id = i => k = l
      BY <1>4 DEF UniqueIds
    <3>2. At(uy, j) = {}
      BY <1>4, <2>2, <3>1 DEF At
    <3>3. At(uy, j)' = {}
      BY <1>1, <1>2, <1>4, <2>2, <3>1 DEF At
    <3> QED BY <3>2, <3>3
  <2> QED BY <1>6, <2>1, <2>2
<1> QED BY <1>3, <1>5, <1>6 DEF OnlyAt

\* The log rows of an id, deleted.
LEMMA LogDeleted ==
  ASSUME UniqueIds, PositiveIds, NEW ty \in Types, NEW i \in Ids,
         log' = {l \in log : l.id # i}, At(ty, i) # {}, UNCHANGED rows
  PROVE  UniqueIds' /\ PositiveIds' /\ At(ty, i)' = {} /\ OnlyAt(ty, i)
<1>1. PICK l \in log : l.type = ty /\ l.id = i
  BY DEF At
<1>2. \A k \in log : k.id = i => k = l
  BY <1>1 DEF UniqueIds
<1>3. UniqueIds' /\ PositiveIds' /\ At(ty, i)' = {}
  BY DEF UniqueIds, PositiveIds, At
<1>4. ASSUME NEW uy \in Types, NEW j \in Ids, uy # ty \/ j # i
      PROVE  At(uy, j)' = At(uy, j)
  BY <1>1, <1>2, <1>4 DEF At
<1> QED BY <1>3, <1>4 DEF OnlyAt

\* Nothing.
LEMMA TablesKept ==
  ASSUME UNCHANGED <<log, rows>>, UniqueIds, PositiveIds
  PROVE  /\ UniqueIds' /\ PositiveIds'
         /\ \A ty, i : At(ty, i)' = At(ty, i) /\ rows'[ty][i] = rows[ty][i]
         /\ \A ty, i : OnlyAt(ty, i)
BY DEF UniqueIds, PositiveIds, At, OnlyAt

-----------------------------------------------------------------------------
(* The steps of each handler. *)

\* With no create_style on its way, the program counter says which action a
\* step is.
LEMMA StepIs ==
  ASSUME NEW t \in Tasks, task[t].upsert = "insert",
         Statement(t) \/ Invalidate(t) \/ Reply(t)
  PROVE  /\ task[t].pc = "nextId" => NextEntryId(t)
         /\ task[t].pc = "readSource" => ReadSource(t)
         /\ task[t].pc = "insertLog" => InsertLog(t)
         /\ task[t].pc \in InsertSteps => InsertRow(t)
         /\ task[t].pc = "copyText" => CopyText(t)
         /\ task[t].pc = "touchLog" => TouchLog(t)
         /\ task[t].pc = "rename" => Rename(t)
         /\ task[t].pc = "setText" => SetText(t)
         /\ task[t].pc = "deleteRow" => DeleteRow(t)
         /\ task[t].pc = "deleteLog" => DeleteLog(t)
         /\ task[t].pc = "setBlob" => SetBlob(t)
         /\ task[t].pc \in {"invalidate", "invalidateName"} => Invalidate(t)
         /\ task[t].pc = "reply" => Reply(t)
         /\ Busy(t)
BY DEF Statement, NextEntryId, ReadSource, InsertLog, InsertRow, UpsertStyle, FetchStyle,
       CopyText, TouchLog, Rename, SetText, DeleteRow, DeleteLog, SetBlob, AdminLog,
       Invalidate, Reply, InsertSteps, Busy

Acts(t) == Statement(t) \/ Invalidate(t) \/ Reply(t)

LEMMA ActsBusy ==
  ASSUME SerialInv, NEW t \in Tasks, Acts(t)
  PROVE  /\ Busy(t) /\ task[t].upsert = "insert" /\ TaskOK(task[t])
         /\ \A u \in Tasks \ {t} : ~Busy(u)
         /\ Serving(settled, task[t], task[t].pc)
         /\ task[t].msg \in Messages /\ task[t].msg \in Message
         /\ task[t].msg.type \in Types /\ task[t].id \in Ids
<1>1. TaskOK(task[t]) /\ TypeInv
  BY DEF SerialInv, TypeInv
<1>2. Busy(t)
  BY <1>1
     DEF Acts, Statement, NextEntryId, ReadSource, InsertLog, InsertRow, UpsertStyle,
         FetchStyle, CopyText, TouchLog, Rename, SetText, DeleteRow, DeleteLog, SetBlob,
         AdminLog, Invalidate, Reply, InsertSteps, Busy, TaskOK, Idle
<1> QED BY <1>1, <1>2, WritesTyped DEF SerialInv, OneAtWork

\* The handlers of create, duplicate and import, once they have their id
\* and what they will write.
LEMMA MakingStep ==
  ASSUME SerialInv, NEW t \in Tasks, NEW b, NEW k, k = task[t], b = settled,
         k.msg.op \in Creating, k.pc \notin {"nextId", "readSource"}, Acts(t)
  PROVE  /\ Done(t) /\ UniqueIds' /\ PositiveIds'
         /\ Making(b, k, After(k.msg, k.pc))'
<1> DEFINE m == k.msg
           s == k.pc
           n == After(k.msg, k.pc)
           ty == k.msg.type
           i == k.id
<1>1. /\ Busy(t) /\ task[t].upsert = "insert" /\ TaskOK(k)
      /\ m \in Messages /\ ty \in Types /\ i \in Ids
      /\ TypeInv /\ UniqueIds /\ PositiveIds
  BY ActsBusy DEF SerialInv
<1>2. Making(b, k, s)
  BY ActsBusy DEF Serving, Creating
<1>3. StepOK(m, s) /\ s # "idle"
  BY <1>1 DEF TaskOK, Busy
<1>4. /\ i = NewIdOf(b) /\ i > 0
      /\ \A uy \in Types : b[uy][i] = None
      /\ Elsewhere(b, k)
      /\ rows[ty][i] = IF Inserted(m.op, s)
                       THEN [name    |-> k.name,
                             content |-> IF Written(m.op, s) THEN Given(k.content, Empty)
                                         ELSE Empty]
                       ELSE None
      /\ Logged(m.op, s) <=> At(ty, i) # {}
      /\ s \notin {"recreate", "rewrite"}
  BY <1>2 DEF Making
<1>5. \/ s = "insertLog" \/ s = "insertRow" \/ s = "copyText"
      \/ s = "setText" \/ s = "invalidate" \/ s = "reply"
  <2>1. s \notin {"recreate", "rewrite", "nextId", "readSource", "idle"}
    BY <1>3, <1>4
  <2>2. StepOK(m, s) /\ m.op \in Creating
    BY <1>3
  <2> HIDE DEF m, s
  <2> QED BY <2>1, <2>2 DEF StepOK, Creating, Admin
<1>6. n \notin {"nextId", "readSource", "recreate", "rewrite"}
  BY <1>1, <1>3, <1>5 DEF After, CreateNext, DuplicateNext, ImportNext, StepOK, Creating, Admin
\* What is left to show of the step.
<1>7. ASSUME Elsewhere(b, k)',
             rows'[ty][i] = IF Inserted(m.op, n)
                            THEN [name    |-> k.name,
                                  content |-> IF Written(m.op, n)
                                              THEN Given(k.content, Empty) ELSE Empty]
                            ELSE None,
             (Logged(m.op, n) <=> At(ty, i)' # {})
      PROVE  Making(b, k, n)'
  BY <1>2, <1>4, <1>6, <1>7 DEF Making
<1>8. \A l \in log : l.type \in Types
  BY <1>1 DEF TypeInv, TypeOK, LogRow
<1>9. CASE s = "insertLog"
  <2>1. /\ InsertLog(t) /\ Done(t) /\ UNCHANGED rows
    BY <1>1, <1>9, StepIs DEF Acts, InsertLog
  <2>2. PICK now \in Times : AddLog(ty, i, now)
    BY <2>1 DEF InsertLog
  <2>3. ~ Logged(m.op, s)
    BY <1>3, <1>9 DEF Logged, Creating
  <2>4. \A l \in log : l.id # i
    <3>1. At(ty, i) = {}
      BY <1>4, <2>3
    <3>2. \A uy \in Types \ {ty} : At(uy, i) = {}
      BY <1>1, <1>4 DEF Elsewhere, Shows
    <3> QED BY <1>8, <3>1, <3>2 DEF At
  <2>5. UniqueIds' /\ PositiveIds' /\ At(ty, i)' # {} /\ OnlyAt(ty, i)
    BY <1>1, <1>4, <2>1, <2>2, <2>4, LogAdded
  <2>6. /\ Logged(m.op, n)
        /\ Inserted(m.op, n) <=> Inserted(m.op, s)
        /\ Written(m.op, n) <=> Written(m.op, s)
    BY <1>1, <1>3, <1>9
       DEF Logged, Inserted, Written, After, CreateNext, DuplicateNext, ImportNext,
           StepOK, Creating, Admin
  <2>7. Elsewhere(b, k)'
    BY <1>4, <2>5, ElsewhereKept
  <2>8. Making(b, k, n)'
    BY <1>4, <1>7, <2>1, <2>5, <2>6, <2>7
  <2> QED BY <2>1, <2>5, <2>8
<1>10. ASSUME NEW r, Write(t, r), UNCHANGED <<log, blob>>, Done(t),
              r = IF Inserted(m.op, n)
                  THEN [name    |-> k.name,
                        content |-> IF Written(m.op, n) THEN Given(k.content, Empty)
                                    ELSE Empty]
                  ELSE None,
              Logged(m.op, n) <=> Logged(m.op, s)
       PROVE  /\ Done(t) /\ UniqueIds' /\ PositiveIds'
              /\ Making(b, k, n)'
  <2>1. rows'[ty][i] = r /\ OnlyAt(ty, i)
    BY <1>1, <1>10, RowWritten
  <2>2. UniqueIds' /\ PositiveIds' /\ At(ty, i)' = At(ty, i)
    BY <1>1, <1>10 DEF UniqueIds, PositiveIds, At
  <2>3. Elsewhere(b, k)'
    BY <1>4, <2>1, ElsewhereKept
  <2> QED BY <1>4, <1>7, <1>10, <2>1, <2>2, <2>3
<1>11. CASE s = "insertRow"
  <2>1. InsertRow(t)
    BY <1>1, <1>11, StepIs DEF Acts, InsertSteps
  <2>2. Backing(t) = None
    BY <1>4, <1>11 DEF Backing, Inserted
  <2>3. /\ Write(t, [name |-> k.name, content |-> Empty])
        /\ Done(t) /\ UNCHANGED <<log, blob>>
    BY <1>11, <2>1, <2>2 DEF InsertRow
  <2>4. /\ Inserted(m.op, n)
        /\ Written(m.op, n) => k.content = None
        /\ Logged(m.op, n) <=> Logged(m.op, s)
    BY <1>1, <1>3, <1>11
       DEF Logged, Inserted, Written, After, CreateNext, DuplicateNext, ImportNext,
           StepOK, Creating, Admin, TaskOK
  <2>5. Written(m.op, n) => Given(k.content, Empty) = Empty
    BY <2>4 DEF Given
  <2> QED BY <1>10, <2>3, <2>4, <2>5
<1>12. CASE s \in {"copyText", "setText"}
  <2>1. /\ CopyText(t) \/ SetText(t)
        /\ k.content \in Contents
    BY <1>1, <1>12, StepIs, WritesTyped DEF Acts
  <2>2. Backing(t) = [name |-> k.name, content |-> Empty]
    BY <1>4, <1>12 DEF Backing, Inserted, Written
  <2>3. Backing(t) # None
    <3>1. k.name \in Names
      BY <1>1, <1>5, MessagesAssumption, WritesTyped
         DEF TaskOK, Creating, Message, TypeInv, TypeOK, TaskState
    <3>2. [name |-> k.name, content |-> Empty] \in Row
      BY <3>1, NoneAssumption DEF Row
    <3> QED BY <2>2, <3>2, NoneAssumption
  <2>4. /\ Write(t, [Backing(t) EXCEPT !.content = k.content])
        /\ Done(t) /\ UNCHANGED <<log, blob>>
    BY <1>12, <2>1, <2>3 DEF CopyText, SetText
  <2>5. /\ Inserted(m.op, n) /\ Written(m.op, n)
        /\ Logged(m.op, n) <=> Logged(m.op, s)
    BY <1>1, <1>3, <1>12
       DEF Logged, Inserted, Written, After, CreateNext, DuplicateNext, ImportNext,
           StepOK, Creating, Admin
  <2>6. [Backing(t) EXCEPT !.content = k.content]
          = [name |-> k.name, content |-> Given(k.content, Empty)]
    BY <2>1, <2>2, NoneAssumption DEF Given
  <2> QED BY <1>10, <2>4, <2>5, <2>6
<1>13. CASE s \in {"invalidate", "reply"}
  <2>1. Done(t) /\ UNCHANGED <<log, rows>>
    BY <1>1, <1>13, StepIs DEF Acts, Invalidate, Reply
  <2>2. /\ UniqueIds' /\ PositiveIds' /\ OnlyAt(ty, i)
        /\ At(ty, i)' = At(ty, i)
    BY <1>1, <2>1, TablesKept
  <2>3. /\ Logged(m.op, n) <=> Logged(m.op, s)
        /\ Inserted(m.op, n) <=> Inserted(m.op, s)
        /\ Written(m.op, n) <=> Written(m.op, s)
    BY <1>1, <1>3, <1>13
       DEF Logged, Inserted, Written, After, CreateNext, DuplicateNext, ImportNext,
           StepOK, Creating, Admin
  <2>4. Elsewhere(b, k)'
    BY <1>4, <2>2, ElsewhereKept
  <2> QED BY <1>4, <1>7, <2>1, <2>2, <2>3, <2>4
<1> QED BY <1>5, <1>9, <1>11, <1>12, <1>13

LEMMA RowChanged ==
  ASSUME NEW r, NEW name, NEW content, r = [name |-> name, content |-> content], NEW v
  PROVE  /\ [r EXCEPT !.name = v] = [name |-> v, content |-> content]
         /\ [r EXCEPT !.content = v] = [name |-> name, content |-> v]
OBVIOUS

\* The handler of update.
LEMMA ChangingStep ==
  ASSUME SerialInv, NEW t \in Tasks, NEW b, NEW k, k = task[t], b = settled,
         k.msg.op = "update", Acts(t)
  PROVE  /\ Done(t) /\ UniqueIds' /\ PositiveIds'
         /\ Changing(b, k, After(k.msg, k.pc))'
<1> DEFINE m == k.msg
           s == k.pc
           n == After(k.msg, k.pc)
           ty == k.msg.type
           i == k.id
           old == b[k.msg.type][k.msg.id]
<1>1. /\ Busy(t) /\ task[t].upsert = "insert" /\ TaskOK(k)
      /\ m \in Messages /\ ty \in Types /\ i \in Ids
      /\ TypeInv /\ UniqueIds /\ PositiveIds
      /\ k.name = m.name /\ k.content = m.content
  BY ActsBusy DEF SerialInv, TaskOK
<1>2. Changing(b, k, s)
  BY ActsBusy DEF Serving, Creating
<1>3. StepOK(m, s) /\ s # "idle"
  BY <1>1 DEF TaskOK, Busy
<1>4. /\ old # None /\ i = m.id /\ Elsewhere(b, k)
      /\ Backing(t) # None /\ Backing(t) \in Row
      /\ Backing(t) = [name    |-> IF s \in {"touchLog", "rename"} THEN old.name
                                   ELSE Given(m.name, old.name),
                       content |-> IF s \in {"invalidate", "idle"}
                                   THEN Given(m.content, old.content)
                                   ELSE old.content]
      /\ \E l \in At(ty, i) :
           l.ts = IF s = "touchLog" THEN old.ts ELSE Given(m.ts, old.ts)
  BY <1>1, <1>2, WritesTyped DEF Changing, Backing
<1>5. s \in {"touchLog", "rename", "invalidateName", "setText", "invalidate"}
  BY <1>2, <1>3 DEF Changing
<1>6. /\ s = "touchLog" => n = UpdateRest(m)
      /\ s = "rename" => n = "invalidateName" /\ m.name # None
      /\ s = "invalidateName" => n = IF m.content # None THEN "setText" ELSE "idle"
      /\ s = "setText" => n = "invalidate" /\ m.content # None
      /\ s = "invalidate" => n = "idle"
  BY <1>3 DEF After, UpdateNext, StepOK, Admin
<1>7. ASSUME NEW r, r # None, rows'[ty][i] = r, OnlyAt(ty, i),
             r = [name    |-> IF n \in {"touchLog", "rename"} THEN old.name
                              ELSE Given(m.name, old.name),
                  content |-> IF n \in {"invalidate", "idle"}
                              THEN Given(m.content, old.content)
                              ELSE old.content],
             \E l \in At(ty, i)' : l.ts = Given(m.ts, old.ts), n # "touchLog"
      PROVE  Changing(b, k, n)'
  <2>1. Elsewhere(b, k)'
    BY <1>4, <1>7, ElsewhereKept
  <2>2. n \in {"touchLog", "rename", "invalidateName", "setText", "invalidate", "idle"}
    BY <1>5, <1>6 DEF UpdateRest
  <2> QED BY <1>4, <1>7, <2>1, <2>2 DEF Changing
<1>8. CASE s = "touchLog"
  <2>1. /\ Done(t) /\ UNCHANGED rows /\ m.ts # None
        /\ log' = {IF l.id = i THEN [l EXCEPT !.ts = m.ts] ELSE l : l \in log}
    BY <1>1, <1>3, <1>8, StepIs DEF Acts, TouchLog, StepOK
  <2>2. At(ty, i) # {}
    BY <1>4
  <2>3. /\ UniqueIds' /\ PositiveIds' /\ OnlyAt(ty, i)
        /\ \E l \in At(ty, i)' : l.ts = m.ts
    <3>1. TypeInv /\ UniqueIds /\ PositiveIds /\ ty \in Types /\ i \in Ids
      BY <1>1
    <3> HIDE DEF m, s, n, ty, i, old
    <3> QED BY <2>1, <2>2, <3>1, LogTouched
  <2>4. \E l \in At(ty, i)' : l.ts = Given(m.ts, old.ts)
    BY <2>1, <2>3 DEF Given
  <2>5. /\ n # "touchLog"
        /\ Backing(t) = [name    |-> IF n \in {"touchLog", "rename"} THEN old.name
                                     ELSE Given(m.name, old.name),
                         content |-> IF n \in {"invalidate", "idle"}
                                     THEN Given(m.content, old.content)
                                     ELSE old.content]
    BY <1>4, <1>6, <1>8 DEF UpdateRest, Given
  <2>6. rows'[ty][i] = Backing(t)
    BY <2>1 DEF Backing
  <2> QED BY <1>4, <1>7, <2>1, <2>3, <2>4, <2>5, <2>6
<1>9. ASSUME NEW r, r # None, Write(t, r), UNCHANGED <<log, blob>>, Done(t),
             r = [name    |-> IF n \in {"touchLog", "rename"} THEN old.name
                              ELSE Given(m.name, old.name),
                  content |-> IF n \in {"invalidate", "idle"}
                              THEN Given(m.content, old.content)
                              ELSE old.content],
             n # "touchLog", s # "touchLog"
      PROVE  /\ Done(t) /\ UniqueIds' /\ PositiveIds'
             /\ Changing(b, k, n)'
  <2>1. rows'[ty][i] = r /\ OnlyAt(ty, i)
    BY <1>1, <1>9, RowWritten
  <2>2. UniqueIds' /\ PositiveIds' /\ At(ty, i)' = At(ty, i)
    BY <1>1, <1>9 DEF UniqueIds, PositiveIds, At
  <2>3. \E l \in At(ty, i)' : l.ts = Given(m.ts, old.ts)
    BY <1>4, <1>9, <2>2
  <2> QED BY <1>7, <1>9, <2>1, <2>2, <2>3
<1>10. CASE s = "rename"
  <2>1. Rename(t) /\ k.name \in Names
    BY <1>1, <1>10, StepIs, WritesTyped DEF Acts
  <2> DEFINE r == [Backing(t) EXCEPT !.name = k.name]
  <2>2. Write(t, r) /\ Done(t) /\ UNCHANGED <<log, blob>>
    BY <1>4, <2>1 DEF Rename
  <2>3. r = [name |-> Given(m.name, old.name), content |-> old.content]
    <3>1. Backing(t) = [name |-> old.name, content |-> old.content]
      BY <1>4, <1>10
    <3>2. k.name = Given(m.name, old.name)
      BY <1>1, <1>6, <1>10 DEF Given
    <3> HIDE DEF m, s, n, ty, i, old
    <3> QED BY <3>1, <3>2, RowChanged
  <2>4. r \in Row
    BY <1>4, <2>1 DEF Row
  <2>5. r # None
    BY <2>4, NoneAssumption
  <2> HIDE DEF r
  <2> QED BY <1>6, <1>9, <1>10, <2>2, <2>3, <2>5
<1>11. CASE s = "setText"
  <2>1. SetText(t) /\ k.content \in Contents
    BY <1>1, <1>11, StepIs, WritesTyped DEF Acts
  <2> DEFINE r == [Backing(t) EXCEPT !.content = k.content]
  <2>2. Write(t, r) /\ Done(t) /\ UNCHANGED <<log, blob>>
    BY <1>4, <2>1 DEF SetText
  <2>3. r = [name    |-> Given(m.name, old.name),
             content |-> Given(m.content, old.content)]
    <3>1. Backing(t) = [name |-> Given(m.name, old.name), content |-> old.content]
      BY <1>4, <1>11
    <3>2. k.content = Given(m.content, old.content)
      BY <1>1, <1>6, <1>11 DEF Given
    <3> HIDE DEF m, s, n, ty, i, old
    <3> QED BY <3>1, <3>2, RowChanged
  <2>4. r \in Row
    BY <1>4, <2>1 DEF Row
  <2>5. r # None
    BY <2>4, NoneAssumption
  <2> HIDE DEF r
  <2> QED BY <1>6, <1>9, <1>11, <2>2, <2>3, <2>5
<1>12. CASE s \in {"invalidateName", "invalidate"}
  <2>1. Done(t) /\ UNCHANGED <<log, rows>>
    BY <1>1, <1>12, StepIs DEF Acts, Invalidate
  <2>2. /\ UniqueIds' /\ PositiveIds' /\ OnlyAt(ty, i)
        /\ At(ty, i)' = At(ty, i)
    BY <1>1, <2>1, TablesKept
  <2>3. /\ n # "touchLog"
        /\ Backing(t) = [name    |-> IF n \in {"touchLog", "rename"} THEN old.name
                                     ELSE Given(m.name, old.name),
                         content |-> IF n \in {"invalidate", "idle"}
                                     THEN Given(m.content, old.content)
                                     ELSE old.content]
    BY <1>4, <1>6, <1>12 DEF Given
  <2>4. rows'[ty][i] = Backing(t)
    BY <2>1 DEF Backing
  <2>5. \E l \in At(ty, i)' : l.ts = Given(m.ts, old.ts)
    BY <1>4, <1>12, <2>2
  <2> QED BY <1>4, <1>7, <2>1, <2>2, <2>3, <2>4, <2>5
<1> QED BY <1>5, <1>8, <1>10, <1>11, <1>12

\* The handler of delete.
LEMMA RemovingStep ==
  ASSUME SerialInv, NEW t \in Tasks, NEW b, NEW k, k = task[t], b = settled,
         k.msg.op = "delete", Acts(t)
  PROVE  /\ Done(t) /\ UniqueIds' /\ PositiveIds'
         /\ Removing(b, k, After(k.msg, k.pc))'
<1> DEFINE m == k.msg
           s == k.pc
           n == After(k.msg, k.pc)
           ty == k.msg.type
           i == k.id
<1>1. /\ Busy(t) /\ task[t].upsert = "insert" /\ TaskOK(k)
      /\ m \in Messages /\ ty \in Types /\ i \in Ids
      /\ TypeInv /\ UniqueIds /\ PositiveIds
  BY ActsBusy DEF SerialInv
<1>2. Removing(b, k, s)
  BY ActsBusy DEF Serving, Creating
<1>3. /\ s \in {"deleteRow", "deleteLog", "invalidate"}
      /\ s = "deleteRow" => n = "deleteLog"
      /\ s = "deleteLog" => n = "invalidate"
      /\ s = "invalidate" => n = "idle"
  BY <1>1 DEF TaskOK, StepOK, Busy, After, DeleteNext, Admin
<1>4. CASE s = "deleteRow"
  <2>1. Write(t, None) /\ Done(t) /\ UNCHANGED <<log, blob>>
    BY <1>1, <1>4, StepIs DEF Acts, DeleteRow
  <2>2. rows'[ty][i] = None /\ OnlyAt(ty, i)
    BY <1>1, <2>1, RowWritten
  <2>3. UniqueIds' /\ PositiveIds' /\ At(ty, i)' = At(ty, i)
    BY <1>1, <2>1 DEF UniqueIds, PositiveIds, At
  <2>4. Elsewhere(b, k)'
    BY <1>2, <2>2, ElsewhereKept DEF Removing
  <2> QED BY <1>2, <1>3, <1>4, <2>1, <2>2, <2>3, <2>4 DEF Removing
<1>5. CASE s = "deleteLog"
  <2>1. Done(t) /\ UNCHANGED rows /\ log' = {l \in log : l.id # i}
    BY <1>1, <1>5, StepIs DEF Acts, DeleteLog
  <2>2. UniqueIds' /\ PositiveIds' /\ At(ty, i)' = {} /\ OnlyAt(ty, i)
    BY <1>1, <1>2, <1>5, <2>1, LogDeleted DEF Removing
  <2>3. Elsewhere(b, k)'
    BY <1>2, <2>2, ElsewhereKept DEF Removing
  <2> QED BY <1>2, <1>3, <1>5, <2>1, <2>2, <2>3 DEF Removing
<1>6. CASE s = "invalidate"
  <2>1. Done(t) /\ UNCHANGED <<log, rows>>
    BY <1>1, <1>6, StepIs DEF Acts, Invalidate
  <2>2. /\ UniqueIds' /\ PositiveIds' /\ OnlyAt(ty, i)
        /\ At(ty, i)' = At(ty, i)
    BY <1>1, <2>1, TablesKept
  <2>3. Elsewhere(b, k)'
    BY <1>2, <2>2, ElsewhereKept DEF Removing
  <2> QED BY <1>2, <1>3, <1>6, <2>1, <2>2, <2>3 DEF Removing
<1> QED BY <1>3, <1>4, <1>5, <1>6

\* The handler of a type-7 blob.
LEMMA BlobStep ==
  ASSUME SerialInv, NEW t \in Tasks, NEW b, NEW k, k = task[t], b = settled,
         k.msg.op = "type7", Acts(t)
  PROVE  Done(t) /\ UniqueIds' /\ PositiveIds' /\ Everywhere(b)'
<1>1. /\ Busy(t) /\ task[t].upsert = "insert" /\ TaskOK(k)
      /\ UniqueIds /\ PositiveIds /\ Everywhere(b)
  BY ActsBusy DEF SerialInv, Serving, Creating
<1>2. k.pc \in {"setBlob", "invalidate"}
  BY <1>1 DEF TaskOK, StepOK, Busy, Admin
<1>3. Done(t) /\ UNCHANGED <<log, rows>>
  BY <1>1, <1>2, StepIs DEF Acts, SetBlob, Invalidate
<1> QED BY <1>1, <1>3 DEF UniqueIds, PositiveIds, Everywhere, Shows, At

-----------------------------------------------------------------------------
(* Where a handler starts. *)

\* While the tables show a book, the next id is the book's new one, and no
\* table has anything under it.
LEMMA FreshId ==
  ASSUME TypeInv, PositiveIds, NEW b, Everywhere(b), LastId < MaxId
  PROVE  /\ NextId = NewIdOf(b) /\ NextId > 0 /\ NextId \in Ids
         /\ \A ty \in Types : /\ b[ty][NextId] = None
                              /\ rows[ty][NextId] = None /\ At(ty, NextId) = {}
<1> DEFINE S == {l.id : l \in log}
           U == {i \in Ids : \E ty \in Types : b[ty][i] # None} \cup {0}
<1>1. log \subseteq LogRow
  BY DEF TypeInv, TypeOK
<1>2. /\ LastId \in Ids /\ NextId \in Ids
      /\ \A l \in log : l.id <= LastId /\ l.type \in Types /\ l.id \in Ids
  BY <1>1, NextIdTyped DEF LogRow
<1>3. ASSUME NEW i \in Ids, NEW ty \in Types
      PROVE  b[ty][i] # None <=> \E l \in log : l.type = ty /\ l.id = i
  <2>1. Shows(ty, i, b[ty][i])
    BY DEF Everywhere
  <2>2. b[ty][i] # None <=> At(ty, i) # {}
    BY <2>1 DEF Shows
  <2> QED BY <2>2 DEF At
<1>4. U = S \cup {0}
  BY <1>2, <1>3, IdsAssumption DEF Ids
<1>5. U \in SUBSET Ids /\ U # {}
  BY IdsAssumption DEF Ids
<1>6. Max(U) \in U /\ \A i \in U : i <= Max(U)
  BY <1>5, MaxOfIds
<1>7. LastId \in U /\ LastId >= 0
  <2>1. CASE log = {}
    BY <2>1 DEF LastId
  <2>2. CASE log # {}
    <3>1. S \in SUBSET Ids /\ S # {}
      BY <1>2, <2>2
    <3>2. Max(S) \in S
      BY <3>1, MaxOfIds
    <3>3. LastId = Max(S)
      BY <2>2 DEF LastId
    <3> QED BY <1>2, <1>4, <3>2, <3>3, IdsAssumption DEF PositiveIds, Ids
  <2> QED BY <2>1, <2>2
<1>8. Max(U) = LastId
  <2>1. \A i \in U : i <= LastId /\ i \in Int
    BY <1>2, <1>4, <1>7 DEF Ids
  <2> HIDE DEF U
  <2> QED BY <1>6, <1>7, <2>1
<1>9. NextId = LastId + 1
  BY <1>2, IdsAssumption DEF NextId, Ids
<1>10. NextId = NewIdOf(b) /\ NextId > 0
  BY <1>2, <1>7, <1>8, <1>9 DEF NewIdOf, Ids
<1>11. \A l \in log : l.id # NextId
  BY <1>2, <1>9 DEF Ids
<1>12. \A ty \in Types : b[ty][NextId] = None /\ At(ty, NextId) = {}
  BY <1>2, <1>3, <1>11 DEF At
<1> QED BY <1>2, <1>10, <1>12 DEF Everywhere, Shows

\* NextEntryId reads the id of the entry to be made.
LEMMA NumberingStep ==
  ASSUME SerialInv, NEW t \in Tasks, NEW b, NEW k, k = task[t], b = settled,
         NEW j, j = task'[t], k.msg.op \in Creating, k.pc = "nextId", Acts(t)
  PROVE  /\ UniqueIds' /\ PositiveIds'
         /\ task' = [task EXCEPT ![t] = j] /\ j.msg = k.msg /\ j.upsert = "insert"
         /\ j.pc # "idle" /\ Making(b, j, j.pc)'
<1> DEFINE m == k.msg
<1>1. /\ NextEntryId(t) /\ TypeInv /\ UniqueIds /\ PositiveIds
      /\ task \in [Tasks -> TaskState] /\ task[t] \in TaskState
      /\ k.upsert = "insert" /\ m.type \in Types
  BY ActsBusy, StepIs DEF SerialInv, Acts, TypeInv, TypeOK
<1>2. Making(b, k, "nextId")
  BY ActsBusy DEF Serving, Creating
<1>3. Everywhere(b) /\ LastId < MaxId /\ (m.op = "duplicate" => b[m.type][m.id] # None)
  BY <1>2 DEF Making
<1>4. /\ j.msg = m /\ j.upsert = "insert" /\ j.id = NextId /\ j.pc = After(m, "nextId")
      /\ task' = [task EXCEPT ![t] = j]
      /\ UNCHANGED <<log, rows>>
  BY <1>1 DEF NextEntryId, TaskState
<1>5. /\ j.pc = CASE m.op = "create" -> "insertLog"
                  [] m.op = "duplicate" -> "readSource"
                  [] OTHER -> "insertRow"
  BY <1>4 DEF After, CreateNext, DuplicateNext, ImportNext, Creating, Admin
<1>6. /\ ~ Inserted(m.op, j.pc) /\ ~ Logged(m.op, j.pc)
      /\ j.pc \notin {"nextId", "idle", "recreate", "rewrite"}
      /\ m.op = "duplicate" => j.pc = "readSource"
  BY <1>5 DEF Inserted, Logged, Creating
<1>7. /\ j.id = NewIdOf(b) /\ j.id > 0
      /\ \A ty \in Types : b[ty][j.id] = None
      /\ rows[m.type][j.id] = None /\ At(m.type, j.id) = {}
  BY <1>1, <1>3, <1>4, FreshId
<1>8. Everywhere(b)'
  BY <1>3, <1>4 DEF Everywhere, Shows, At
<1>9. /\ UniqueIds' /\ PositiveIds' /\ Elsewhere(b, j)'
      /\ rows'[m.type][j.id] = None /\ At(m.type, j.id)' = {}
  BY <1>1, <1>4, <1>7, <1>8 DEF UniqueIds, PositiveIds, Elsewhere, Everywhere, At
<1>10. Making(b, j, j.pc)'
  BY <1>3, <1>4, <1>6, <1>7, <1>9 DEF Making
<1> QED BY <1>4, <1>6, <1>9, <1>10

\* What is left to know of a copy that has its name and text.
LEMMA FreshCopy ==
  ASSUME NEW b, NEW j, j.msg.op = "duplicate", j.pc = "insertRow",
         b[j.msg.type][j.msg.id] # None,
         j.id = NewIdOf(b), j.id > 0, \A ty \in Types : b[ty][j.id] = None,
         Elsewhere(b, j)', rows'[j.msg.type][j.id] = None, At(j.msg.type, j.id)' = {},
         j.name = IF j.msg.name \in {None, Empty} THEN b[j.msg.type][j.msg.id].name
                  ELSE j.msg.name,
         j.content = b[j.msg.type][j.msg.id].content
  PROVE  Making(b, j, j.pc)'
BY DEF Making, Inserted, Logged

\* ReadSource finds the entry to be copied.
LEMMA ReadingStep ==
  ASSUME SerialInv, NEW t \in Tasks, NEW b, NEW k, k = task[t], b = settled,
         NEW j, j = task'[t], k.msg.op \in Creating, k.pc = "readSource", Acts(t)
  PROVE  /\ UniqueIds' /\ PositiveIds'
         /\ task' = [task EXCEPT ![t] = j] /\ j.msg = k.msg /\ j.upsert = "insert"
         /\ j.pc # "idle" /\ Making(b, j, j.pc)'
<1> DEFINE m == k.msg
           source == b[k.msg.type][k.msg.id]
<1>1. /\ ReadSource(t) /\ TypeInv /\ UniqueIds /\ PositiveIds /\ b \in Books
      /\ task \in [Tasks -> TaskState] /\ task[t] \in TaskState
      /\ k.upsert = "insert" /\ m.type \in Types /\ m.id \in Ids /\ TaskOK(k)
  BY ActsBusy, StepIs DEF SerialInv, Acts, TypeInv, TypeOK, Message
<1>2. m.op = "duplicate"
  BY <1>1 DEF TaskOK, StepOK, Admin, Creating
<1>3. Making(b, k, "readSource")
  BY ActsBusy DEF Serving, Creating
<1>4. /\ source # None /\ k.id = NewIdOf(b) /\ k.id > 0
      /\ \A ty \in Types : b[ty][k.id] = None
      /\ Elsewhere(b, k)
      /\ rows[m.type][k.id] = None /\ At(m.type, k.id) = {}
  BY <1>2, <1>3 DEF Making, Inserted, Logged
<1>5. rows[m.type][m.id] = [name |-> source.name, content |-> source.content]
  BY <1>1, <1>4 DEF Elsewhere, Shows
<1>6. rows[m.type][m.id] # None
  <2>1. source \in Promise!Entry
    BY <1>1, <1>4 DEF Books
  <2>2. [name |-> source.name, content |-> source.content] \in Row
    BY <2>1 DEF Promise!Entry, Row
  <2> QED BY <1>5, <2>2, NoneAssumption
<1>7. /\ j.msg = m /\ j.upsert = "insert" /\ j.id = k.id /\ j.pc = "insertRow"
      /\ j.name = IF m.name \in {None, Empty} THEN rows[m.type][m.id].name ELSE m.name
      /\ j.content = rows[m.type][m.id].content
      /\ task' = [task EXCEPT ![t] = j]
      /\ UNCHANGED <<log, rows>>
  <2>1. After(m, "readSource") = "insertRow"
    BY <1>2 DEF After, DuplicateNext, Admin
  <2> DEFINE name == IF m.name \in {None, Empty} THEN rows[m.type][m.id].name ELSE m.name
             content == rows[m.type][m.id].content
  <2>2. /\ task' = [task EXCEPT ![t].pc = "insertRow", ![t].name = name,
                                ![t].content = content]
        /\ UNCHANGED <<log, rows>>
    BY <1>1, <1>6, <2>1 DEF ReadSource
  <2> HIDE DEF name, content
  <2>3. j = [k EXCEPT !.pc = "insertRow", !.name = name, !.content = content]
    BY <1>1, <2>2
  <2>4. /\ j.msg = m /\ j.upsert = "insert" /\ j.id = k.id /\ j.pc = "insertRow"
        /\ j.name = name /\ j.content = content
    BY <1>1, <2>3 DEF TaskState
  <2>5. task' = [task EXCEPT ![t] = j]
    BY <1>1, <2>2, <2>3
  <2> QED BY <2>2, <2>4, <2>5 DEF name, content
<1>8. /\ j.name = IF m.name \in {None, Empty} THEN source.name ELSE m.name
      /\ j.content = source.content
  <2>1. /\ rows[m.type][m.id].name = source.name
        /\ rows[m.type][m.id].content = source.content
    BY <1>5
  <2> QED BY <1>7, <2>1
<1>9. /\ UniqueIds' /\ PositiveIds'
      /\ rows'[m.type][j.id] = None /\ At(m.type, j.id)' = {}
  BY <1>1, <1>4, <1>7 DEF UniqueIds, PositiveIds, At
<1>10. Elsewhere(b, j)'
  <2>1. UNCHANGED <<log, rows>> /\ Elsewhere(b, k) /\ j.msg = k.msg /\ j.id = k.id
    BY <1>4, <1>7
  <2> QED BY <2>1 DEF Elsewhere, Shows, At
<1>11. Making(b, j, j.pc)'
  <2>1. /\ j.msg.op = "duplicate" /\ j.pc = "insertRow"
        /\ b[j.msg.type][j.msg.id] # None
        /\ j.id = NewIdOf(b) /\ j.id > 0 /\ \A ty \in Types : b[ty][j.id] = None
    BY <1>2, <1>4, <1>7
  <2>2. /\ rows'[j.msg.type][j.id] = None /\ At(j.msg.type, j.id)' = {}
        /\ j.name = IF j.msg.name \in {None, Empty} THEN b[j.msg.type][j.msg.id].name
                    ELSE j.msg.name
        /\ j.content = b[j.msg.type][j.msg.id].content
    BY <1>7, <1>8, <1>9
  <2> QED BY <2>1, <2>2, <1>10, FreshCopy
<1> QED BY <1>7, <1>9, <1>11

\* A message arrives while all are at rest.
LEMMA Arrival ==
  ASSUME SerialInv, NEW t \in Tasks, NEW m \in Messages, Quiescent, WellFormed(m),
         Receive(t, m), NEW b, b = settled, NEW j, j = task'[t]
  PROVE  /\ UniqueIds' /\ PositiveIds'
         /\ task' = [task EXCEPT ![t] = j] /\ j.msg = m /\ j.upsert = "insert"
         /\ j.pc # "idle" /\ Serving(b, j, j.pc)'
<1>1. /\ TypeInv /\ UniqueIds /\ PositiveIds /\ Everywhere(b) /\ b \in Books
      /\ m \in Message /\ m.type \in Types /\ m.id \in Ids
  BY MessagesAssumption DEF SerialInv, Message
<1>2. /\ j = [pc |-> FirstStep(m), msg |-> m, id |-> m.id, name |-> m.name,
              content |-> m.content, upsert |-> "insert"]
      /\ task' = [task EXCEPT ![t] = j]
      /\ UNCHANGED <<log, rows>> /\ FirstStep(m) # "idle"
  BY <1>1 DEF Receive, TypeInv, TypeOK
<1>3. /\ UniqueIds' /\ PositiveIds' /\ Everywhere(b)' /\ Elsewhere(b, j)'
      /\ LastId' = LastId
      /\ At(m.type, m.id)' = At(m.type, m.id)
  BY <1>1, <1>2 DEF UniqueIds, PositiveIds, Everywhere, Elsewhere, Shows, At, LastId
<1>4. CASE m.op \in Creating
  <2>1. FirstStep(m) = "nextId"
    BY <1>4 DEF FirstStep, Creating
  <2>2. /\ LastId < MaxId
        /\ m.op = "duplicate" => b[m.type][m.id] # None
    BY <1>4 DEF WellFormed
  <2>3. Making(b, j, "nextId")'
    BY <1>2, <1>3, <2>1, <2>2 DEF Making
  <2> QED BY <1>2, <1>3, <1>4, <2>1, <2>3 DEF Serving
<1>5. ASSUME m.op \in {"update", "delete"}
      PROVE  /\ b[m.type][m.id] # None /\ j.id = m.id
             /\ rows'[m.type][m.id] = [name    |-> b[m.type][m.id].name,
                                       content |-> b[m.type][m.id].content]
             /\ \E l \in At(m.type, m.id)' : l.ts = b[m.type][m.id].ts
  BY <1>1, <1>2, <1>3, <1>5 DEF WellFormed, Everywhere, Shows
<1>6. CASE m.op = "update"
  <2> DEFINE old == b[m.type][m.id]
  <2>1. /\ FirstStep(m) = IF m.ts # None THEN "touchLog" ELSE UpdateRest(m)
        /\ UpdateRest(m) \in {"rename", "setText", "idle"}
        /\ UpdateRest(m) = "setText" => m.name = None
    BY <1>6 DEF FirstStep, UpdateRest, Creating
  <2>2. /\ FirstStep(m) \in {"touchLog", "rename", "setText"}
        /\ FirstStep(m) # "touchLog" => m.ts = None
        /\ FirstStep(m) = "setText" => m.name = None
    BY <1>2, <2>1
  <2>3. old.ts = IF FirstStep(m) = "touchLog" THEN old.ts ELSE Given(m.ts, old.ts)
    BY <2>2 DEF Given
  <2>4. old.name = IF FirstStep(m) \in {"touchLog", "rename"} THEN old.name
                   ELSE Given(m.name, old.name)
    BY <2>2 DEF Given
  <2>5. rows'[m.type][m.id] # None
    <3>1. old \in Promise!Entry
      BY <1>1, <1>5, <1>6 DEF Books
    <3>2. [name |-> old.name, content |-> old.content] \in Row
      BY <3>1 DEF Promise!Entry, Row
    <3> QED BY <1>5, <1>6, <3>2, NoneAssumption
  <2>6. Changing(b, j, FirstStep(m))'
    BY <1>2, <1>3, <1>5, <1>6, <2>2, <2>3, <2>4, <2>5 DEF Changing
  <2> QED BY <1>2, <1>3, <1>6, <2>6 DEF Serving
<1>7. CASE m.op = "delete"
  <2>1. FirstStep(m) = "deleteRow"
    BY <1>7 DEF FirstStep, Creating
  <2>2. At(m.type, m.id)' # {}
    BY <1>5, <1>7
  <2>3. Removing(b, j, FirstStep(m))'
    BY <1>2, <1>3, <1>5, <1>7, <2>1, <2>2 DEF Removing
  <2> QED BY <1>2, <1>3, <1>7, <2>3 DEF Serving
<1>8. CASE m.op = "type7"
  BY <1>2, <1>3, <1>8 DEF Serving
<1>9. m.op \in Creating \cup {"update", "delete", "type7"}
  BY <1>1 DEF WellFormed, Message, SocketOps, RequestOps, Creating
<1> QED BY <1>4, <1>6, <1>7, <1>8, <1>9

-----------------------------------------------------------------------------
(* Where a handler ends. *)

\* What the tables hold is the book that they show.
LEMMA BookShown ==
  ASSUME TypeInv', UniqueIds', NEW c \in Books, Everywhere(c)'
  PROVE  Joined' = c
<1>1. ASSUME NEW ty \in Types, NEW i \in Ids
      PROVE  Joined'[ty][i] = c[ty][i]
  <2> DEFINE its == {l \in log' : l.type = ty /\ l.id = i}
             e == c[ty][i]
  <2>1. Joined'[ty][i] = IF its = {} \/ rows'[ty][i] = None THEN None
                         ELSE [name    |-> rows'[ty][i].name,
                               content |-> rows'[ty][i].content,
                               ts      |-> (CHOOSE l \in its : TRUE).ts]
    BY DEF Joined
  <2>2. Shows(ty, i, e)' /\ e \in Promise!Entry \cup {None} /\ its = At(ty, i)'
    BY DEF Everywhere, Books, At
  <2>3. CASE e = None
    BY <2>1, <2>2, <2>3 DEF Shows
  <2> HIDE DEF its, e
  <2>4. CASE e # None
    <3>1. /\ rows'[ty][i] = [name |-> e.name, content |-> e.content]
          /\ \E l \in its : l.ts = e.ts
          /\ e \in Promise!Entry
      BY <2>2, <2>4 DEF Shows
    <3>2. [name |-> e.name, content |-> e.content] \in Row
      BY <3>1 DEF Promise!Entry, Row
    <3>3. rows'[ty][i] # None /\ its # {}
      BY <3>1, <3>2, NoneAssumption
    <3>4. (CHOOSE l \in its : TRUE) \in its
      BY <3>3
    <3>5. \A k, l \in its : k = l
      BY <2>2 DEF At, UniqueIds
    <3>6. (CHOOSE l \in its : TRUE).ts = e.ts
      BY <3>1, <3>4, <3>5
    <3>7. Joined'[ty][i] = [name |-> e.name, content |-> e.content, ts |-> e.ts]
      BY <2>1, <3>1, <3>3, <3>6
    <3>8. e = [name |-> e.name, content |-> e.content, ts |-> e.ts]
      BY <3>1 DEF Promise!Entry
    <3> QED BY <3>7, <3>8 DEF e
  <2> QED BY <2>3, <2>4 DEF e
<1>2. \A ty \in Types : Joined'[ty] = c[ty]
  <2> SUFFICES ASSUME NEW ty \in Types PROVE Joined'[ty] = c[ty]
    OBVIOUS
  <2>1. Joined'[ty] = [i \in Ids |-> Joined'[ty][i]]
    BY DEF Joined
  <2>2. c[ty] = [i \in Ids |-> c[ty][i]]
    BY DEF Books
  <2> QED BY <1>1, <2>1, <2>2
<1>3. Joined' = [ty \in Types |-> Joined'[ty]]
  BY DEF Joined
<1>4. c = [ty \in Types |-> c[ty]]
  BY DEF Books
<1> QED BY <1>2, <1>3, <1>4

\* The tables end up with one entry of the book changed.
LEMMA Settles ==
  ASSUME TypeInv', UniqueIds', NEW b \in Books, NEW k, Elsewhere(b, k)',
         k.msg.type \in Types, k.id \in Ids,
         NEW e \in Promise!Entry \cup {None}, Shows(k.msg.type, k.id, e)'
  PROVE  LET c == [b EXCEPT ![k.msg.type][k.id] = e] IN
         c \in Books /\ Everywhere(c)' /\ Joined' = c
<1> DEFINE c == [b EXCEPT ![k.msg.type][k.id] = e]
<1>1. c \in Books
  BY DEF Books
<1>2. ASSUME NEW ty \in Types, NEW i \in Ids
      PROVE  c[ty][i] = IF ty = k.msg.type /\ i = k.id THEN e ELSE b[ty][i]
  BY <1>2 DEF Books
<1> HIDE DEF c
<1>3. Everywhere(c)'
  BY <1>2 DEF Everywhere, Elsewhere
<1>4. Joined' = c
  BY <1>1, <1>3, BookShown
<1> QED BY <1>1, <1>3, <1>4 DEF c

LEMMA MakingEnds ==
  ASSUME SerialInv, TypeInv', UniqueIds', NEW t \in Tasks, NEW b, NEW k, k = task[t],
         b = settled, k.msg.op \in Creating, Busy(t),
         k.pc \notin {"nextId", "readSource"}, Making(b, k, "idle")', settled' = Joined'
  PROVE  settled' \in Books /\ Everywhere(settled)' /\ Promise!Operation(k.msg)
<1> DEFINE m == k.msg
           source == b[k.msg.type][k.msg.id]
<1>1. /\ b \in Books /\ TaskOK(k) /\ k \in TaskState
      /\ m \in Messages /\ m \in Message /\ m.type \in Types /\ k.id \in Ids
  BY WritesTyped DEF SerialInv, TypeInv
<1>2. Inserted(m.op, "idle") /\ Written(m.op, "idle") /\ Logged(m.op, "idle")
  BY DEF Inserted, Written, Logged, Creating
<1>3. /\ k.id = NewIdOf(b)
      /\ Elsewhere(b, k)'
      /\ rows'[m.type][k.id] = [name |-> k.name, content |-> Given(k.content, Empty)]
      /\ At(m.type, k.id)' # {}
      /\ m.op = "duplicate" =>
           /\ source # None
           /\ k.name = IF m.name \in {None, Empty} THEN source.name ELSE m.name
           /\ k.content = source.content
  BY <1>2 DEF Making
<1>4. PICK l \in log' : l.type = m.type /\ l.id = k.id
  BY <1>3 DEF At
<1>5. /\ k.name \in Names /\ k.content \in Contents \cup {None}
      /\ m.op # "duplicate" => k.name = m.name /\ k.content = m.content
      /\ m.op = "duplicate" => k.content \in Contents
  BY <1>1, MessagesAssumption DEF TaskOK, Creating, Message, TaskState, Busy
<1> DEFINE e == [name |-> k.name, content |-> Given(k.content, Empty), ts |-> l.ts]
<1>6. l.ts \in Times /\ Given(k.content, Empty) \in Contents
  BY <1>4, <1>5, NoneAssumption DEF TypeInv, TypeOK, LogRow, Given
<1>7. e \in Promise!Entry
  BY <1>5, <1>6 DEF Promise!Entry
<1>8. e # None
  BY <1>7, EntryNoneAssumption DEF Promise!Entry
<1>9. l \in At(m.type, k.id)'
  BY <1>4 DEF At
<1>10. Shows(m.type, k.id, e)'
  BY <1>3, <1>8, <1>9 DEF Shows
<1>11. /\ settled' = [settled EXCEPT ![m.type][k.id] = e]
       /\ settled' \in Books /\ Everywhere(settled)'
  <2> HIDE DEF e, m
  <2>1. LET c == [b EXCEPT ![k.msg.type][k.id] = e] IN
        c \in Books /\ Everywhere(c)' /\ Joined' = c
    BY <1>1, <1>3, <1>7, <1>10, Settles DEF m
  <2> QED BY <2>1 DEF Everywhere, m
<1>12. k.id = Promise!NewId
  BY <1>3 DEF NewIdOf, Promise!NewId, Promise!Used, Promise!Ids, Promise!Types,
              Promise!Max, Max, Types, Ids
<1>13. Promise!NewId \in Promise!Ids
  BY <1>1, <1>12 DEF Ids, Promise!Ids
<1>14. CASE m.op = "duplicate"
  <2>1. Given(k.content, Empty) = source.content
    BY <1>3, <1>5, <1>14, NoneAssumption DEF Given
  <2>2. e = [name    |-> IF m.name \in {None, Empty} THEN source.name ELSE m.name,
             content |-> source.content, ts |-> l.ts]
    BY <1>3, <1>14, <2>1
  <2> HIDE DEF e
  <2>3. Promise!Duplicate(m)
    BY <1>3, <1>6, <1>11, <1>12, <1>13, <1>14, <2>2 DEF Promise!Duplicate, Promise!Put
  <2> QED BY <1>11, <2>3 DEF Promise!Operation
<1>15. CASE m.op \in {"create", "import"}
  <2>1. e = [name    |-> m.name,
             content |-> IF m.content = None THEN Empty ELSE m.content, ts |-> l.ts]
    BY <1>5, <1>15 DEF Given
  <2> HIDE DEF e
  <2>2. Promise!Create(m)
    BY <1>6, <1>11, <1>12, <1>13, <1>15, <2>1 DEF Promise!Create, Promise!Put
  <2> QED BY <1>11, <2>2 DEF Promise!Operation
<1> QED BY <1>14, <1>15 DEF Creating

LEMMA ChangingEnds ==
  ASSUME SerialInv, TypeInv', UniqueIds', NEW t \in Tasks, NEW b, NEW k, k = task[t],
         b = settled, k.msg.op = "update", Busy(t), Changing(b, k, "idle")',
         settled' = Joined'
  PROVE  settled' \in Books /\ Everywhere(settled)' /\ Promise!Operation(k.msg)
<1> DEFINE m == k.msg
           old == b[k.msg.type][k.msg.id]
           e == [name |-> Given(m.name, old.name), content |-> Given(m.content, old.content),
                 ts |-> Given(m.ts, old.ts)]
<1>1. /\ b \in Books
      /\ m \in Messages /\ m \in Message /\ m.type \in Types /\ k.id \in Ids
  BY WritesTyped DEF SerialInv, TypeInv
<1>2. /\ old # None /\ k.id = m.id
      /\ Elsewhere(b, k)'
      /\ rows'[m.type][m.id] = [name |-> Given(m.name, old.name),
                                content |-> Given(m.content, old.content)]
      /\ \E l \in At(m.type, m.id)' : l.ts = Given(m.ts, old.ts)
  BY DEF Changing
<1>3. old \in Promise!Entry
  BY <1>1, <1>2 DEF Books
<1>4. e \in Promise!Entry
  BY <1>1, <1>3 DEF Promise!Entry, Message, Given
<1>5. e # None
  BY <1>4, EntryNoneAssumption DEF Promise!Entry
<1>6. Shows(m.type, k.id, e)'
  BY <1>2, <1>5 DEF Shows
<1>7. /\ settled' = [settled EXCEPT ![m.type][m.id] = e]
      /\ settled' \in Books /\ Everywhere(settled)'
  <2> HIDE DEF e, m, old
  <2>1. LET c == [b EXCEPT ![k.msg.type][k.id] = e] IN
        c \in Books /\ Everywhere(c)' /\ Joined' = c
    BY <1>1, <1>2, <1>4, <1>6, Settles DEF m
  <2> QED BY <1>2, <2>1 DEF Everywhere, m
<1>8. Promise!Update(m)
  BY <1>2, <1>7 DEF Promise!Update, Promise!Put, Given
<1> QED BY <1>7, <1>8 DEF Promise!Operation

LEMMA RemovingEnds ==
  ASSUME SerialInv, TypeInv', UniqueIds', NEW t \in Tasks, NEW b, NEW k, k = task[t],
         b = settled, k.msg.op = "delete", Busy(t), Removing(b, k, "idle")',
         settled' = Joined'
  PROVE  settled' \in Books /\ Everywhere(settled)' /\ Promise!Operation(k.msg)
<1> DEFINE m == k.msg
<1>1. /\ b \in Books
      /\ m \in Messages /\ m.type \in Types /\ k.id \in Ids
  BY WritesTyped DEF SerialInv, TypeInv
<1>2. /\ b[m.type][m.id] # None /\ k.id = m.id
      /\ Elsewhere(b, k)'
      /\ Shows(m.type, k.id, None)'
  BY DEF Removing, Shows
<1>3. /\ settled' = [settled EXCEPT ![m.type][m.id] = None]
      /\ settled' \in Books /\ Everywhere(settled)'
  <2>1. LET c == [b EXCEPT ![k.msg.type][k.id] = None] IN
        c \in Books /\ Everywhere(c)' /\ Joined' = c
    BY <1>1, <1>2, Settles
  <2> QED BY <1>2, <2>1 DEF Everywhere
<1>4. Promise!Delete(m)
  BY <1>2, <1>3 DEF Promise!Delete, Promise!Put
<1> QED BY <1>3, <1>4 DEF Promise!Operation

LEMMA BlobEnds ==
  ASSUME SerialInv, TypeInv', UniqueIds', NEW b, NEW k, k.msg.op = "type7",
         b = settled, Everywhere(b)', settled' = Joined'
  PROVE  settled' \in Books /\ Everywhere(settled)' /\ Promise!Operation(k.msg)
<1>1. Joined' = b
  BY BookShown DEF SerialInv
<1>2. Promise!StoreBlob(k.msg)
  BY <1>1 DEF Promise!StoreBlob
<1> QED BY <1>1, <1>2 DEF Everywhere, SerialInv, Promise!Operation

-----------------------------------------------------------------------------
(* A whole step. *)

\* Two tasks at work on the same entry.
LEMMA SameEntry ==
  ASSUME NEW b, NEW j, NEW k, NEW s, j.msg = k.msg, j.id = k.id,
         j.name = k.name, j.content = k.content
  PROVE  /\ Making(b, k, s)' => Making(b, j, s)'
         /\ Changing(b, k, s)' => Changing(b, j, s)'
         /\ Removing(b, k, s)' => Removing(b, j, s)'
<1>1. Elsewhere(b, k)' => Elsewhere(b, j)'
  BY DEF Elsewhere
<1>2. Making(b, k, s)' => Making(b, j, s)'
  BY <1>1 DEF Making
<1>3. Changing(b, k, s)' => Changing(b, j, s)'
  BY <1>1 DEF Changing
<1>4. Removing(b, k, s)' => Removing(b, j, s)'
  BY <1>1 DEF Removing
<1> QED BY <1>2, <1>3, <1>4

LEMMA ActStep ==
  ASSUME SerialInv, TypeInv', NEW t \in Tasks, Acts(t),
         NEW b, b = settled, NEW j, j = task'[t]
  PROVE  /\ UniqueIds' /\ PositiveIds'
         /\ task' = [task EXCEPT ![t] = j] /\ j.upsert = "insert"
         /\ j.pc # "idle" => Serving(b, j, j.pc)' /\ j.msg = task[t].msg
         /\ j.pc = "idle" /\ settled' = Joined' =>
              settled' \in Books /\ Everywhere(settled)' /\ Promise!Operation(task[t].msg)
<1>1. PICK k : k = task[t]
  OBVIOUS
<1> DEFINE n == After(k.msg, k.pc)
<1>2. /\ Busy(t) /\ TaskOK(k) /\ k.msg \in Message
      /\ task \in [Tasks -> TaskState] /\ k \in TaskState
  BY <1>1, ActsBusy DEF SerialInv, TypeInv, TypeOK
<1>3. ASSUME Done(t)
      PROVE  /\ task' = [task EXCEPT ![t] = j] /\ j.upsert = "insert"
             /\ n = j.pc
             /\ n # "idle" => /\ j.msg = k.msg /\ j.id = k.id
                              /\ j.name = k.name /\ j.content = k.content
  BY <1>1, <1>2, <1>3 DEF Done, Goto, Idle, TaskState
<1>4. CASE k.msg.op \in Creating /\ k.pc \in {"nextId", "readSource"}
  <2>1. /\ UniqueIds' /\ PositiveIds'
        /\ task' = [task EXCEPT ![t] = j] /\ j.msg = k.msg /\ j.upsert = "insert"
        /\ j.pc # "idle" /\ Making(b, j, j.pc)'
    BY <1>1, <1>4, NumberingStep, ReadingStep
  <2> QED BY <1>1, <1>4, <2>1 DEF Serving
<1>5. CASE k.msg.op \in Creating /\ k.pc \notin {"nextId", "readSource"}
  <2>1. Done(t) /\ UniqueIds' /\ PositiveIds' /\ Making(b, k, n)'
    BY <1>1, <1>5, MakingStep
  <2>2. n # "idle" => Making(b, j, n)'
    BY <1>3, <2>1, SameEntry
  <2>3. n = "idle" /\ settled' = Joined' =>
          settled' \in Books /\ Everywhere(settled)' /\ Promise!Operation(k.msg)
    BY <1>1, <1>2, <1>5, <2>1, MakingEnds
  <2> QED BY <1>1, <1>3, <1>5, <2>1, <2>2, <2>3 DEF Serving
<1>6. CASE k.msg.op = "update"
  <2>1. Done(t) /\ UniqueIds' /\ PositiveIds' /\ Changing(b, k, n)'
    BY <1>1, <1>6, ChangingStep
  <2>2. n # "idle" => Changing(b, j, n)'
    BY <1>3, <2>1, SameEntry
  <2>3. n = "idle" /\ settled' = Joined' =>
          settled' \in Books /\ Everywhere(settled)' /\ Promise!Operation(k.msg)
    BY <1>1, <1>2, <1>6, <2>1, ChangingEnds
  <2> QED BY <1>1, <1>3, <1>6, <2>1, <2>2, <2>3 DEF Serving
<1>7. CASE k.msg.op = "delete"
  <2>1. Done(t) /\ UniqueIds' /\ PositiveIds' /\ Removing(b, k, n)'
    BY <1>1, <1>7, RemovingStep
  <2>2. n # "idle" => Removing(b, j, n)'
    BY <1>3, <2>1, SameEntry
  <2>3. n = "idle" /\ settled' = Joined' =>
          settled' \in Books /\ Everywhere(settled)' /\ Promise!Operation(k.msg)
    BY <1>1, <1>2, <1>7, <2>1, RemovingEnds
  <2> QED BY <1>1, <1>3, <1>7, <2>1, <2>2, <2>3 DEF Serving
<1>8. CASE k.msg.op = "type7"
  <2>1. Done(t) /\ UniqueIds' /\ PositiveIds' /\ Everywhere(b)'
    BY <1>1, <1>8, BlobStep
  <2>2. settled' = Joined' =>
          settled' \in Books /\ Everywhere(settled)' /\ Promise!Operation(k.msg)
    BY <1>8, <2>1, BlobEnds
  <2> QED BY <1>1, <1>3, <1>8, <2>1, <2>2 DEF Serving
<1>9. Serving(b, k, k.pc)
  BY <1>1, ActsBusy
<1> QED BY <1>4, <1>5, <1>6, <1>7, <1>8, <1>9 DEF Serving

\* The other tasks are at rest, so the books are made up when this one is.
LEMMA RestKept ==
  ASSUME SerialInv, NEW t \in Tasks, \A u \in Tasks \ {t} : ~Busy(u),
         NEW j, task' = [task EXCEPT ![t] = j], j.upsert = "insert"
  PROVE  /\ OneAtWork'
         /\ Quiescent' <=> j.pc = "idle"
         /\ \A u \in Tasks : Busy(u)' => u = t
<1>1. \A u \in Tasks : task'[u] = IF u = t THEN j ELSE task[u]
  BY DEF SerialInv, TypeInv, TypeOK
<1> QED BY <1>1 DEF OneAtWork, Quiescent, Busy

\* The one handler at work has what was asked.
LEMMA AskedIs ==
  ASSUME NEW t \in Tasks, Busy(t), ~Quiescent, \A u \in Tasks \ {t} : ~Busy(u)
  PROVE  Asked = task[t].msg
<1>1. (CHOOSE u \in Tasks : Busy(u)) = t
  OBVIOUS
<1> QED BY <1>1 DEF Asked

LEMMA SerialStep ==
  SerialInv /\ [SerialNext]_<<vars, settled>> => SerialInv' /\ [Promise!Next]_<<settled, Asked>>
<1> SUFFICES ASSUME SerialInv, [SerialNext]_<<vars, settled>>
             PROVE  SerialInv' /\ [Promise!Next]_<<settled, Asked>>
  OBVIOUS
<1>1. CASE UNCHANGED <<vars, settled>>
  <2>1. UNCHANGED <<log, rows, blob, task, settled>>
    BY <1>1 DEF vars
  <2>2. TypeInv' /\ UniqueIds' /\ PositiveIds' /\ OneAtWork' /\ LastId' = LastId
        /\ (Quiescent' <=> Quiescent) /\ \A t \in Tasks : Busy(t)' <=> Busy(t)
    BY <2>1
       DEF SerialInv, TypeInv, TypeOK, UniqueIds, PositiveIds, OneAtWork, Quiescent, Busy,
           LastId
  <2>3. \A ty, i, e : Shows(ty, i, e)' <=> Shows(ty, i, e)
    BY <2>1 DEF Shows, At
  <2>4. /\ \A c : Everywhere(c)' <=> Everywhere(c)
        /\ \A c, k : Elsewhere(c, k)' <=> Elsewhere(c, k)
    BY <2>3 DEF Everywhere, Elsewhere
  <2>5. ASSUME NEW c, NEW k, NEW s, Serving(c, k, s)
        PROVE  Serving(c, k, s)'
    <3>1. \A ty, i : At(ty, i)' = At(ty, i) /\ rows' = rows
      BY <2>1 DEF At
    <3>2. Making(c, k, s) => Making(c, k, s)'
      BY <2>2, <2>4, <3>1 DEF Making
    <3>3. Changing(c, k, s) => Changing(c, k, s)'
      BY <2>4, <3>1 DEF Changing
    <3>4. Removing(c, k, s) => Removing(c, k, s)'
      BY <2>4, <3>1 DEF Removing
    <3> QED BY <2>4, <2>5, <3>2, <3>3, <3>4 DEF Serving
  <2>6. \A t \in Tasks : Busy(t) => Serving(settled, task[t], task[t].pc)'
    <3> SUFFICES ASSUME NEW t \in Tasks, Busy(t)
                 PROVE  Serving(settled, task[t], task[t].pc)'
      OBVIOUS
    <3>1. PICK c, k : c = settled /\ k = task[t]
      OBVIOUS
    <3>2. Serving(c, k, k.pc)'
      BY <2>5, <3>1 DEF SerialInv
    <3> QED BY <2>1, <3>1, <3>2
          DEF Serving, Making, Changing, Removing, Everywhere, Elsewhere
  <2>7. (Everywhere(settled) => Everywhere(settled)') /\ settled' \in Books
    BY <2>1, <2>3 DEF Everywhere, SerialInv
  <2>8. Asked' = Asked
    BY <2>1 DEF Asked, Quiescent, Busy
  <2> QED BY <2>1, <2>2, <2>6, <2>7, <2>8 DEF SerialInv
<1>2. CASE SerialNext
  <2>1. TypeInv'
    BY <1>2, TypeStep DEF SerialInv, SerialNext, Next
  <2>2. PICK t \in Tasks :
          \/ Quiescent /\ \E m \in Messages : WellFormed(m) /\ Receive(t, m)
          \/ Statement(t) \/ Invalidate(t) \/ Reply(t)
    BY <1>2 DEF SerialNext
  <2>3. settled' = IF Quiescent' THEN Joined' ELSE settled
    BY <1>2 DEF SerialNext
  <2>4. PICK b : b = settled
    OBVIOUS
  <2>5. PICK j : j = task'[t]
    OBVIOUS
  <2>6. /\ UniqueIds' /\ PositiveIds' /\ \A u \in Tasks \ {t} : ~Busy(u)
        /\ task' = [task EXCEPT ![t] = j] /\ j.upsert = "insert"
        /\ j.pc # "idle" => Serving(b, j, j.pc)'
        /\ IF Quiescent THEN j.pc # "idle" /\ j.msg \in Messages
           ELSE /\ Busy(t) /\ task[t].msg \in Messages
                /\ j.pc # "idle" => j.msg = task[t].msg
                /\ j.pc = "idle" /\ settled' = Joined' =>
                     /\ settled' \in Books /\ Everywhere(settled)'
                     /\ Promise!Operation(task[t].msg)
    <3>1. CASE Quiescent /\ \E m \in Messages : WellFormed(m) /\ Receive(t, m)
      BY <2>4, <2>5, <3>1, Arrival DEF Quiescent
    <3>2. CASE Statement(t) \/ Invalidate(t) \/ Reply(t)
      <4>1. Acts(t)
        BY <3>2 DEF Acts
      <4>2. Busy(t) /\ \A u \in Tasks \ {t} : ~Busy(u)
        BY <4>1, ActsBusy
      <4>3. ~Quiescent /\ task[t].msg \in Messages
        BY <4>2 DEF Quiescent, Busy, SerialInv, TypeInv, TaskOK
      <4>4. /\ UniqueIds' /\ PositiveIds'
            /\ task' = [task EXCEPT ![t] = j] /\ j.upsert = "insert"
            /\ j.pc # "idle" => Serving(b, j, j.pc)' /\ j.msg = task[t].msg
            /\ j.pc = "idle" /\ settled' = Joined' =>
                 /\ settled' \in Books /\ Everywhere(settled)'
                 /\ Promise!Operation(task[t].msg)
        BY <2>1, <2>4, <2>5, <4>1, ActStep
      <4> QED BY <4>2, <4>3, <4>4
    <3> QED BY <2>2, <3>1, <3>2
  <2>7. /\ OneAtWork'
        /\ Quiescent' <=> j.pc = "idle"
        /\ \A u \in Tasks : Busy(u)' => u = t
    BY <2>6, RestKept
  <2>8. CASE j.pc = "idle"
    <3>1. ~Quiescent /\ Busy(t) /\ task[t].msg \in Messages /\ Quiescent'
      BY <2>6, <2>7, <2>8
    <3>2. settled' \in Books /\ Everywhere(settled)' /\ Promise!Operation(task[t].msg)
      BY <2>3, <2>6, <2>8, <3>1
    <3>3. \A u \in Tasks : ~Busy(u)'
      BY <3>1 DEF Quiescent
    <3>4. SerialInv'
      BY <2>1, <2>6, <2>7, <3>2, <3>3 DEF SerialInv
    <3>5. Asked = task[t].msg
      BY <2>6, <3>1, AskedIs
    <3>6. Asked' = None
      BY <3>1 DEF Asked
    <3>7. Promise!Perform
      BY <3>1, <3>2, <3>5, <3>6, EntryNoneAssumption DEF Promise!Perform
    <3> QED BY <3>4, <3>7 DEF Promise!Next
  <2>9. CASE j.pc # "idle"
    <3>1. settled' = settled /\ settled \in Books
      BY <2>3, <2>7, <2>9 DEF SerialInv
    <3>2. Serving(settled, task[t], task[t].pc)'
      BY <2>4, <2>5, <2>6, <2>9, <3>1
         DEF Serving, Making, Changing, Removing, Everywhere, Elsewhere
    <3>3. SerialInv'
      BY <2>1, <2>6, <2>7, <2>9, <3>1, <3>2 DEF SerialInv
    <3>4. Asked' = j.msg
      <4>1. ~Quiescent' /\ Busy(t)'
        BY <2>5, <2>7, <2>9 DEF Busy
      <4>2. (CHOOSE u \in Tasks : task'[u].pc # "idle") = t
        BY <2>7, <4>1 DEF Busy
      <4> QED BY <2>5, <4>1, <4>2 DEF Asked, Busy
    <3>5. CASE Quiescent
      <4>1. Asked = None /\ j.msg \in Messages
        BY <2>6, <3>5 DEF Asked
      <4>2. Promise!Ask(j.msg)
        BY <3>1, <3>4, <4>1 DEF Promise!Ask
      <4> QED BY <3>3, <4>1, <4>2 DEF Promise!Next
    <3>6. CASE ~Quiescent
      <4>1. Busy(t) /\ j.msg = task[t].msg
        BY <2>6, <2>9, <3>6
      <4>2. Asked = task[t].msg
        BY <2>6, <3>6, <4>1, AskedIs
      <4> QED BY <3>1, <3>3, <3>4, <4>1, <4>2
    <3> QED BY <3>5, <3>6
  <2> QED BY <2>8, <2>9
<1> QED BY <1>1, <1>2

LEMMA SerialStart == SerialInit => SerialInv /\ Promise!Init
<1> SUFFICES ASSUME SerialInit PROVE SerialInv /\ Promise!Init
  OBVIOUS
<1>1. Init /\ settled = Joined /\ TypeInv
  BY TypeInit DEF SerialInit
<1>2. settled = [ty \in Types |-> [i \in Ids |-> None]]
  BY <1>1 DEF Joined, Init
<1>3. settled \in Books /\ Everywhere(settled)
  BY <1>1, <1>2 DEF Books, Everywhere, Shows, At, Init
<1>4. Promise!Init
  <2>1. Asked = None
    BY <1>1 DEF Asked, Quiescent, Busy, Init, Idle
  <2> QED BY <1>2, <2>1 DEF Promise!Init, Promise!Types, Promise!Ids, Types, Ids
<1>5. UniqueIds /\ PositiveIds /\ \A t \in Tasks : ~Busy(t)
  BY <1>1 DEF Init, UniqueIds, PositiveIds, Busy, Idle
<1> QED BY <1>1, <1>3, <1>4, <1>5 DEF SerialInv, OneAtWork

LEMMA SerialInvariant == SerialSpec => []SerialInv
BY SerialStart, SerialStep, PTL DEF SerialSpec

\* Each handler of EntryStore, with its up to seven statements, does to the
\* account's entries what EntryBook does for the same message in one step
\* (handle_client_msg, import_to_account_handler), for a client that waits
\* for its answers and speaks of entries there are.
THEOREM BookKept == SerialSpec => KeepsPromise
BY SerialStart, SerialStep, SerialInvariant, PTL DEF SerialSpec, KeepsPromise, Promise!Spec

\* Between such messages an id belongs to one entry, with one log row and
\* one backing row in the table of its type.
THEOREM ConsistentAlways == SerialSpec => []Consistent
<1>1. SerialInv => Consistent
  <2> SUFFICES ASSUME SerialInv, Quiescent PROVE Consistent
    BY DEF Consistent
  <2>1. Everywhere(settled) /\ UniqueIds /\ settled \in Books
    BY DEF SerialInv
  <2>2. ASSUME NEW ty \in Types, NEW i \in Ids
        PROVE  rows[ty][i] # None <=> \E l \in log : l.type = ty /\ l.id = i
    <3> DEFINE e == settled[ty][i]
    <3>1. Shows(ty, i, e) /\ e \in Promise!Entry \cup {None}
      BY <2>1 DEF Everywhere, Books
    <3>2. e # None => [name |-> e.name, content |-> e.content] \in Row
      BY <3>1 DEF Promise!Entry, Row
    <3> HIDE DEF e
    <3> QED BY <3>1, <3>2, NoneAssumption DEF Shows, At
  <2> QED BY <2>1, <2>2 DEF Consistent, UniqueIds
<1> QED BY <1>1, SerialInvariant, PTL

=============================================================================
