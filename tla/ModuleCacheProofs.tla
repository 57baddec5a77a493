-------------------------- MODULE ModuleCacheProofs --------------------------
(***************************************************************************)
(* Theorems about ModuleCache, for any number of handlers and opening      *)
(* connections, with failing statements, hang-ups and crashes.             *)
(***************************************************************************)
EXTENDS ModuleCache, EntryStoreProofs

-----------------------------------------------------------------------------
(* Where a change still awaits its invalidation. *)

\* The steps of the handler of message m at which it may have changed what
\* modules are built from and not have invalidated since.
Owing(m, s) ==
  \/ /\ m.op = "create"
     /\ s \in {"insertRow", "setText", "recreate", "rewrite", "invalidate"}
  \/ /\ m.op = "update"
     /\ s \in {"rename", "createNamed", "invalidateName", "setText", "recreate",
               "rewrite", "invalidate"}
  \/ m.op = "duplicate" /\ s \in {"insertRow", "copyText", "invalidate", "reply"}
  \/ m.op = "import" /\ s \in {"insertRow", "copyText", "insertLog", "invalidate"}
  \/ m.op = "delete" /\ s \in {"deleteLog", "invalidate"}
  \/ m.op \in {"type7"} \cup Admin /\ s = "invalidate"

\* The statements that write to the database.
Writing ==
  InsertSteps \cup
  {"insertLog", "copyText", "touchLog", "rename", "setText", "rewrite",
   "deleteRow", "deleteLog", "setBlob", "adminLog"}

Sites ==
  {Race} \cup PlainSites
         \cup (IF Faulty THEN ErrorSites ELSE {})
         \cup (IF Crashes THEN HangUpSites ELSE {})

LEMMA MessageOps ==
  ASSUME NEW m \in Messages
  PROVE  /\ m.op \in {"create", "update", "duplicate", "delete", "type7", "import"} \cup Admin
         /\ m.op = "adminCreate" => m.own
BY MessagesAssumption DEF Message, SocketOps, RequestOps

\* A handler whose statement has succeeded is on its way to an invalidation,
\* or ends at one of the sites.
LEMMA DoneOwing ==
  ASSUME NEW m \in Messages, NEW s \in Writing, StepOK(m, s)
  PROVE  /\ After(m, s) = "idle" => <<m.op, s>> \in PlainSites
         /\ After(m, s) # "idle" => Owing(m, After(m, s))
<1> USE MessageOps DEF StepOK, Writing, InsertSteps, PlainSites, Owing
<1>1. CASE m.op = "create"
  BY <1>1 DEF After, CreateNext, Admin
<1>2. CASE m.op = "update"
  BY <1>2 DEF After, UpdateNext, UpdateRest, Admin
<1>3. CASE m.op = "duplicate"
  BY <1>3 DEF After, DuplicateNext, Admin
<1>4. CASE m.op = "delete"
  BY <1>4 DEF After, DeleteNext, Admin
<1>5. CASE m.op = "import"
  BY <1>5 DEF After, ImportNext, Admin
<1>6. CASE m.op = "type7"
  BY <1>6 DEF After, Admin
<1>7. CASE m.op \in Admin
  BY <1>7 DEF After, AdminNext, Admin
<1> QED BY <1>1, <1>2, <1>3, <1>4, <1>5, <1>6, <1>7

\* And so is one that owes an invalidation when a statement fails.
LEMMA FailOwing ==
  ASSUME NEW m \in Messages, NEW s, StepOK(m, s), Owing(m, s),
         s \notin {"invalidate", "invalidateName", "reply"}
  PROVE  /\ OnError(m, s) = "idle" =>
              \/ <<m.op, s>> \in PlainSites
              \/ s \notin InsertSteps /\ <<m.op, s>> \in ErrorSites
         /\ OnError(m, s) # "idle" => Owing(m, OnError(m, s))
<1> USE DEF StepOK, InsertSteps, PlainSites, ErrorSites, Owing, OnError, Tolerated
<1>1. CASE m.op = "create"
  BY <1>1 DEF After, CreateNext, Admin
<1>2. CASE m.op = "update"
  BY <1>2 DEF After, UpdateNext, UpdateRest, Admin
<1>3. CASE m.op = "duplicate"
  BY <1>3 DEF After, DuplicateNext, Admin
<1>4. CASE m.op = "delete"
  BY <1>4 DEF After, DeleteNext, Admin
<1>5. CASE m.op = "import"
  BY <1>5 DEF After, ImportNext, Admin
<1>6. CASE m.op \in {"type7"} \cup Admin
  BY <1>6 DEF After, Admin
<1> QED BY MessageOps, <1>1, <1>2, <1>3, <1>4, <1>5, <1>6

LEMMA InsertOwing ==
  ASSUME NEW m \in Messages, NEW s, StepOK(m, s)
  PROVE  /\ s \in InsertSteps => Owing(m, s)
         /\ s = "rename" => Owing(m, "createNamed")
         /\ s = "setText" => Owing(m, "recreate")
         /\ s \in {"idle", "nextId", "readSource"} => ~Owing(m, s)
         /\ s = "reply" /\ Owing(m, s) => <<m.op, s>> \in PlainSites
         /\ s = "reply" => After(m, s) = "idle"
BY MessageOps
   DEF StepOK, InsertSteps, Owing, Admin, PlainSites, After, CreateNext,
       DuplicateNext, ImportNext

-----------------------------------------------------------------------------
(* The invariant. *)

\* What has been read by step s is of its types.
InputsOK(read, s) == \A n \in Known(s) : read[n] \in InputTypes[n]

\* Build b is a record of its fields and has read what its step says.
BuildOK(b) ==
  /\ b = [pc |-> b.pc, read |-> b.read, missed |-> b.missed]
  /\ b.pc \in BuildSteps
  /\ b.read = [n \in Known(b.pc) |-> b.read[n]]
  /\ InputsOK(b.read, b.pc)
  /\ b.missed \subseteq Sites
  /\ b.pc = "idle" => b = NoBuild

BuildInv ==
  /\ build = [o \in Openers |-> build[o]]
  /\ \A o \in Openers : BuildOK(build[o])

\* Only a handler that owes an invalidation is dirty.
DirtyInv ==
  /\ dirty \in [Tasks -> BOOLEAN]
  /\ \A t \in Tasks : dirty[t] => Owing(task[t].msg, task[t].pc)

\* Websockets and requests have their own operations.
OpsInv ==
  \A t \in Tasks : Busy(t) =>
    task[t].msg.op \in IF t \in Sockets THEN SocketOps ELSE RequestOps

SomeDirty == \E t \in Tasks : dirty[t]

\* What build b has read is what is in the inputs.
Abreast(b, in) == \A n \in Known(b.pc) : b.read[n] = in[n]

\* The same of a build as Fresh says of the cached module.
BuildsFresh ==
  \A o \in Openers :
    Building(o) => Abreast(build[o], Inputs) \/ build[o].missed # {} \/ SomeDirty

CacheInv ==
  /\ TypeInv
  /\ OpsInv
  /\ DirtyInv
  /\ BuildInv
  /\ taint \subseteq Sites
  /\ cache # NoModule => cache \in Module /\ cache.blob \notin BadBlobs
  /\ Fresh
  /\ BuildsFresh

-----------------------------------------------------------------------------
(* The handlers. *)

\* The steps of task t that Watch goes with.
Watched(t) ==
  \/ \E m \in Messages : Receive(t, m)
  \/ Statement(t) \/ Reply(t) \/ StatementFails(t)
  \/ t \in Requests /\ HangUp(t)

LEMMA WatchedNext ==
  ASSUME NEW t \in Tasks, Watched(t)
  PROVE  [Next]_vars
BY DEF Watched, Next

\* Where a watched step leaves task t: at the next step of its handler, the
\* statement done or failed, at the same one in the middle of create_style,
\* at its first step or dropped.
Moves(t) ==
  \/ /\ task[t].pc \in {"idle", "nextId", "readSource"}
     /\ UNCHANGED <<log, rows, blob>>
  \/ Busy(t) /\ task[t].pc \in InsertSteps /\ task'[t].pc = task[t].pc
  \/ task[t].pc \in Writing /\ task'[t].pc = After(task[t].msg, task[t].pc)
  \/ task[t].pc = "rename" /\ task'[t].pc = "createNamed"
  \/ task[t].pc = "setText" /\ task'[t].pc = "recreate"
  \/ /\ Busy(t) /\ (task[t].pc \in InsertSteps \/ Faulty)
     /\ task[t].pc \notin {"invalidate", "invalidateName", "reply"}
     /\ task'[t].pc = OnError(task[t].msg, task[t].pc)
     /\ UNCHANGED <<log, rows, blob>>
  \/ /\ task[t].pc = "reply" /\ task'[t].pc = After(task[t].msg, "reply")
     /\ UNCHANGED <<log, rows, blob>>
  \/ /\ Crashes /\ t \in Requests /\ Busy(t) /\ task'[t].pc = "idle"
     /\ UNCHANGED <<log, rows, blob>>

LEMMA WatchedMoves ==
  ASSUME TypeInv, NEW t \in Tasks, Watched(t)
  PROVE  /\ \A u \in Tasks \ {t} : task'[u] = task[u]
         /\ IF Busy(t) THEN task'[t].pc # "idle" => task'[t].msg = task[t].msg
            ELSE task'[t].msg.op \in IF t \in Sockets THEN SocketOps ELSE RequestOps
         /\ Moves(t)
<1> DEFINE Goal ==
      /\ \A u \in Tasks \ {t} : task'[u] = task[u]
      /\ IF Busy(t) THEN task'[t].pc # "idle" => task'[t].msg = task[t].msg
         ELSE task'[t].msg.op \in IF t \in Sockets THEN SocketOps ELSE RequestOps
      /\ Moves(t)
<1> SUFFICES Goal
  OBVIOUS
<1> HIDE DEF Goal
<1>0. task \in [Tasks -> TaskState] /\ task[t] \in TaskState /\ TaskOK(task[t])
  BY DEF TypeInv, TypeOK
<1>1. ASSUME NEW m \in Messages, Receive(t, m)
      PROVE  Goal
  BY <1>0, <1>1 DEF Receive, Moves, Busy, Goal
<1>2. ASSUME NEW v, task' = [task EXCEPT ![t].upsert = v], task[t].pc \in InsertSteps
      PROVE  Goal
  BY <1>0, <1>2 DEF Moves, Busy, InsertSteps, TaskState, Goal
<1>3. ASSUME Done(t), task[t].pc \in Writing
      PROVE  Goal
  BY <1>3, GotoMoves DEF Done, Moves, Busy, Goal, Writing, InsertSteps
<1>4. ASSUME Fail(t), Busy(t), task[t].pc \in InsertSteps \cup {"readSource"} \/ Faulty,
             task[t].pc \notin {"invalidate", "invalidateName", "reply"},
             UNCHANGED <<log, rows, blob>>
      PROVE  Goal
  BY <1>4, GotoMoves DEF Fail, Moves, Busy, Goal
<1>5. CASE NextEntryId(t)
  BY <1>0, <1>5 DEF NextEntryId, Moves, Busy, TaskState, Goal
<1>6. CASE ReadSource(t)
  <2>1. CASE Fail(t)
    BY <2>1, <1>4, <1>6 DEF ReadSource, Busy
  <2>2. CASE ~Fail(t)
    BY <2>2, <1>0, <1>6 DEF ReadSource, Moves, Busy, TaskState, Goal
  <2> QED BY <2>1, <2>2
<1>7. CASE InsertRow(t)
  <2>1. task[t].pc \in InsertSteps
    BY <1>7 DEF InsertRow
  <2>2. CASE Done(t)
    BY <2>1, <2>2, <1>3 DEF Writing
  <2>3. CASE Fail(t) /\ UNCHANGED rows
    BY <2>1, <2>3, <1>4, <1>7 DEF InsertRow, Busy, InsertSteps
  <2>4. CASE task' = [task EXCEPT ![t].upsert = "update"]
    BY <2>1, <2>4, <1>2
  <2> QED BY <2>2, <2>3, <2>4, <1>7 DEF InsertRow
<1>8. CASE UpsertStyle(t)
  <2>1. task[t].pc \in InsertSteps
    BY <1>0, <1>8 DEF UpsertStyle, TaskOK
  <2> QED BY <2>1, <1>8, <1>2 DEF UpsertStyle
<1>9. CASE FetchStyle(t)
  <2>1. task[t].pc \in InsertSteps
    BY <1>0, <1>9 DEF FetchStyle, TaskOK
  <2> QED BY <2>1, <1>9, <1>3, <1>4 DEF FetchStyle, InsertSteps, Busy, Writing
<1>10. CASE Rename(t)
  <2>1. CASE Goto(t, "createNamed")
    BY <2>1, <1>10, GotoMoves DEF Rename, Moves, Busy, Goal
  <2>2. CASE Done(t)
    BY <2>2, <1>10, <1>3 DEF Rename, Writing
  <2> QED BY <2>1, <2>2, <1>10 DEF Rename
<1>11. CASE SetText(t)
  <2>1. CASE Goto(t, "recreate") /\ task[t].pc = "setText"
    BY <2>1, <1>11, GotoMoves DEF SetText, Moves, Busy, Goal
  <2>2. CASE Done(t)
    BY <2>2, <1>11, <1>3 DEF SetText, Writing
  <2> QED BY <2>1, <2>2, <1>11 DEF SetText
<1>12. CASE \/ InsertLog(t) \/ CopyText(t) \/ TouchLog(t) \/ DeleteRow(t)
            \/ DeleteLog(t) \/ SetBlob(t) \/ AdminLog(t)
  <2>1. task[t].pc \in Writing /\ Done(t)
    BY <1>12
       DEF InsertLog, CopyText, TouchLog, DeleteRow, DeleteLog, SetBlob, AdminLog,
           Writing
  <2> QED BY <2>1, <1>3
<1>13. CASE Reply(t)
  BY <1>13, GotoMoves DEF Reply, Done, Moves, Busy, Goal
<1>14. CASE StatementFails(t)
  BY <1>14, <1>2, <1>4 DEF StatementFails
<1>15. CASE t \in Requests /\ HangUp(t)
  BY <1>15, GotoMoves DEF HangUp, Moves, Busy, Goal
<1> QED
  BY <1>1, <1>5, <1>6, <1>7, <1>8, <1>9, <1>10, <1>11, <1>12, <1>13, <1>14, <1>15
     DEF Watched, Statement

\* So a handler that has changed something and not invalidated is at a step
\* of its own that leads to an invalidation, or ends at a site.
LEMMA WatchedOwing ==
  ASSUME TypeInv, DirtyInv, OpsInv, NEW t \in Tasks, Watched(t),
         dirty[t] \/ Inputs' # Inputs
  PROVE  /\ task'[t].pc = "idle" => <<task[t].msg.op, task[t].pc>> \in Sites
         /\ task'[t].pc # "idle" => Owing(task'[t].msg, task'[t].pc)
<1> DEFINE m == task[t].msg
           s == task[t].pc
<1>1. /\ s # "idle" => m \in Messages
      /\ StepOK(m, s)
  BY DEF TypeInv, TaskOK
<1>2. /\ Busy(t) /\ task'[t].pc # "idle" => task'[t].msg = m
      /\ Moves(t)
  BY WatchedMoves
<1>3. dirty[t] => Owing(m, s)
  BY DEF DirtyInv
<1>4. s \notin {"idle", "nextId", "readSource"} /\ Busy(t) /\ m \in Messages
  <2>1. UNCHANGED <<log, rows, blob>> => Inputs' = Inputs
    BY DEF Inputs
  <2>2. s = "idle" => ~Owing(m, s)
    BY DEF Owing
  <2>3. s # "idle"
    BY <2>1, <2>2, <1>2, <1>3 DEF Moves, Writing, InsertSteps, Busy
  <2>4. s \in {"nextId", "readSource"} => ~Owing(m, s)
    BY <2>3, <1>1, InsertOwing
  <2>5. s \notin {"nextId", "readSource"}
    BY <2>1, <2>4, <1>2, <1>3, <1>1, InsertOwing DEF Moves, Writing, InsertSteps, Busy
  <2> QED BY <2>3, <2>5, <1>1 DEF Busy
<1>5. Owing(m, s) \/ ~UNCHANGED <<log, rows, blob>>
  BY <1>3 DEF Inputs
<1> DEFINE Goal == /\ task'[t].pc = "idle" => <<m.op, s>> \in Sites
                   /\ task'[t].pc # "idle" => Owing(m, task'[t].pc)
<1> SUFFICES Goal
  BY <1>2, <1>4
<1>6. CASE s \in InsertSteps /\ task'[t].pc = s
  BY <1>6, <1>1, <1>4, InsertOwing
<1>7. CASE s \in Writing /\ task'[t].pc = After(m, s)
  BY <1>7, <1>1, <1>4, DoneOwing DEF Sites
<1>8. CASE \/ s = "rename" /\ task'[t].pc = "createNamed"
           \/ s = "setText" /\ task'[t].pc = "recreate"
  BY <1>8, <1>1, <1>4, InsertOwing
<1>9. CASE /\ s \in InsertSteps \/ Faulty
           /\ s \notin {"invalidate", "invalidateName", "reply"}
           /\ task'[t].pc = OnError(m, s)
           /\ UNCHANGED <<log, rows, blob>>
  BY <1>9, <1>1, <1>4, <1>5, FailOwing DEF Sites
<1>10. CASE /\ s = "reply" /\ task'[t].pc = After(m, "reply")
            /\ UNCHANGED <<log, rows, blob>>
  BY <1>10, <1>1, <1>4, <1>5, InsertOwing DEF Sites
<1>11. CASE /\ Crashes /\ t \in Requests /\ task'[t].pc = "idle"
            /\ UNCHANGED <<log, rows, blob>>
  <2>1. m.op \in {"import"} \cup Admin
    BY <1>4, <1>11, TasksAssumption DEF OpsInv, RequestOps
  <2>2. Owing(m, s)
    BY <1>5, <1>11
  <2>3. <<m.op, s>> \in PlainSites \cup HangUpSites
    BY <2>1, <2>2 DEF Owing, PlainSites, HangUpSites, Admin
  <2> QED BY <2>3, <1>11 DEF Sites
<1> HIDE DEF Goal
<1> QED BY <1>2, <1>4, <1>6, <1>7, <1>8, <1>9, <1>10, <1>11 DEF Moves
-----------------------------------------------------------------------------
(* The builds. *)

\* A build that is told what it missed is otherwise as it was.
LEMMA MissedBuilds ==
  ASSUME BuildInv, NEW why \in SUBSET Sites, Missed(why)
  PROVE  /\ BuildInv'
         /\ \A o \in Openers :
              /\ build'[o].pc = build[o].pc /\ build'[o].read = build[o].read
              /\ Building(o) => build'[o].missed = build[o].missed \cup why
<1>1. ASSUME NEW o \in Openers
      PROVE  /\ BuildOK(build'[o])
             /\ build'[o].pc = build[o].pc /\ build'[o].read = build[o].read
             /\ Building(o) => build'[o].missed = build[o].missed \cup why
  <2> DEFINE b == build[o]
             c == [b EXCEPT !.missed = @ \cup why]
  <2>1. BuildOK(b)
    BY DEF BuildInv
  <2>2. build'[o] = IF b.pc # "idle" THEN c ELSE b
    BY DEF Missed, Building
  <2>3. /\ c.pc = b.pc /\ c.read = b.read /\ c.missed = b.missed \cup why
        /\ c = [pc |-> c.pc, read |-> c.read, missed |-> c.missed]
    <3>1. b = [pc |-> b.pc, read |-> b.read, missed |-> b.missed]
      BY <2>1 DEF BuildOK
    <3> HIDE DEF b
    <3> QED BY <3>1
  <2> HIDE DEF c
  <2>4. CASE b.pc # "idle"
    <3>1. BuildOK(c)
      BY <2>1, <2>3, <2>4 DEF BuildOK
    <3> QED BY <2>2, <2>3, <2>4, <3>1 DEF Building
  <2>5. CASE b.pc = "idle"
    BY <2>1, <2>2, <2>5 DEF Building
  <2> QED BY <2>4, <2>5
<1>2. build' = [o \in Openers |-> build'[o]]
  BY DEF Missed
<1> QED BY <1>1, <1>2 DEF BuildInv

\* A change of build o alone.
LEMMA OneBuild ==
  ASSUME BuildInv, NEW o \in Openers, NEW b, BuildOK(b),
         build' = [build EXCEPT ![o] = b]
  PROVE  /\ BuildInv'
         /\ build'[o] = b
         /\ \A p \in Openers \ {o} : build'[p] = build[p]
<1>1. DOMAIN build = Openers
  BY DEF BuildInv
<1>2. build'[o] = b /\ \A p \in Openers \ {o} : build'[p] = build[p]
  BY <1>1
<1>3. build' = [p \in Openers |-> build'[p]]
  BY <1>1
<1> QED BY <1>2, <1>3 DEF BuildInv

LEMMA NoBuildOK == BuildOK(NoBuild)
<1>1. [blob |-> None] = [n \in {"blob"} |-> [blob |-> None][n]]
  OBVIOUS
<1>2. InputsOK([blob |-> None], "idle")
  BY DEF InputsOK, Known, InputTypes
<1> QED BY <1>1, <1>2 DEF BuildOK, NoBuild, BuildSteps, Known

\* A build that ends and leaves the cache alone.
LEMMA BuildEnds ==
  ASSUME CacheInv, NEW o \in Openers, build' = [build EXCEPT ![o] = NoBuild],
         UNCHANGED <<vars, cache, dirty, taint>>
  PROVE  CacheInv'
<1>1. /\ BuildInv' /\ build'[o] = NoBuild
      /\ \A p \in Openers \ {o} : build'[p] = build[p]
  BY NoBuildOK, OneBuild DEF CacheInv
<1>2. UNCHANGED <<log, rows, blob, task>>
  BY DEF vars
<1>3. BuildsFresh'
  BY <1>1, <1>2 DEF CacheInv, BuildsFresh, Building, Abreast, SomeDirty, Inputs, NoBuild
<1>4. Fresh'
  BY <1>2 DEF CacheInv, Fresh, Current, Inputs, ModuleOf, Shown
<1>5. (TypeInv /\ OpsInv /\ DirtyInv)'
  BY <1>2 DEF CacheInv, TypeInv, TypeOK, OpsInv, Busy, DirtyInv
<1> QED BY <1>1, <1>3, <1>4, <1>5 DEF CacheInv

\* What a SELECT returns is of its type.
LEMMA InputsTyped ==
  ASSUME TypeOK, NEW n \in {"blob", "log", "scripts", "styles"}
  PROVE  Inputs[n] \in InputTypes[n]
BY DEF TypeOK, Inputs, InputTypes, Types

\* A step that reads one input.
LEMMA ReadStep ==
  ASSUME CacheInv, NEW o \in Openers, NEW from, NEW name, NEW v, NEW to,
         Read(o, from, name, v, to),
         v = Inputs[name], from = "idle" => name = "blob",
         from \in BuildSteps, to \in BuildSteps \ {"idle"},
         Known(to) = Known(from) \cup {name}
  PROVE  CacheInv'
<1> DEFINE b == build[o]
           r == [n \in DOMAIN b.read \cup {name} |-> IF n = name THEN v ELSE b.read[n]]
           c == [b EXCEPT !.pc = to, !.read = r]
<1>1. BuildOK(b) /\ b.pc = from /\ build' = [build EXCEPT ![o] = c]
  BY DEF Read, CacheInv, BuildInv
<1>2. DOMAIN b.read = Known(from)
  BY <1>1 DEF BuildOK
<1>3. r = [n \in Known(to) |-> r[n]]
  BY <1>2
<1>4. \A n \in Known(to) : r[n] = IF n = name THEN v ELSE b.read[n]
  BY <1>2
<1> HIDE DEF r
<1>5. /\ c.pc = to /\ c.read = r /\ c.missed = b.missed
      /\ c = [pc |-> c.pc, read |-> c.read, missed |-> c.missed]
  <2>1. b = [pc |-> b.pc, read |-> b.read, missed |-> b.missed]
    BY <1>1 DEF BuildOK
  <2> DEFINE B == [pc : {b.pc, to}, read : {b.read, r}, missed : {b.missed}]
  <2>2. b \in B
    <3> HIDE DEF b
    <3> QED BY <2>1
  <2>3. c \in B /\ c.pc = to /\ c.read = r /\ c.missed = b.missed
    <3> HIDE DEF b
    <3> QED BY <2>2
  <2> HIDE DEF c
  <2>4. c = [pc |-> c.pc, read |-> c.read, missed |-> c.missed]
    BY <2>3
  <2> QED BY <2>3, <2>4
<1> HIDE DEF c
<1>6. BuildOK(c)
  <2>1. name \in {"blob", "log", "scripts", "styles"}
    BY DEF Known
  <2>2. v \in InputTypes[name]
    BY <2>1, InputsTyped DEF CacheInv, TypeInv
  <2>3. InputsOK(b.read, from)
    BY <1>1 DEF BuildOK
  <2>4. InputsOK(r, to)
    BY <1>4, <2>2, <2>3 DEF InputsOK
  <2> QED BY <1>1, <1>3, <1>5, <2>4 DEF BuildOK
<1>7. /\ BuildInv' /\ build'[o] = c
      /\ \A p \in Openers \ {o} : build'[p] = build[p]
  BY <1>1, <1>6, OneBuild DEF CacheInv
<1>8. UNCHANGED <<log, rows, blob, task, cache, dirty, taint>>
  BY DEF Read, vars
<1>9. Inputs' = Inputs
  BY <1>8 DEF Inputs
<1>10. Building(o) => Abreast(b, Inputs) \/ b.missed # {} \/ SomeDirty
  BY DEF CacheInv, BuildsFresh
<1>11. Abreast(b, Inputs) => Abreast(c, Inputs)
  BY <1>1, <1>4, <1>5 DEF Abreast
<1>12. ~Building(o) => Abreast(c, Inputs)
  <2> SUFFICES ASSUME ~Building(o) PROVE Abreast(c, Inputs)
    OBVIOUS
  <2>1. from = "idle" /\ name = "blob"
    BY <1>1 DEF Building
  <2>2. Known(to) = {"blob"}
    BY <2>1 DEF Known
  <2> QED BY <1>4, <1>5, <2>1, <2>2 DEF Abreast
<1>13. BuildsFresh'
  <2>1. SomeDirty' = SomeDirty
    BY <1>8 DEF SomeDirty
  <2>2. ASSUME NEW p \in Openers \ {o}, build'[p].pc # "idle"
        PROVE  Abreast(build'[p], Inputs') \/ build'[p].missed # {} \/ SomeDirty
    BY <2>2, <1>7, <1>9 DEF CacheInv, BuildsFresh, Building
  <2>3. Abreast(build'[o], Inputs') \/ build'[o].missed # {} \/ SomeDirty
    BY <1>5, <1>7, <1>9, <1>10, <1>11, <1>12
  <2> QED BY <2>1, <2>2, <2>3 DEF BuildsFresh, Building
<1>14. Fresh'
  BY <1>8 DEF CacheInv, Fresh, Current, Inputs, ModuleOf, Shown
<1>15. (TypeInv /\ OpsInv /\ DirtyInv)'
  BY <1>8 DEF CacheInv, TypeInv, TypeOK, OpsInv, Busy, DirtyInv
<1> QED BY <1>7, <1>8, <1>13, <1>14, <1>15 DEF CacheInv

LEMMA CheckCacheStep ==
  ASSUME CacheInv, NEW o \in Openers, CheckCache(o)
  PROVE  CacheInv'
<1> DEFINE b == build[o]
           c == [b EXCEPT !.pc = "readLog"]
<1>1. CASE cache # NoModule
  BY <1>1, BuildEnds DEF CheckCache
<1>2. CASE cache = NoModule
  <2>1. BuildOK(b) /\ b.pc = "checkCache" /\ build' = [build EXCEPT ![o] = c]
    BY <1>2 DEF CheckCache, CacheInv, BuildInv
  <2>2. /\ c.pc = "readLog" /\ c.read = b.read /\ c.missed = b.missed
        /\ c = [pc |-> c.pc, read |-> c.read, missed |-> c.missed]
    <3>1. b = [pc |-> b.pc, read |-> b.read, missed |-> b.missed]
      BY <2>1 DEF BuildOK
    <3> HIDE DEF b
    <3> QED BY <3>1
  <2> HIDE DEF c
  <2>3. BuildOK(c) /\ (Abreast(b, Inputs) => Abreast(c, Inputs))
    BY <2>1, <2>2 DEF BuildOK, InputsOK, Known, BuildSteps, Abreast
  <2>4. /\ BuildInv' /\ build'[o] = c
        /\ \A p \in Openers \ {o} : build'[p] = build[p]
    BY <2>1, <2>3, OneBuild DEF CacheInv
  <2>5. UNCHANGED <<log, rows, blob, task, cache, dirty, taint>>
    BY DEF CheckCache, vars
  <2>6. BuildsFresh'
    <3>1. SomeDirty' = SomeDirty /\ Inputs' = Inputs
      BY <2>5 DEF SomeDirty, Inputs
    <3>2. ASSUME NEW p \in Openers \ {o}, build'[p].pc # "idle"
          PROVE  Abreast(build'[p], Inputs') \/ build'[p].missed # {} \/ SomeDirty
      BY <3>1, <3>2, <2>4 DEF CacheInv, BuildsFresh, Building
    <3>3. Abreast(build'[o], Inputs') \/ build'[o].missed # {} \/ SomeDirty
      BY <2>1, <2>2, <2>3, <2>4, <3>1 DEF CacheInv, BuildsFresh, Building
    <3> QED BY <3>1, <3>2, <3>3 DEF BuildsFresh, Building
  <2>7. Fresh'
    BY <2>5 DEF CacheInv, Fresh, Current, Inputs, ModuleOf, Shown
  <2>8. (TypeInv /\ OpsInv /\ DirtyInv)'
    BY <2>5 DEF CacheInv, TypeInv, TypeOK, OpsInv, Busy, DirtyInv
  <2> QED BY <2>4, <2>5, <2>6, <2>7, <2>8 DEF CacheInv
<1> QED BY <1>1, <1>2

\* A module is made of its four inputs and nothing else.
LEMMA ModuleInputs ==
  ASSUME NEW in, NEW other, in.blob = other.blob, in.log = other.log,
         in.scripts = other.scripts, in.styles = other.styles
  PROVE  ModuleOf(in) = ModuleOf(other)
BY DEF ModuleOf

\* A module made of typed inputs: a style shown has its row.
LEMMA ModuleTyped ==
  ASSUME NEW in, InputsOK(in, "setModule")
  PROVE  ModuleOf(in) \in Module
<1>1. /\ in.blob \in Blobs \cup {None} /\ in.log \subseteq LogRow
      /\ in.scripts \in [Ids -> Row \cup {None}]
      /\ in.styles \in [Ids -> Row \cup {None}]
  <2>1. \A n \in {"blob", "log", "scripts", "styles"} : in[n] \in InputTypes[n]
    BY DEF InputsOK, Known
  <2> QED BY <2>1 DEF InputTypes
<1> DEFINE shown == {Shown(l, in.scripts, in.styles) :
                       l \in {k \in in.log : k.type = "Style" => in.styles[k.id] # None}}
<1>2. ASSUME NEW l \in in.log, l.type = "Style" => in.styles[l.id] # None
      PROVE  Shown(l, in.scripts, in.styles) \in Entry
  <2>1. l \in LogRow /\ l.type \in Types /\ l.id \in Ids
    BY <1>1 DEF LogRow
  <2>2. /\ in.scripts[l.id] \in Row \cup {None}
        /\ in.styles[l.id] \in Row \cup {None}
    BY <1>1, <2>1
  <2> QED BY <1>2, <2>1, <2>2 DEF Shown, Entry, Row
<1>3. shown \subseteq Entry
  BY <1>2
<1> HIDE DEF shown
<1> QED BY <1>1, <1>3 DEF ModuleOf, Module, shown

\* A build that has kept abreast caches what another would build now.
LEMMA SetModuleStep ==
  ASSUME CacheInv, NEW o \in Openers, SetModule(o)
  PROVE  CacheInv'
<1> DEFINE b == build[o]
<1>1. /\ BuildOK(b) /\ b.pc = "setModule" /\ build' = [build EXCEPT ![o] = NoBuild]
      /\ cache' = ModuleOf(b.read) /\ taint' = b.missed /\ b.read.blob \notin BadBlobs
  BY DEF SetModule, CacheInv, BuildInv, Decodes
<1>2. /\ BuildInv' /\ build'[o] = NoBuild
      /\ \A p \in Openers \ {o} : build'[p] = build[p]
  BY <1>1, NoBuildOK, OneBuild DEF CacheInv
<1>3. UNCHANGED <<log, rows, blob, task, dirty>>
  BY DEF SetModule, vars
<1>4. taint' \subseteq Sites
  BY <1>1 DEF BuildOK
<1>5. cache' \in Module /\ cache'.blob \notin BadBlobs
  <2>1. InputsOK(b.read, "setModule")
    BY <1>1 DEF BuildOK
  <2>2. ModuleOf(b.read) \in Module
    BY <2>1, ModuleTyped
  <2> QED BY <1>1, <2>2 DEF ModuleOf
<1>6. Abreast(b, Inputs) => cache' = Current'
  <2>1. Known(b.pc) = {"blob", "log", "scripts", "styles"}
    BY <1>1 DEF Known
  <2>2. Abreast(b, Inputs) => /\ b.read.blob = blob /\ b.read.log = log
                              /\ b.read.scripts = rows["Script"]
                              /\ b.read.styles = rows["Style"]
    BY <2>1 DEF Abreast, Inputs
  <2>3. /\ Inputs.blob = blob /\ Inputs.log = log
        /\ Inputs.scripts = rows["Script"] /\ Inputs.styles = rows["Style"]
    BY DEF Inputs
  <2>4. Abreast(b, Inputs) => ModuleOf(b.read) = Current
    BY <2>2, <2>3, ModuleInputs DEF Current
  <2>5. Current' = Current
    BY <1>3 DEF Current, Inputs, ModuleOf, Shown
  <2> QED BY <1>1, <2>4, <2>5
<1>7. Abreast(b, Inputs) \/ b.missed # {} \/ SomeDirty
  BY <1>1 DEF CacheInv, BuildsFresh, Building
<1>8. Fresh'
  BY <1>1, <1>3, <1>6, <1>7 DEF Fresh, SomeDirty
<1>9. BuildsFresh'
  BY <1>2, <1>3 DEF CacheInv, BuildsFresh, Building, Abreast, SomeDirty, Inputs, NoBuild
<1>10. (TypeInv /\ OpsInv /\ DirtyInv)'
  BY <1>3 DEF CacheInv, TypeInv, TypeOK, OpsInv, Busy, DirtyInv
<1> QED BY <1>2, <1>4, <1>5, <1>8, <1>9, <1>10 DEF CacheInv

-----------------------------------------------------------------------------
(* The handlers. *)

\* A step of a handler other than an invalidation.
LEMMA WatchStep ==
  ASSUME CacheInv, NEW t \in Tasks, Watched(t), Watch(t)
  PROVE  CacheInv'
<1> DEFINE changed == dirty[t] \/ Inputs' # Inputs
           site == <<task[t].msg.op, task[t].pc>>
           escaped == IF changed /\ ~Busy(t)' THEN {site} ELSE {}
<1>0. /\ TypeInv /\ OpsInv /\ DirtyInv /\ BuildInv
      /\ task \in [Tasks -> TaskState] /\ dirty \in [Tasks -> BOOLEAN]
  BY DEF CacheInv, TypeInv, TypeOK, DirtyInv
<1>1. TypeInv' /\ task' \in [Tasks -> TaskState]
  BY <1>0, WatchedNext, TypeStep DEF TypeInv, TypeOK
<1>2. /\ dirty' = [dirty EXCEPT ![t] = changed /\ Busy(t)']
      /\ taint' = taint \cup escaped
      /\ Missed(escaped)
      /\ UNCHANGED cache
  BY DEF Watch
<1>3. /\ \A u \in Tasks \ {t} : task'[u] = task[u]
      /\ IF Busy(t) THEN task'[t].pc # "idle" => task'[t].msg = task[t].msg
         ELSE task'[t].msg.op \in IF t \in Sockets THEN SocketOps ELSE RequestOps
  BY <1>0, WatchedMoves
<1>4. Busy(t)' <=> task'[t].pc # "idle"
  BY DEF Busy
<1>5. changed => /\ ~Busy(t)' => site \in Sites
                 /\ Busy(t)' => Owing(task'[t].msg, task'[t].pc)
  BY <1>0, <1>4, WatchedOwing
<1>6. escaped \subseteq Sites
  BY <1>5
<1>7. /\ dirty'[t] = (changed /\ Busy(t)') /\ dirty' \in [Tasks -> BOOLEAN]
      /\ \A u \in Tasks \ {t} : dirty'[u] = dirty[u]
  <2> HIDE DEF changed
  <2>1. (changed /\ Busy(t)') \in BOOLEAN
    BY <1>4
  <2> QED BY <1>0, <1>2, <2>1
<1>8. changed => SomeDirty' \/ escaped # {}
  BY <1>7 DEF SomeDirty
<1>9. ~changed => Inputs' = Inputs
  OBVIOUS
<1>10. SomeDirty => SomeDirty' \/ escaped # {}
  BY <1>7, <1>8 DEF SomeDirty
<1>11. /\ BuildInv'
       /\ \A o \in Openers :
            /\ build'[o].pc = build[o].pc /\ build'[o].read = build[o].read
            /\ Building(o) => build'[o].missed = build[o].missed \cup escaped
  BY <1>0, <1>2, <1>6, MissedBuilds
<1>12. OpsInv'
  BY <1>0, <1>3 DEF OpsInv, Busy
<1>13. DirtyInv'
  <2> HIDE DEF changed
  <2>1. \A u \in Tasks : dirty'[u] => Owing(task'[u].msg, task'[u].pc)
    BY <1>0, <1>3, <1>5, <1>7 DEF DirtyInv
  <2> QED BY <1>7, <2>1 DEF DirtyInv
<1> HIDE DEF changed, escaped
<1>14. Fresh'
  <2>1. ~changed => Current' = Current
    BY <1>9 DEF Current, ModuleOf
  <2>2. cache = NoModule \/ cache = Current \/ taint # {} \/ SomeDirty
    BY DEF CacheInv, Fresh, SomeDirty
  <2>3. cache' = NoModule \/ cache' = Current' \/ taint' # {} \/ SomeDirty'
    BY <1>2, <1>8, <1>10, <2>1, <2>2
  <2> QED BY <2>3 DEF Fresh, SomeDirty
<1>15. BuildsFresh'
  <2> SUFFICES ASSUME NEW o \in Openers, Building(o)'
               PROVE  Abreast(build'[o], Inputs') \/ build'[o].missed # {} \/ SomeDirty'
    BY DEF BuildsFresh
  <2>1. /\ Building(o) /\ build'[o].missed = build[o].missed \cup escaped
        /\ Abreast(build'[o], Inputs') <=> Abreast(build[o], Inputs')
    BY <1>11 DEF Building, Abreast
  <2>2. Abreast(build[o], Inputs) \/ build[o].missed # {} \/ SomeDirty
    BY <2>1 DEF CacheInv, BuildsFresh
  <2> QED BY <1>8, <1>9, <1>10, <2>1, <2>2
<1> QED
  BY <1>1, <1>2, <1>6, <1>11, <1>12, <1>13, <1>14, <1>15 DEF CacheInv

LEMMA InvalidateStep ==
  ASSUME CacheInv, NEW t \in Tasks, InvalidateModule(t)
  PROVE  CacheInv'
<1>0. /\ TypeInv /\ OpsInv /\ DirtyInv /\ BuildInv
      /\ task \in [Tasks -> TaskState] /\ dirty \in [Tasks -> BOOLEAN]
  BY DEF CacheInv, TypeInv, TypeOK, DirtyInv
<1>1. TypeInv'
  BY <1>0, TypeStep DEF InvalidateModule, Next
<1>2. /\ cache' = NoModule /\ taint' = {} /\ dirty' = [dirty EXCEPT ![t] = FALSE]
      /\ Missed({Race}) /\ Done(t) /\ Busy(t)
  BY DEF InvalidateModule, Invalidate, Busy
<1>3. /\ \A u \in Tasks \ {t} : task'[u] = task[u]
      /\ task'[t].pc # "idle" => task'[t].msg = task[t].msg
  BY <1>0, <1>2, GotoMoves DEF Done
<1>4. /\ BuildInv'
      /\ \A o \in Openers :
           /\ build'[o].pc = build[o].pc
           /\ Building(o) => build'[o].missed = build[o].missed \cup {Race}
  BY <1>0, <1>2, MissedBuilds DEF Sites
<1>5. OpsInv' /\ DirtyInv'
  BY <1>0, <1>2, <1>3 DEF OpsInv, Busy, DirtyInv
<1>6. Fresh' /\ BuildsFresh'
  BY <1>2, <1>4 DEF Fresh, BuildsFresh, Building
<1> QED BY <1>1, <1>2, <1>4, <1>5, <1>6 DEF CacheInv

LEMMA CrashStep ==
  ASSUME CacheInv, CrashCache
  PROVE  CacheInv'
<1>1. TypeInv'
  BY TypeStep DEF CacheInv, CrashCache, Next
<1>2. /\ cache' = NoModule /\ taint' = {} /\ dirty' = [t \in Tasks |-> FALSE]
      /\ build' = [o \in Openers |-> NoBuild] /\ task' = [t \in Tasks |-> Idle]
  BY DEF CrashCache, Crash
<1>3. BuildInv' /\ BuildsFresh'
  BY <1>2, NoBuildOK DEF BuildInv, BuildsFresh, Building, NoBuild
<1>4. OpsInv' /\ DirtyInv' /\ Fresh'
  BY <1>2 DEF OpsInv, DirtyInv, Busy, Idle, Fresh
<1> QED BY <1>1, <1>2, <1>3, <1>4 DEF CacheInv

LEMMA CacheStep == CacheInv /\ [CacheNext]_<<vars, cacheVars>> => CacheInv'
<1> SUFFICES ASSUME CacheInv, [CacheNext]_<<vars, cacheVars>>
             PROVE  CacheInv'
  OBVIOUS
<1>1. CASE \E t \in Tasks : Watched(t) /\ Watch(t)
  BY <1>1, WatchStep
<1>2. CASE \E t \in Tasks : InvalidateModule(t)
  BY <1>2, InvalidateStep
<1>3. ASSUME NEW o \in Openers, GetUser(o)
      PROVE  CacheInv'
  BY <1>3, ReadStep DEF GetUser, Known, BuildSteps, Inputs
<1>4. ASSUME NEW o \in Openers, ReadLog(o)
      PROVE  CacheInv'
  BY <1>4, ReadStep DEF ReadLog, Known, BuildSteps, Inputs
<1>5. ASSUME NEW o \in Openers, ReadScripts(o)
      PROVE  CacheInv'
  BY <1>5, ReadStep DEF ReadScripts, Known, BuildSteps, Inputs
<1>6. ASSUME NEW o \in Openers, ReadStyles(o)
      PROVE  CacheInv'
  BY <1>6, ReadStep DEF ReadStyles, Known, BuildSteps, Inputs
<1>7. ASSUME NEW o \in Openers, BuildFails(o)
      PROVE  CacheInv'
  BY <1>7, BuildEnds DEF BuildFails
<1>8. CASE CrashCache
  BY <1>8, CrashStep
<1>9. CASE UNCHANGED <<vars, cacheVars>>
  <2>1. UNCHANGED <<log, rows, blob, task, cache, build, dirty, taint>>
    BY <1>9 DEF vars, cacheVars
  <2>2. Fresh'
    BY <2>1 DEF CacheInv, Fresh, Current, Inputs, ModuleOf, Shown
  <2>3. BuildsFresh'
    BY <2>1 DEF CacheInv, BuildsFresh, Building, Abreast, SomeDirty, Inputs
  <2>4. (TypeInv /\ OpsInv /\ DirtyInv /\ BuildInv)'
    BY <2>1 DEF CacheInv, TypeInv, TypeOK, OpsInv, Busy, DirtyInv, BuildInv
  <2> QED BY <2>1, <2>2, <2>3, <2>4 DEF CacheInv
<1> QED
  BY <1>1, <1>2, <1>3, <1>4, <1>5, <1>6, <1>7, <1>8, <1>9, CheckCacheStep, SetModuleStep
     DEF CacheNext, Watched

LEMMA CacheStart == CacheInit => CacheInv
<1> SUFFICES ASSUME CacheInit PROVE CacheInv
  OBVIOUS
<1>1. TypeInv
  BY TypeInit DEF CacheInit
<1>2. BuildInv /\ BuildsFresh
  BY NoBuildOK DEF CacheInit, BuildInv, BuildsFresh, Building, NoBuild
<1>3. OpsInv /\ DirtyInv /\ Fresh
  BY DEF CacheInit, Init, OpsInv, Busy, Idle, DirtyInv, Fresh
<1> QED BY <1>1, <1>2, <1>3 DEF CacheInv, CacheInit

LEMMA CacheInvariant == CacheSpec => []CacheInv
BY CacheStart, CacheStep, PTL DEF CacheSpec

\* The cache and the builds change nothing of what the handlers do: what is
\* proved of EntryStore holds here.
THEOREM CacheKeepsStore == CacheSpec => Spec
<1>1. CacheInit => Init
  BY DEF CacheInit
<1>2. [CacheNext]_<<vars, cacheVars>> => [Next]_vars
  <2> SUFFICES ASSUME [CacheNext]_<<vars, cacheVars>> PROVE [Next]_vars
    OBVIOUS
  <2>1. ASSUME NEW t \in Tasks, Watched(t) PROVE [Next]_vars
    BY <2>1, WatchedNext
  <2>2. ASSUME NEW t \in Tasks, InvalidateModule(t) PROVE [Next]_vars
    BY <2>2 DEF InvalidateModule, Next
  <2>3. ASSUME NEW o \in Openers,
               \/ GetUser(o) \/ CheckCache(o) \/ ReadLog(o) \/ ReadScripts(o)
               \/ ReadStyles(o) \/ SetModule(o) \/ BuildFails(o)
        PROVE  [Next]_vars
    BY <2>3
       DEF GetUser, CheckCache, ReadLog, ReadScripts, ReadStyles, SetModule,
           BuildFails, Read
  <2>4. CrashCache => [Next]_vars
    BY DEF CrashCache, Next
  <2> QED BY <2>1, <2>2, <2>3, <2>4 DEF CacheNext, Watched
<1> QED BY <1>1, <1>2, PTL DEF CacheSpec, Spec

LEMMA SitesTyped == Sites \subseteq Cause
BY DEF Sites, Cause, Race, PlainSites, ErrorSites, HangUpSites, SocketOps, RequestOps,
       Admin, Steps, InsertSteps

\* The database, the handlers, the cache and the builds keep their types: a
\* module that is cached is well formed, and a build comes to set_module with
\* all it was to read.
THEOREM CacheTypeCorrect == CacheSpec => []CacheTypeOK
<1>1. CacheInv => CacheTypeOK
  <2> SUFFICES ASSUME CacheInv PROVE CacheTypeOK
    OBVIOUS
  <2>1. ASSUME NEW o \in Openers
        PROVE  /\ build[o].pc \in BuildSteps /\ DOMAIN build[o].read = Known(build[o].pc)
               /\ \A n \in Known(build[o].pc) : build[o].read[n] \in InputTypes[n]
               /\ build[o].missed \subseteq Cause
    BY SitesTyped DEF CacheInv, BuildInv, BuildOK, InputsOK
  <2>2. cache \in Module \cup {NoModule} /\ taint \subseteq Cause
    BY SitesTyped DEF CacheInv
  <2> QED BY <2>1, <2>2 DEF CacheInv, CacheTypeOK, TypeInv, DirtyInv
<1> QED BY <1>1, CacheInvariant, PTL

\* While the stored type-7 blob does not decode, no connection that opens
\* gets a module, but through a race or an escape that is on record
\* (handle_client_msg stores it, build_module_bin fails on it).
THEOREM LockedOutAlways == CacheSpec => []LockedOut
<1>1. CacheInv => LockedOut
  <2> SUFFICES ASSUME CacheInv, blob \in BadBlobs, \A t \in Tasks : ~dirty[t]
               PROVE  /\ cache = NoModule \/ taint # {}
                      /\ \A o \in Openers :
                           build[o].pc = "setModule" /\ build[o].read.blob \notin BadBlobs =>
                             build[o].missed # {}
    BY DEF LockedOut
  <2>1. cache = Current => cache.blob = blob
    BY DEF Current, ModuleOf, Inputs
  <2>2. cache = NoModule \/ taint # {}
    BY <2>1 DEF CacheInv, Fresh
  <2>3. ASSUME NEW o \in Openers, build[o].pc = "setModule", build[o].missed = {}
        PROVE  build[o].read.blob = blob
    <3>1. Abreast(build[o], Inputs)
      BY <2>3 DEF CacheInv, BuildsFresh, Building, SomeDirty
    <3> QED BY <2>3, <3>1 DEF Abreast, Known, Inputs
  <2> QED BY <2>2, <2>3
<1> QED BY <1>1, CacheInvariant, PTL

\* However handlers and opening connections interleave, fail and are
\* dropped, a stale module in the cache has a cause: a handler that will
\* still invalidate, an invalidation that overtook the build, or a change
\* that was never invalidated.
THEOREM FreshAlways == CacheSpec => []Fresh
<1>1. CacheInv => Fresh
  BY DEF CacheInv
<1> QED BY <1>1, CacheInvariant, PTL

\* And a change that is never invalidated got away at one of the sites that
\* are listed; the sites of errors and dropped requests need those.
THEOREM EscapesKnown == CacheSpec => []EscapeSites
<1>1. CacheInv => EscapeSites
  BY DEF CacheInv, EscapeSites, Sites
<1> QED BY <1>1, CacheInvariant, PTL

=============================================================================
