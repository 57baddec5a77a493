--------------------------- MODULE EntryStoreProofs ---------------------------
(***************************************************************************)
(* Theorems about EntryStore, for any number of tasks, any set of messages *)
(* and any width of the ids.                                               *)
(***************************************************************************)
EXTENDS EntryStore, WellFoundedInduction, TLAPS

-----------------------------------------------------------------------------
(* Ids. *)

\* A nonempty set of ids has a greatest element, and Max is it.
LEMMA MaxOfIds ==
  ASSUME NEW S \in SUBSET Ids, S # {}
  PROVE  Max(S) \in S /\ \A i \in S : i <= Max(S)
<1> USE IdsAssumption DEF Ids
<1> DEFINE R == {p \in Nat \X Nat : p[1] < p[2]}
           T == {MaxId - i : i \in S}
<1>1. IsWellFoundedOn(R, Nat)
  BY NatLessThanWellFounded DEF OpToRel
<1>2. T \subseteq Nat /\ T # {}
  <2>1. \A i \in S : i \in Int /\ i <= MaxId /\ MaxId - i \in Nat
    BY SMT
  <2>2. T \subseteq Nat
    BY <2>1
  <2>3. T # {}
    <3>1. PICK i \in S : TRUE
      OBVIOUS
    <3> QED BY <3>1
  <2> QED BY <2>2, <2>3
<1>3. PICK x \in T : \A y \in T : ~ (<<y, x>> \in R)
  <2> HIDE DEF R, T
  <2> QED BY <1>1, <1>2, WFMin
<1>4. PICK i \in S : x = MaxId - i
  BY <1>3
<1>5. \A j \in S : j <= i
  <2> SUFFICES ASSUME NEW j \in S PROVE j <= i
    OBVIOUS
  <2>1. MaxId - j \in T /\ MaxId - j \in Nat /\ x \in Nat
    BY <1>2
  <2>2. ~ (MaxId - j < x)
    BY <2>1, <1>3
  <2> QED BY <2>1, <2>2, <1>4
<1>6. Max(S) \in S /\ \A j \in S : Max(S) >= j
  BY <1>5, <1>4 DEF Max
<1> QED BY <1>6

\* The id handed out next is an i32, whatever is in the log.
LEMMA NextIdTyped ==
  ASSUME log \subseteq LogRow
  PROVE  /\ LastId \in Ids
         /\ \A l \in log : l.id <= LastId
         /\ NextId \in Ids
<1> DEFINE S == {l.id : l \in log}
<1>1. S \in SUBSET Ids
  BY DEF LogRow
<1>2. log # {} => /\ Max(S) \in S
                  /\ \A i \in S : i <= Max(S)
  <2> HIDE DEF S
  <2>1. S # {} => Max(S) \in S /\ \A i \in S : i <= Max(S)
    BY <1>1, MaxOfIds
  <2>2. log # {} => S # {}
    BY DEF S
  <2> QED BY <2>1, <2>2
<1>3. LastId = IF log = {} THEN 0 ELSE Max(S)
  BY DEF LastId
<1>4. LastId \in Ids /\ \A l \in log : l.id <= LastId
  <2>1. CASE log = {}
    BY <2>1, <1>3, IdsAssumption DEF Ids
  <2>2. CASE log # {}
    BY <2>2, <1>1, <1>2, <1>3
  <2> QED BY <2>1, <2>2
<1>5. NextId \in Ids
  BY <1>4, IdsAssumption DEF NextId, Ids
<1> QED BY <1>4, <1>5

-----------------------------------------------------------------------------
(* Types.  TypeOK is not inductive: that a row gets a name and a content,  *)
(* and not None, depends on where in its handler a task is.                *)

\* The steps the handler of message m goes through, and what it must have
\* been given to be there.
StepOK(m, s) ==
  \/ s = "idle"
  \/ /\ m.op = "create"
     /\ s \in {"nextId", "insertLog", "insertRow", "setText", "recreate",
               "rewrite", "invalidate", "reply"}
     /\ s \in {"setText", "recreate", "rewrite"} => m.content # None
  \/ /\ m.op = "update"
     /\ s \in {"touchLog", "rename", "createNamed", "invalidateName", "setText",
               "recreate", "rewrite", "invalidate"}
     /\ s = "touchLog" => m.ts # None
     /\ s \in {"rename", "createNamed"} => m.name # None
     /\ s \in {"setText", "recreate", "rewrite"} => m.content # None
  \/ /\ m.op = "duplicate"
     /\ s \in {"nextId", "readSource", "insertRow", "copyText", "invalidate",
               "insertLog", "reply"}
  \/ /\ m.op = "import"
     /\ s \in {"nextId", "insertRow", "copyText", "insertLog", "invalidate",
               "reply"}
  \/ m.op = "delete" /\ s \in {"deleteRow", "deleteLog", "invalidate"}
  \/ m.op = "type7" /\ s \in {"setBlob", "invalidate"}
  \/ m.op \in Admin /\ s \in {"adminLog", "invalidate"}

\* What a task k carries fits its message and its place in the handler.
TaskOK(k) ==
  /\ k.pc # "idle" => k.msg \in Messages
  /\ k.pc = "idle" => k = Idle
  /\ StepOK(k.msg, k.pc)
  /\ k.msg.op # "duplicate" => k.name = k.msg.name /\ k.content = k.msg.content
  /\ k.msg.op = "duplicate" /\ k.pc \notin {"nextId", "readSource"} =>
       k.name \in Names /\ k.content \in Contents
  /\ k.upsert # "insert" => k.pc \in InsertSteps /\ k.msg.type \in Upserting

TypeInv == TypeOK /\ \A t \in Tasks : TaskOK(task[t])

LEMMA IdleOK == Idle \in TaskState /\ TaskOK(Idle)
<1>1. 0 \in Ids
  BY IdsAssumption DEF Ids
<1>2. NoMessage \in Message
  BY <1>1 DEF NoMessage, Message, SocketOps, Types
<1>3. Idle \in TaskState
  BY <1>1, <1>2 DEF Idle, TaskState, Steps
<1>4. TaskOK(Idle)
  BY DEF TaskOK, Idle, NoMessage, StepOK
<1> QED BY <1>3, <1>4

\* A handler goes from one of its steps to another, whether the statement
\* succeeds or fails, and after its first steps never back to them.
LEMMA StepFollows ==
  ASSUME NEW m \in Messages, NEW s, StepOK(m, s), s # "idle"
  PROVE  /\ StepOK(m, After(m, s)) /\ StepOK(m, OnError(m, s))
         /\ After(m, s) \in Steps /\ OnError(m, s) \in Steps
         /\ s \notin {"nextId", "readSource"} =>
              After(m, s) \notin {"nextId", "readSource"}
         /\ OnError(m, s) \notin {"nextId", "readSource"}
<1> USE DEF StepOK, Steps, InsertSteps
<1>1. CASE m.op = "create"
  BY <1>1 DEF After, OnError, Tolerated, CreateNext, Admin
<1>2. CASE m.op = "update"
  BY <1>2 DEF After, OnError, Tolerated, UpdateNext, UpdateRest, Admin
<1>3. CASE m.op = "duplicate"
  BY <1>3 DEF After, OnError, Tolerated, DuplicateNext, Admin
<1>4. CASE m.op = "delete"
  BY <1>4 DEF After, OnError, Tolerated, DeleteNext, Admin
<1>5. CASE m.op = "import"
  BY <1>5 DEF After, OnError, Tolerated, ImportNext, Admin
<1>6. CASE m.op = "type7"
  BY <1>6 DEF After, OnError, Tolerated, Admin
<1>7. CASE m.op \in Admin
  BY <1>7 DEF After, OnError, Tolerated, AdminNext, Admin
<1>8. m.op \in SocketOps \cup RequestOps
  BY MessagesAssumption DEF Message
<1> QED BY <1>1, <1>2, <1>3, <1>4, <1>5, <1>6, <1>7, <1>8 DEF SocketOps, RequestOps

\* A task that moves on to a step of its handler stays well-typed.
LEMMA GotoOK ==
  ASSUME TypeInv, NEW t \in Tasks, NEW s \in Steps,
         StepOK(task[t].msg, s), Busy(t), Goto(t, s),
         \/ s \notin {"nextId", "readSource"} /\ task[t].pc \notin {"nextId", "readSource"}
         \/ s = "idle"
  PROVE  task' \in [Tasks -> TaskState] /\ \A u \in Tasks : TaskOK(task'[u])
<1> DEFINE k == IF s = "idle" THEN Idle
                ELSE [task[t] EXCEPT !.pc = s, !.upsert = "insert"]
<1>1. task \in [Tasks -> TaskState] /\ task[t] \in TaskState /\ TaskOK(task[t])
  BY DEF TypeInv, TypeOK
<1>2. task' = [task EXCEPT ![t] = k]
  BY DEF Goto
<1>3. k \in TaskState /\ TaskOK(k)
  <2>1. CASE s = "idle"
    BY <2>1, IdleOK
  <2>2. CASE s # "idle"
    <3>1. k \in TaskState
      BY <1>1, <2>2 DEF TaskState
    <3>2. /\ k.pc = s /\ k.msg = task[t].msg
          /\ k.name = task[t].name /\ k.content = task[t].content
      BY <1>1, <2>2 DEF TaskState
    <3>3. TaskOK(k)
      BY <1>1, <2>2, <3>2 DEF TaskOK, Busy
    <3> QED BY <3>1, <3>3
  <2> QED BY <2>1, <2>2
<1> HIDE DEF k
<1> QED BY <1>1, <1>2, <1>3 DEF TypeInv

LEMMA DoneOK ==
  ASSUME TypeInv, NEW t \in Tasks, Busy(t), Done(t),
         task[t].pc \notin {"nextId", "readSource"}
  PROVE  task' \in [Tasks -> TaskState] /\ \A u \in Tasks : TaskOK(task'[u])
<1>1. task[t].msg \in Messages /\ StepOK(task[t].msg, task[t].pc)
  BY DEF TypeInv, TaskOK, Busy
<1> QED BY <1>1, StepFollows, GotoOK DEF Done, Busy

LEMMA FailOK ==
  ASSUME TypeInv, NEW t \in Tasks, Busy(t), Fail(t)
  PROVE  task' \in [Tasks -> TaskState] /\ \A u \in Tasks : TaskOK(task'[u])
<1>1. task[t].msg \in Messages /\ StepOK(task[t].msg, task[t].pc)
  BY DEF TypeInv, TaskOK, Busy
<1>2. task[t].pc \in {"nextId", "readSource"} => OnError(task[t].msg, task[t].pc) = "idle"
  BY DEF OnError, Tolerated
<1> QED BY <1>1, <1>2, StepFollows, GotoOK DEF Fail, Busy

\* A change of the tasks alone.
LEMMA TasksChange ==
  ASSUME TypeInv, task' \in [Tasks -> TaskState],
         \A u \in Tasks : TaskOK(task'[u]), UNCHANGED <<log, rows, blob>>
  PROVE  TypeInv'
BY DEF TypeInv, TypeOK

\* A change of one task.
LEMMA OneTaskChange ==
  ASSUME TypeInv, NEW t \in Tasks, NEW k \in TaskState, TaskOK(k),
         task' = [task EXCEPT ![t] = k]
  PROVE  task' \in [Tasks -> TaskState] /\ \A u \in Tasks : TaskOK(task'[u])
BY DEF TypeInv, TypeOK

\* A task that goes on with create_style.
LEMMA UpsertOK ==
  ASSUME TypeInv, NEW t \in Tasks, task[t].pc \in InsertSteps,
         task[t].msg.type \in Upserting,
         NEW v \in {"insert", "update", "fetch"}, task' = [task EXCEPT ![t].upsert = v]
  PROVE  task' \in [Tasks -> TaskState] /\ \A u \in Tasks : TaskOK(task'[u])
<1> DEFINE k == [task[t] EXCEPT !.upsert = v]
<1>1. task[t] \in TaskState /\ TaskOK(task[t])
  BY DEF TypeInv, TypeOK
<1>2. k \in TaskState
  BY <1>1 DEF TaskState
<1>3. /\ k.pc = task[t].pc /\ k.msg = task[t].msg /\ k.name = task[t].name
      /\ k.content = task[t].content
  BY <1>1 DEF TaskState
<1>4. TaskOK(k)
  BY <1>1, <1>3 DEF TaskOK, InsertSteps
<1>5. task' = [task EXCEPT ![t] = k]
  OBVIOUS
<1> HIDE DEF k
<1> QED BY <1>2, <1>4, <1>5, OneTaskChange

\* What the steps that write to a row write there.
LEMMA WritesTyped ==
  ASSUME TypeInv, NEW t \in Tasks
  PROVE  /\ task[t] \in TaskState
         /\ task[t].msg.type \in Types /\ task[t].id \in Ids
         /\ Backing(t) \in Row \cup {None}
         /\ Busy(t) => task[t].msg \in Messages /\ task[t].msg \in Message
         /\ task[t].pc \in {"insertRow", "createNamed", "rename"} => task[t].name \in Names
         /\ task[t].pc \in {"copyText", "setText", "rewrite"} => task[t].content \in Contents
<1>1. task[t] \in TaskState /\ TaskOK(task[t])
  BY DEF TypeInv, TypeOK
<1>2. task[t].msg \in Message /\ task[t].id \in Ids /\ task[t].msg.type \in Types
  BY <1>1 DEF TaskState, Message
<1>3. Backing(t) \in Row \cup {None}
  BY <1>2 DEF Backing, TypeInv, TypeOK
<1>4. Busy(t) => task[t].msg \in Messages /\ task[t].msg \in Message
  BY <1>1, <1>2 DEF TaskOK, Busy
<1>5. ASSUME task[t].pc \in {"insertRow", "createNamed", "rename"}
      PROVE  task[t].name \in Names
  <2>1. task[t].msg \in Messages /\ task[t].name \in Names \cup {None}
    BY <1>1, <1>5 DEF TaskOK, TaskState
  <2> QED BY <2>1, <1>1, <1>5, MessagesAssumption DEF TaskOK, StepOK
<1>6. ASSUME task[t].pc \in {"copyText", "setText", "rewrite"}
      PROVE  task[t].content \in Contents
  <2>1. task[t].msg \in Messages /\ task[t].content \in Contents \cup {None}
    BY <1>1, <1>6 DEF TaskOK, TaskState
  <2> QED BY <2>1, <1>1, <1>6, MessagesAssumption DEF TaskOK, StepOK
<1> QED BY <1>1, <1>2, <1>3, <1>4, <1>5, <1>6

LEMMA WriteOK ==
  ASSUME TypeInv, NEW t \in Tasks, NEW r \in Row \cup {None}, Write(t, r)
  PROVE  rows' \in [Types -> [Ids -> Row \cup {None}]]
BY WritesTyped DEF Write, TypeInv, TypeOK

LEMMA AddLogOK ==
  ASSUME TypeInv, NEW ty \in Types, NEW i \in Ids, NEW ts \in Times, AddLog(ty, i, ts)
  PROVE  log' \subseteq LogRow
BY DEF AddLog, FreeUuids, TypeInv, TypeOK, LogRow

\* Each action preserves the types.
LEMMA TypeStep == TypeInv /\ [Next]_vars => TypeInv'
<1> SUFFICES ASSUME TypeInv, [Next]_vars
             PROVE  TypeInv'
  OBVIOUS
<1>0. log \subseteq LogRow /\ blob \in Blobs \cup {None}
  BY DEF TypeInv, TypeOK
<1>1. ASSUME NEW t \in Tasks, NEW m \in Messages, Receive(t, m)
      PROVE  TypeInv'
  <2> DEFINE k == [pc |-> FirstStep(m), msg |-> m, id |-> m.id, name |-> m.name,
                   content |-> m.content, upsert |-> "insert"]
  <2>1. m \in Message /\ m.op \in SocketOps \cup RequestOps
    BY MessagesAssumption DEF Message
  <2>2. StepOK(m, FirstStep(m)) /\ FirstStep(m) \in Steps
    BY <2>1 DEF FirstStep, StepOK, Creating, UpdateRest, Steps, SocketOps, RequestOps, Admin
  <2>3. m.op = "duplicate" => FirstStep(m) = "nextId"
    BY DEF FirstStep, Creating
  <2>4. k \in TaskState
    BY <2>1, <2>2 DEF TaskState, Message
  <2>5. TaskOK(k)
    BY <2>2, <2>3, <1>1 DEF TaskOK, Receive
  <2>6. task' = [task EXCEPT ![t] = k] /\ UNCHANGED <<log, rows, blob>>
    BY <1>1 DEF Receive
  <2> HIDE DEF k
  <2> QED BY <2>4, <2>5, <2>6, OneTaskChange, TasksChange
<1>2. ASSUME NEW t \in Tasks, NextEntryId(t)
      PROVE  TypeInv'
  <2> DEFINE k == [task[t] EXCEPT !.pc = After(task[t].msg, "nextId"), !.id = NextId]
  <2>1. task[t] \in TaskState /\ TaskOK(task[t]) /\ NextId \in Ids
    BY <1>0, NextIdTyped DEF TypeInv, TypeOK
  <2>2. task[t].pc = "nextId" /\ task[t].msg \in Messages
    BY <1>2, <2>1 DEF NextEntryId, TaskOK
  <2>3. /\ StepOK(task[t].msg, After(task[t].msg, "nextId"))
        /\ After(task[t].msg, "nextId") \in Steps
    BY <2>1, <2>2, StepFollows DEF TaskOK
  <2>4. /\ task[t].msg.op = "duplicate" => After(task[t].msg, "nextId") = "readSource"
        /\ After(task[t].msg, "nextId") # "idle"
    BY <2>1, <2>2 DEF After, DuplicateNext, CreateNext, ImportNext, TaskOK, StepOK, Admin
  <2>5. k \in TaskState
    BY <2>1, <2>3 DEF TaskState
  <2>6. /\ k.pc = After(task[t].msg, "nextId") /\ k.msg = task[t].msg
        /\ k.name = task[t].name /\ k.content = task[t].content
        /\ k.upsert = task[t].upsert
    BY <2>1 DEF TaskState
  <2>7. TaskOK(k)
    BY <2>1, <2>2, <2>3, <2>4, <2>6 DEF TaskOK, InsertSteps
  <2>8. task' = [task EXCEPT ![t] = k] /\ UNCHANGED <<log, rows, blob>>
    BY <1>2 DEF NextEntryId
  <2> HIDE DEF k
  <2> QED BY <2>5, <2>7, <2>8, OneTaskChange, TasksChange
<1>3. ASSUME NEW t \in Tasks, ReadSource(t)
      PROVE  TypeInv'
  <2> DEFINE m == task[t].msg
             source == rows[m.type][m.id]
             n == IF m.name \in {None, Empty} THEN source.name ELSE m.name
             k == [task[t] EXCEPT !.pc = After(m, "readSource"), !.name = n,
                                  !.content = source.content]
  <2>1. task[t] \in TaskState /\ TaskOK(task[t]) /\ task[t].pc = "readSource"
    BY <1>3 DEF TypeInv, TypeOK, ReadSource
  <2>2. m \in Messages /\ m \in Message /\ m.op = "duplicate"
    BY <2>1, WritesTyped DEF Busy, TaskOK, StepOK
  <2>3. After(m, "readSource") = "insertRow"
    BY <2>2 DEF After, DuplicateNext, Admin
  <2>4. source \in Row \cup {None}
    BY <2>2 DEF Message, TypeInv, TypeOK
  <2>5. CASE source # None /\ task' = [task EXCEPT ![t] = k]
    <3>1. source.name \in Names /\ source.content \in Contents
      BY <2>4, <2>5 DEF Row
    <3>2. n \in Names
      BY <2>2, <3>1 DEF Message
    <3>3. k \in TaskState
      BY <2>1, <2>3, <3>1, <3>2 DEF TaskState, Steps, InsertSteps
    <3>4. /\ k.pc = "insertRow" /\ k.msg = m /\ k.name = n
          /\ k.content = source.content /\ k.upsert = task[t].upsert
      BY <2>1, <2>3 DEF TaskState
    <3>5. TaskOK(k)
      BY <2>1, <2>2, <3>1, <3>2, <3>4 DEF TaskOK, StepOK, InsertSteps
    <3> HIDE DEF k
    <3> QED BY <1>3, <2>5, <3>3, <3>5, OneTaskChange, TasksChange DEF ReadSource
  <2>6. CASE Fail(t)
    BY <1>3, <2>1, <2>6, FailOK, TasksChange DEF ReadSource, Busy
  <2> QED BY <1>3, <2>5, <2>6 DEF ReadSource
<1>4. ASSUME NEW t \in Tasks, InsertLog(t)
      PROVE  TypeInv'
  <2>1. log' \subseteq LogRow
    BY <1>4, WritesTyped, AddLogOK DEF InsertLog
  <2>2. task' \in [Tasks -> TaskState] /\ \A u \in Tasks : TaskOK(task'[u])
    BY <1>4, DoneOK DEF InsertLog, Busy
  <2> QED BY <1>4, <2>1, <2>2 DEF InsertLog, TypeInv, TypeOK
<1>5. ASSUME NEW t \in Tasks, InsertRow(t)
      PROVE  TypeInv'
  <2>1. task[t] \in TaskState /\ TaskOK(task[t]) /\ Busy(t)
    BY <1>5 DEF TypeInv, TypeOK, InsertRow, InsertSteps, Busy
  <2>2. task[t].pc \notin {"nextId", "readSource"}
    BY <1>5 DEF InsertRow, InsertSteps
  <2>3. ASSUME Write(t, [name    |-> IF task[t].pc = "recreate" THEN Empty ELSE task[t].name,
                         content |-> Empty]),
               Done(t), UNCHANGED <<log, blob>>
        PROVE  TypeInv'
    <3>1. [name    |-> IF task[t].pc = "recreate" THEN Empty ELSE task[t].name,
           content |-> Empty] \in Row
      BY <1>5, WritesTyped, NoneAssumption DEF InsertRow, InsertSteps, Row
    <3>2. rows' \in [Types -> [Ids -> Row \cup {None}]]
      BY <3>1, <2>3, WriteOK
    <3>3. task' \in [Tasks -> TaskState] /\ \A u \in Tasks : TaskOK(task'[u])
      BY <2>1, <2>2, <2>3, DoneOK
    <3> QED BY <2>3, <3>2, <3>3 DEF TypeInv, TypeOK
  <2>4. CASE Fail(t) /\ UNCHANGED rows
    BY <1>5, <2>1, <2>4, FailOK, TasksChange DEF InsertRow
  <2>5. CASE /\ task[t].msg.type \in Upserting
             /\ task' = [task EXCEPT ![t].upsert = "update"] /\ UNCHANGED rows
    BY <1>5, <2>5, UpsertOK, TasksChange DEF InsertRow
  <2> QED BY <1>5, <2>3, <2>4, <2>5 DEF InsertRow
<1>6. ASSUME NEW t \in Tasks, UpsertStyle(t)
      PROVE  TypeInv'
  <2>1. /\ task[t] \in TaskState /\ TaskOK(task[t])
        /\ task[t].pc \in InsertSteps /\ task[t].msg.type \in Upserting
    BY <1>6 DEF TypeInv, TypeOK, UpsertStyle, TaskOK
  <2> DEFINE r == [Backing(t) EXCEPT
                     !.name = IF task[t].pc = "recreate" THEN Empty ELSE task[t].name]
  <2>2. Backing(t) # None => r \in Row
    BY <2>1, WritesTyped, NoneAssumption DEF InsertSteps, Row
  <2>3. rows' \in [Types -> [Ids -> Row \cup {None}]]
    BY <1>6, <2>2, WriteOK DEF UpsertStyle, TypeInv, TypeOK
  <2> QED BY <1>6, <2>1, <2>3, UpsertOK DEF UpsertStyle, TypeInv, TypeOK
<1>7. ASSUME NEW t \in Tasks, FetchStyle(t)
      PROVE  TypeInv'
  <2>1. task[t].pc \in InsertSteps
    BY <1>7 DEF TypeInv, TypeOK, FetchStyle, TaskOK
  <2> QED BY <1>7, <2>1, DoneOK, FailOK, TasksChange DEF FetchStyle, InsertSteps, Busy
<1>8. ASSUME NEW t \in Tasks, CopyText(t) \/ Rename(t) \/ SetText(t) \/ DeleteRow(t)
      PROVE  TypeInv'
  <2>1. /\ Busy(t) /\ task[t].pc \notin {"nextId", "readSource"}
        /\ TaskOK(task[t])
    BY <1>8 DEF CopyText, Rename, SetText, DeleteRow, Busy, TypeInv
  <2>2. rows' \in [Types -> [Ids -> Row \cup {None}]]
    <3>1. CASE CopyText(t)
      <4>1. Backing(t) # None => [Backing(t) EXCEPT !.content = task[t].content] \in Row
        BY <3>1, WritesTyped DEF CopyText, Row
      <4> QED BY <3>1, <4>1, WriteOK DEF CopyText, TypeInv, TypeOK
    <3>2. CASE Rename(t)
      <4>1. Backing(t) # None => [Backing(t) EXCEPT !.name = task[t].name] \in Row
        BY <3>2, WritesTyped DEF Rename, Row
      <4> QED BY <3>2, <4>1, WriteOK DEF Rename, TypeInv, TypeOK
    <3>3. CASE SetText(t)
      <4>1. Backing(t) # None => [Backing(t) EXCEPT !.content = task[t].content] \in Row
        BY <3>3, WritesTyped DEF SetText, Row
      <4> QED BY <3>3, <4>1, WriteOK DEF SetText, TypeInv, TypeOK
    <3>4. CASE DeleteRow(t)
      BY <3>4, WriteOK DEF DeleteRow
    <3> QED BY <1>8, <3>1, <3>2, <3>3, <3>4
  <2>3. task' \in [Tasks -> TaskState] /\ \A u \in Tasks : TaskOK(task'[u])
    <3>1. CASE Done(t)
      BY <2>1, <3>1, DoneOK
    <3>2. CASE Rename(t) /\ Goto(t, "createNamed")
      <4>1. task[t].pc = "rename"
        BY <3>2 DEF Rename
      <4>2. StepOK(task[t].msg, "createNamed")
        BY <2>1, <4>1 DEF TaskOK, StepOK
      <4> QED BY <2>1, <3>2, <4>2, GotoOK DEF Steps, InsertSteps
    <3>3. CASE SetText(t) /\ Goto(t, "recreate") /\ task[t].pc = "setText"
      <4>2. StepOK(task[t].msg, "recreate")
        BY <2>1, <3>3 DEF TaskOK, StepOK
      <4> QED BY <2>1, <3>3, <4>2, GotoOK DEF Steps, InsertSteps
    <3> QED BY <1>8, <3>1, <3>2, <3>3 DEF CopyText, Rename, SetText, DeleteRow
  <2> QED BY <1>8, <2>2, <2>3 DEF CopyText, Rename, SetText, DeleteRow, TypeInv, TypeOK
<1>9. ASSUME NEW t \in Tasks, TouchLog(t) \/ DeleteLog(t) \/ SetBlob(t) \/ AdminLog(t)
      PROVE  TypeInv'
  <2>1. /\ Busy(t) /\ task[t].pc \notin {"nextId", "readSource"}
        /\ TaskOK(task[t]) /\ Done(t) /\ UNCHANGED rows
    BY <1>9 DEF TouchLog, DeleteLog, SetBlob, AdminLog, Busy, TypeInv
  <2>2. task' \in [Tasks -> TaskState] /\ \A u \in Tasks : TaskOK(task'[u])
    BY <2>1, DoneOK
  <2>3. task[t].msg \in Messages /\ task[t].msg \in Message /\ StepOK(task[t].msg, task[t].pc)
    BY <2>1, WritesTyped DEF TaskOK
  <2>4. log' \subseteq LogRow /\ blob' \in Blobs \cup {None}
    <3>1. CASE TouchLog(t)
      <4>1. task[t].msg.ts \in Times
        BY <2>3, <3>1 DEF TouchLog, StepOK, Message, Admin
      <4>2. \A l \in log : [l EXCEPT !.ts = task[t].msg.ts] \in LogRow
        BY <1>0, <4>1 DEF LogRow
      <4> QED BY <1>0, <3>1, <4>2 DEF TouchLog
    <3>2. CASE DeleteLog(t)
      BY <1>0, <3>2 DEF DeleteLog
    <3>3. CASE SetBlob(t)
      BY <1>0, <2>3, <3>3 DEF SetBlob, Message
    <3>4. CASE AdminLog(t)
      <4> DEFINE m == task[t].msg
      <4>1. m.type \in Types /\ m.id \in Ids
        BY <2>3 DEF Message
      <4>2. m.op \in {"adminCreate", "adminUpdate"} => m.ts \in Times
        BY <2>3, MessagesAssumption DEF Message
      <4>3. CASE m.op = "adminCreate" /\ AddLog(m.type, m.id, m.ts)
        BY <3>4, <1>0, <4>1, <4>2, <4>3, AddLogOK DEF AdminLog
      <4>4. ASSUME m.op = "adminUpdate", NEW l \in log,
                   log' = (log \ {l}) \cup
                            {[l EXCEPT !.type = m.type, !.id = m.id, !.ts = m.ts]}
            PROVE  log' \subseteq LogRow
        <5>1. [l EXCEPT !.type = m.type, !.id = m.id, !.ts = m.ts] \in LogRow
          BY <1>0, <4>1, <4>2, <4>4 DEF LogRow
        <5> QED BY <1>0, <4>4, <5>1
      <4>5. ASSUME NEW l \in log, log' = log \ {l}
            PROVE  log' \subseteq LogRow
        BY <1>0, <4>5
      <4> QED BY <3>4, <1>0, <4>3, <4>4, <4>5 DEF AdminLog
    <3> QED BY <1>9, <3>1, <3>2, <3>3, <3>4
  <2> QED BY <2>1, <2>2, <2>4 DEF TypeInv, TypeOK
<1>10. ASSUME NEW t \in Tasks, Invalidate(t) \/ Reply(t)
       PROVE  TypeInv'
  BY <1>10, DoneOK, TasksChange DEF Invalidate, Reply, Busy
<1>11. ASSUME NEW t \in Tasks, StatementFails(t)
       PROVE  TypeInv'
  <2>2. CASE Fail(t)
    BY <1>11, <2>2, FailOK, TasksChange DEF StatementFails
  <2>3. CASE /\ task' = [task EXCEPT ![t].upsert = "update"]
             /\ task[t].pc \in InsertSteps /\ task[t].msg.type \in Upserting
    BY <1>11, <2>3, UpsertOK, TasksChange DEF StatementFails
  <2> QED BY <1>11, <2>2, <2>3 DEF StatementFails
<1>12. ASSUME NEW r \in Requests, HangUp(r)
       PROVE  TypeInv'
  <2>1. task' = [task EXCEPT ![r] = Idle] /\ r \in Tasks
    BY <1>12 DEF HangUp, Goto, Tasks
  <2> QED BY <1>12, <2>1, IdleOK, OneTaskChange, TasksChange DEF HangUp
<1>13. ASSUME Crash
       PROVE  TypeInv'
  BY <1>13, IdleOK, TasksChange DEF Crash
<1>14. ASSUME UNCHANGED vars
       PROVE  TypeInv'
  BY <1>14 DEF vars, TypeInv, TypeOK
<1> QED
  BY <1>1, <1>2, <1>3, <1>4, <1>5, <1>6, <1>7, <1>8, <1>9, <1>10, <1>11,
     <1>12, <1>13, <1>14 DEF Next, Statement

LEMMA TypeInit == Init => TypeInv
BY IdleOK DEF Init, TypeInv, TypeOK

LEMMA Typing == Spec => []TypeInv
BY TypeInit, TypeStep, PTL DEF Spec

\* In every run of the handlers the variables keep to the schema's and the
\* Rust types: no statement binds an absent option, and ids stay within i32.
THEOREM TypeCorrect == Spec => []TypeOK
<1>1. TypeInv => TypeOK
  BY DEF TypeInv
<1> QED BY <1>1, Typing, PTL

-----------------------------------------------------------------------------
(* The handlers that make new entries: create, duplicate and import.  They   *)
(* read the next entry id without reserving it, so two of them may hold the  *)
(* same one; what follows says what holds all the same, for any number of    *)
(* them.  The last theorem lets clients update and delete entries too.       *)

-----------------------------------------------------------------------------
(* Where a step takes the task that makes it. *)

LEMMA GotoMoves ==
  ASSUME TypeInv, NEW t \in Tasks, NEW s, Goto(t, s)
  PROVE  /\ \A u \in Tasks : u # t => task'[u] = task[u]
         /\ task'[t].pc = s
         /\ s = "idle" => task'[t] = Idle
         /\ s # "idle" =>
              /\ task'[t].msg = task[t].msg /\ task'[t].id = task[t].id
              /\ task'[t].name = task[t].name
              /\ task'[t].content = task[t].content
<1> DEFINE k == IF s = "idle" THEN Idle
                ELSE [task[t] EXCEPT !.pc = s, !.upsert = "insert"]
<1>1. task \in [Tasks -> TaskState] /\ task[t] \in TaskState
  BY DEF TypeInv, TypeOK
<1>2. task' = [task EXCEPT ![t] = k]
  BY DEF Goto
<1>3. /\ k.pc = s
      /\ s = "idle" => k = Idle
      /\ s # "idle" => /\ k.msg = task[t].msg /\ k.id = task[t].id
                       /\ k.name = task[t].name /\ k.content = task[t].content
  BY <1>1 DEF TaskState, Idle
<1> HIDE DEF k
<1> QED BY <1>1, <1>2, <1>3

\* A handler has inserted its row from the step after the insert to its end.
LEMMA HoldingFollows ==
  ASSUME NEW m \in Messages, NEW s, StepOK(m, s), s # "idle"
  PROVE  /\ Holding(m, OnError(m, s)) => Holding(m, s)
         /\ s # "insertRow" /\ Holding(m, After(m, s)) => Holding(m, s)
<1> USE DEF StepOK, Holding, Admin
<1>1. CASE m.op = "create"
  BY <1>1 DEF After, OnError, Tolerated, CreateNext
<1>2. CASE m.op = "duplicate"
  BY <1>2 DEF After, OnError, Tolerated, DuplicateNext
<1>3. CASE m.op = "import"
  BY <1>3 DEF After, OnError, Tolerated, ImportNext
<1> QED BY <1>1, <1>2, <1>3

\* A task gets the row of its new entry by its INSERT, or finds one after
\* the UPDATE of create_style.
Gets(t) ==
  \/ InsertRow(t) /\ Backing(t) = None
  \/ FetchStyle(t) /\ Backing(t) # None /\ task[t].msg.type \in Upserting

\* Who holds a new entry after a step held it before or has just got its
\* row; and it is still at work on the same entry.
Keeps(t) ==
  /\ task'[t].msg = task[t].msg /\ task'[t].id = task[t].id
  /\ Holds(t) \/ (task[t].pc = "insertRow" /\ Gets(t))

LEMMA DoneKeeps ==
  ASSUME TypeInv, NEW t \in Tasks, Busy(t), Holds(t)',
         \/ Done(t) /\ (task[t].pc # "insertRow" \/ Gets(t))
         \/ Fail(t)
  PROVE  Keeps(t)
<1>1. task[t].msg \in Messages /\ StepOK(task[t].msg, task[t].pc)
  BY DEF TypeInv, TaskOK, Busy
<1>2. Holding(task'[t].msg, task'[t].pc)
  BY DEF Holds
<1>3. ~ Holding(Idle.msg, Idle.pc)
  BY DEF Holding, Idle, NoMessage
<1>4. ASSUME NEW s, Goto(t, s)
      PROVE  /\ task'[t].msg = task[t].msg /\ task'[t].id = task[t].id
             /\ Holding(task[t].msg, s)
  BY <1>2, <1>3, <1>4, GotoMoves
<1>5. CASE Fail(t)
  BY <1>1, <1>4, <1>5, HoldingFollows DEF Fail, Keeps, Holds, Busy
<1>6. CASE Done(t)
  <2>1. /\ task'[t].msg = task[t].msg /\ task'[t].id = task[t].id
        /\ Holding(task[t].msg, After(task[t].msg, task[t].pc))
    BY <1>4, <1>6 DEF Done
  <2>2. task[t].pc # "insertRow" => Holds(t)
    BY <1>1, <2>1, HoldingFollows DEF Holds, Busy
  <2>3. CASE Fail(t)
    BY <1>5, <2>3
  <2>4. CASE ~Fail(t)
    BY <2>1, <2>2, <2>4 DEF Keeps
  <2> QED BY <2>3, <2>4
<1> QED BY <1>5, <1>6

\* Every task but one stays as it is in every step but a crash.
MovesAlone(t) == \A u \in Tasks : u # t => task'[u] = task[u]

LEMMA TaskKeeps ==
  ASSUME TypeInv, NEW t \in Tasks,
         \/ \E m \in Messages : Receive(t, m)
         \/ Statement(t) \/ Invalidate(t) \/ Reply(t) \/ StatementFails(t)
         \/ t \in Requests /\ HangUp(t)
  PROVE  MovesAlone(t) /\ (Holds(t)' => Keeps(t))
<1> USE DEF MovesAlone
<1>0. task \in [Tasks -> TaskState] /\ task[t] \in TaskState /\ TaskOK(task[t])
  BY DEF TypeInv, TypeOK
<1>1. ASSUME \/ task' = [task EXCEPT ![t].upsert = "update"]
             \/ task' = [task EXCEPT ![t].upsert = "fetch"]
      PROVE  MovesAlone(t) /\ (Holds(t)' => Keeps(t))
  BY <1>0, <1>1 DEF TaskState, Keeps, Holds
<1>2. CASE \E m \in Messages : Receive(t, m)
  <2>1. PICK m \in Messages : Receive(t, m)
    BY <1>2
  <2>2. task'[t].msg = m /\ task'[t].pc = FirstStep(m) /\ MovesAlone(t)
    BY <1>0, <2>1 DEF Receive
  <2>3. ~ Holding(m, FirstStep(m))
    BY DEF Holding, FirstStep, Creating
  <2> QED BY <2>2, <2>3 DEF Holds
<1>3. CASE NextEntryId(t)
  <2>1. /\ task'[t].msg = task[t].msg
        /\ task'[t].pc = After(task[t].msg, "nextId") /\ MovesAlone(t)
    BY <1>0, <1>3 DEF NextEntryId, TaskState
  <2>2. task[t].msg \in Messages /\ task[t].msg.op \in Creating
    BY <1>0, <1>3 DEF NextEntryId, TaskOK, StepOK, Creating
  <2>3. ~ Holding(task[t].msg, After(task[t].msg, "nextId"))
    BY <2>2 DEF Holding, After, Creating, CreateNext, DuplicateNext, ImportNext, Admin
  <2> QED BY <2>1, <2>3 DEF Holds
<1>4. CASE ReadSource(t)
  <2>1. task[t].pc = "readSource" /\ task[t].msg.op = "duplicate" /\ Busy(t)
    BY <1>0, <1>4 DEF ReadSource, TaskOK, StepOK, Busy
  <2>2. CASE Fail(t)
    BY <2>1, <2>2, DoneKeeps, GotoMoves DEF Fail
  <2>3. CASE ~Fail(t)
    <3>1. /\ task'[t].msg = task[t].msg /\ MovesAlone(t)
          /\ task'[t].pc = After(task[t].msg, "readSource")
      BY <1>0, <1>4, <2>3 DEF ReadSource, TaskState
    <3>2. ~ Holding(task[t].msg, After(task[t].msg, "readSource"))
      BY <2>1 DEF Holding, After, DuplicateNext, Admin
    <3> QED BY <3>1, <3>2 DEF Holds
  <2> QED BY <2>2, <2>3
<1>5. CASE InsertRow(t)
  <2>1. Busy(t)
    BY <1>5 DEF InsertRow, InsertSteps, Busy
  <2>2. CASE Fail(t) \/ (Done(t) /\ Backing(t) = None)
    <3>1. MovesAlone(t)
      BY <2>2, GotoMoves DEF Done, Fail
    <3>2. Fail(t) \/ (Done(t) /\ Gets(t))
      BY <1>5, <2>2 DEF Gets
    <3> QED BY <2>1, <3>1, <3>2, DoneKeeps
  <2>3. CASE task' = [task EXCEPT ![t].upsert = "update"]
    BY <1>0, <1>1, <2>3
  <2> QED BY <1>5, <2>2, <2>3 DEF InsertRow
<1>6. CASE UpsertStyle(t)
  BY <1>0, <1>1, <1>6 DEF UpsertStyle
<1>7. CASE FetchStyle(t)
  <2>1. Busy(t) /\ task[t].msg.type \in Upserting
    BY <1>0, <1>7 DEF FetchStyle, TaskOK, InsertSteps, Busy
  <2>2. Fail(t) \/ (Done(t) /\ Gets(t))
    BY <1>7, <2>1 DEF FetchStyle, Gets
  <2> QED BY <2>1, <2>2, DoneKeeps, GotoMoves DEF Done, Fail
<1>8. CASE Rename(t) \/ SetText(t)
  <2>1. Busy(t) /\ task[t].pc \in {"rename", "setText", "rewrite"}
    BY <1>8 DEF Rename, SetText, Busy
  <2>2. CASE Done(t)
    BY <2>1, <2>2, DoneKeeps, GotoMoves DEF Done
  <2>3. CASE Rename(t) /\ Goto(t, "createNamed")
    BY <2>3, GotoMoves DEF Holds, Holding
  <2>4. CASE SetText(t) /\ task[t].pc = "setText" /\ Goto(t, "recreate")
    BY <2>4, GotoMoves DEF Holds, Holding, Keeps
  <2> QED BY <1>8, <2>2, <2>3, <2>4 DEF Rename, SetText
<1>9. CASE \/ InsertLog(t) \/ CopyText(t) \/ TouchLog(t) \/ DeleteRow(t)
           \/ DeleteLog(t) \/ SetBlob(t) \/ AdminLog(t) \/ Invalidate(t) \/ Reply(t)
  <2>1. Busy(t) /\ Done(t) /\ task[t].pc # "insertRow"
    BY <1>9 DEF InsertLog, CopyText, TouchLog, DeleteRow, DeleteLog, SetBlob,
                AdminLog, Invalidate, Reply, Busy
  <2> QED BY <2>1, DoneKeeps, GotoMoves DEF Done
<1>10. CASE StatementFails(t)
  <2>1. Busy(t)
    BY <1>10 DEF StatementFails
  <2>2. CASE Fail(t)
    BY <2>1, <2>2, DoneKeeps, GotoMoves DEF Fail
  <2>3. CASE task' = [task EXCEPT ![t].upsert = "update"]
    BY <1>0, <1>1, <2>3
  <2> QED BY <1>10, <2>2, <2>3 DEF StatementFails
<1>11. CASE t \in Requests /\ HangUp(t)
  BY <1>11, GotoMoves DEF HangUp, Holds, Holding, Idle, NoMessage
<1> QED
  BY <1>2, <1>3, <1>4, <1>5, <1>6, <1>7, <1>8, <1>9, <1>10, <1>11 DEF Statement

-----------------------------------------------------------------------------
(* Without deletes, a row belongs to the handler that inserted it. *)

NeverDeletes == \A m \in Messages : m.op # "delete"

\* What a step writes to the task's row is a row.
LEMMA WritesRows ==
  ASSUME TypeInv, NEW t \in Tasks, NEW r, Write(t, r), r # None,
         NEW ty \in Types, NEW i \in Ids
  PROVE  /\ rows[ty][i] # None => rows'[ty][i] # None
         /\ <<ty, i>> # <<task[t].msg.type, task[t].id>> => rows'[ty][i] = rows[ty][i]
         /\ rows'[task[t].msg.type][task[t].id] = r
<1>1. /\ rows \in [Types -> [Ids -> Row \cup {None}]]
      /\ task[t].msg.type \in Types /\ task[t].id \in Ids
  BY WritesTyped DEF TypeInv, TypeOK
<1>2. rows' = [rows EXCEPT ![task[t].msg.type][task[t].id] = r]
  BY DEF Write
<1> QED BY <1>1, <1>2

\* A step that writes a row writes a row, the task's own.
LEMMA StatementWrites ==
  ASSUME TypeInv, NEW t \in Tasks, Statement(t), task[t].pc # "deleteRow"
  PROVE  \/ UNCHANGED rows
         \/ \E r \in Row : Write(t, r)
<1>1. /\ Backing(t) \in Row \cup {None}
      /\ task[t].pc \in {"insertRow", "createNamed", "rename"} => task[t].name \in Names
      /\ task[t].pc \in {"copyText", "setText", "rewrite"} => task[t].content \in Contents
  BY WritesTyped
<1>2. CASE InsertRow(t)
  <2>1. [name    |-> IF task[t].pc = "recreate" THEN Empty ELSE task[t].name,
         content |-> Empty] \in Row
    BY <1>1, <1>2, NoneAssumption DEF InsertRow, InsertSteps, Row
  <2> QED BY <1>2, <2>1 DEF InsertRow
<1>3. CASE UpsertStyle(t)
  <2>1. task[t].pc \in InsertSteps
    BY <1>3 DEF UpsertStyle, TypeInv, TaskOK
  <2>2. Backing(t) # None =>
          [Backing(t) EXCEPT !.name = IF task[t].pc = "recreate" THEN Empty
                                      ELSE task[t].name] \in Row
    BY <1>1, <2>1, NoneAssumption DEF InsertSteps, Row
  <2> QED BY <1>3, <2>2 DEF UpsertStyle
<1>4. CASE CopyText(t)
  <2>1. Backing(t) # None => [Backing(t) EXCEPT !.content = task[t].content] \in Row
    BY <1>1, <1>4 DEF CopyText, Row
  <2> QED BY <1>4, <2>1 DEF CopyText
<1>5. CASE Rename(t)
  <2>1. Backing(t) # None => [Backing(t) EXCEPT !.name = task[t].name] \in Row
    BY <1>1, <1>5 DEF Rename, Row
  <2> QED BY <1>5, <2>1 DEF Rename
<1>6. CASE SetText(t)
  <2>1. Backing(t) # None => [Backing(t) EXCEPT !.content = task[t].content] \in Row
    BY <1>1, <1>6 DEF SetText, Row
  <2> QED BY <1>6, <2>1 DEF SetText
<1>7. CASE \/ NextEntryId(t) \/ ReadSource(t) \/ InsertLog(t) \/ FetchStyle(t)
           \/ TouchLog(t) \/ DeleteLog(t) \/ SetBlob(t) \/ AdminLog(t)
  BY <1>7 DEF NextEntryId, ReadSource, InsertLog, FetchStyle, TouchLog, DeleteLog,
              SetBlob, AdminLog
<1> QED BY <1>2, <1>3, <1>4, <1>5, <1>6, <1>7 DEF Statement, DeleteRow

OwnerInv ==
  /\ TypeInv
  /\ \A t \in Tasks : Holds(t) => Backing(t) # None
  /\ UniqueOwner

LEMMA OwnerStep ==
  ASSUME NeverDeletes, OwnerInv, [Next]_vars
  PROVE  OwnerInv'
<1>1. TypeInv /\ TypeInv'
  BY TypeStep DEF OwnerInv
<1>2. None \notin Row
  BY NoneAssumption
<1>3. \A t \in Tasks : task[t].pc # "deleteRow"
  BY <1>1 DEF NeverDeletes, TypeInv, TaskOK, StepOK
<1>4. ASSUME NEW a \in Tasks,
             \/ \E m \in Messages : Receive(a, m)
             \/ Statement(a) \/ Invalidate(a) \/ Reply(a) \/ StatementFails(a)
             \/ a \in Requests /\ HangUp(a)
      PROVE  OwnerInv'
  <2>1. MovesAlone(a) /\ (Holds(a)' => Keeps(a))
    BY <1>1, <1>4, TaskKeeps
  <2>2. UNCHANGED rows \/ \E r \in Row : Write(a, r)
    BY <1>1, <1>3, <1>4, StatementWrites
       DEF Receive, Invalidate, Reply, StatementFails, HangUp
  <2>3. \A ty \in Types, i \in Ids : rows[ty][i] # None => rows'[ty][i] # None
    BY <1>1, <1>2, <2>2, WritesRows
  <2>4. \A t \in Tasks : task[t].msg.type \in Types /\ task[t].id \in Ids
    BY <1>1, WritesTyped
  <2>5. ASSUME NEW t \in Tasks, Holds(t)'
        PROVE  /\ task'[t].msg = task[t].msg /\ task'[t].id = task[t].id
               /\ Backing(t)' # None
               /\ \/ Holds(t)
                  \/ t = a /\ Backing(t) = None
                  \/ task[t].msg.type \in Upserting
    <3>1. CASE t # a
      <4>1. task'[t] = task[t]
        BY <2>1, <3>1 DEF MovesAlone
      <4>2. Holds(t) /\ Backing(t) # None
        BY <2>5, <4>1 DEF Holds, OwnerInv
      <4> QED BY <2>3, <2>4, <4>1, <4>2 DEF Backing
    <3>2. CASE t = a
      <4>1. Keeps(t)
        BY <2>1, <2>5, <3>2
      <4>2. CASE Holds(t)
        <5>1. Backing(t) # None
          BY <2>5, <4>1, <4>2 DEF Keeps, OwnerInv
        <5> QED BY <2>3, <2>4, <4>1, <4>2, <5>1 DEF Backing, Keeps
      <4>3. CASE InsertRow(t) /\ Backing(t) = None /\ task[t].pc = "insertRow"
        <5> DEFINE r == [name |-> IF task[t].pc = "recreate" THEN Empty ELSE task[t].name,
                         content |-> Empty]
        <5>1. Write(t, r) /\ task[t].name \in Names
          BY <1>1, <4>3, WritesTyped DEF InsertRow
        <5>2. r \in Row /\ r # None
          BY <1>2, <4>3, <5>1, NoneAssumption DEF Row
        <5> HIDE DEF r
        <5>3. rows'[task[t].msg.type][task[t].id] = r
          BY <1>1, <2>4, <5>1, <5>2, WritesRows
        <5> QED BY <3>2, <4>1, <4>3, <5>2, <5>3 DEF Backing, Keeps
      <4>4. CASE FetchStyle(t) /\ Backing(t) # None /\ task[t].msg.type \in Upserting
        BY <2>3, <2>4, <4>1, <4>4 DEF Backing, Keeps
      <4> QED BY <4>1, <4>2, <4>3, <4>4 DEF Keeps, Gets
    <3> QED BY <3>1, <3>2
  <2>6. UniqueOwner'
    <3> SUFFICES ASSUME NEW t \in Tasks, NEW u \in Tasks, t # u,
                        Holds(t)', Holds(u)',
                        task'[t].msg.type = task'[u].msg.type,
                        task'[t].msg.type # "Style", task'[t].id = task'[u].id
                 PROVE  FALSE
      BY DEF UniqueOwner
    <3>1. task'[t].msg.type \notin Upserting /\ task'[u].msg.type \notin Upserting
      BY DEF Upserting
    <3>2. /\ task[t].msg.type = task[u].msg.type /\ task[t].msg.type # "Style"
          /\ task[t].id = task[u].id /\ Backing(t) = Backing(u)
      BY <2>5, <3>1 DEF Backing
    <3>3. Holds(t) => Backing(t) # None
      BY <2>5, <3>1 DEF OwnerInv
    <3>4. Holds(u) => Backing(u) # None
      BY <2>5, <3>1 DEF OwnerInv
    <3>5. CASE Holds(t) /\ Holds(u)
      BY <3>2, <3>5 DEF OwnerInv, UniqueOwner
    <3>6. CASE ~Holds(t)
      BY <2>5, <3>1, <3>2, <3>4, <3>6
    <3>7. CASE ~Holds(u)
      BY <2>5, <3>1, <3>2, <3>3, <3>7
    <3> QED BY <3>5, <3>6, <3>7
  <2> QED BY <1>1, <2>5, <2>6 DEF OwnerInv
<1>5. CASE Crash
  BY <1>1, <1>5 DEF Crash, OwnerInv, UniqueOwner, Holds, Holding, Idle, NoMessage
<1>6. CASE UNCHANGED vars
  BY <1>1, <1>6 DEF vars, OwnerInv, UniqueOwner, Holds, Backing
<1> QED
  <2>1. CASE Next
    BY <2>1, <1>4, <1>5 DEF Next, Tasks
  <2> QED BY <2>1, <1>6

LEMMA OwnerInit == Init => OwnerInv
BY TypeInit DEF Init, OwnerInv, UniqueOwner, Holds, Holding, Idle, NoMessage

\* Where no client deletes, no two handlers ever fill the same row of scripts
\* or configs, whatever fails and whoever hangs up or crashes meanwhile.
THEOREM OwnersUnique == ASSUME NeverDeletes PROVE Spec => []UniqueOwner
<1>1. OwnerInv => UniqueOwner
  BY DEF OwnerInv
<1> QED BY <1>1, OwnerInit, OwnerStep, PTL DEF Spec

-----------------------------------------------------------------------------
(* Where clients only create, duplicate and import, the log only grows and *)
(* each new entry is accounted for.                                        *)

OnlyCreates == \A m \in Messages : m.op \in Creating

\* The steps these handlers take.
LEMMA CreatorSteps ==
  ASSUME OnlyCreates, TypeInv, NEW t \in Tasks, Busy(t)
  PROVE  /\ task[t].msg \in Messages /\ task[t].msg.op \in Creating
         /\ StepOK(task[t].msg, task[t].pc)
         /\ task[t].pc \in {"nextId", "readSource", "insertLog", "insertRow", "copyText",
                            "setText", "recreate", "rewrite", "invalidate", "reply"}
BY DEF OnlyCreates, TypeInv, TaskOK, StepOK, Creating, Busy, Admin

LEMMA CreatorActions ==
  ASSUME OnlyCreates, TypeInv, NEW t \in Tasks, Statement(t)
  PROVE  /\ \/ NextEntryId(t) \/ ReadSource(t) \/ InsertLog(t) \/ InsertRow(t)
            \/ UpsertStyle(t) \/ FetchStyle(t) \/ CopyText(t) \/ SetText(t)
         /\ Busy(t)
<1>1. task[t].upsert # "insert" => Busy(t)
  BY DEF TypeInv, TaskOK, InsertSteps, Busy
<1>2. Busy(t)
  BY <1>1 DEF Statement, NextEntryId, ReadSource, InsertLog, InsertRow, UpsertStyle,
              FetchStyle, CopyText, TouchLog, Rename, SetText, DeleteRow, DeleteLog,
              SetBlob, AdminLog, InsertSteps, Busy
<1> QED BY <1>2, CreatorSteps
        DEF Statement, TouchLog, Rename, DeleteRow, DeleteLog, SetBlob, AdminLog

\* A handler of message m that has come to step s has made its log row.
Logging(m, s) ==
  \/ /\ m.op = "create"
     /\ s \in {"insertRow", "setText", "recreate", "rewrite", "invalidate", "reply"}
  \/ m.op = "duplicate" /\ s = "reply"
  \/ m.op = "import" /\ s \in {"invalidate", "reply"}

HasLogged(t) == Logging(task[t].msg, task[t].pc)

\* It has inserted its backing row, and its log row is yet to come.
OwesLog(m, s) ==
  \/ m.op = "duplicate" /\ s \in {"copyText", "invalidate", "insertLog"}
  \/ m.op = "import" /\ s \in {"copyText", "insertLog"}

Owes(t) == OwesLog(task[t].msg, task[t].pc)

LEMMA LoggingFollows ==
  ASSUME NEW m \in Messages, m.op \in Creating, NEW s, StepOK(m, s), s # "idle"
  PROVE  /\ Logging(m, After(m, s)) => Logging(m, s) \/ s = "insertLog"
         /\ Logging(m, OnError(m, s)) => Logging(m, s)
         /\ OwesLog(m, s) /\ s # "insertLog" => OwesLog(m, After(m, s))
         /\ s = "insertRow" => Logging(m, s) \/ OwesLog(m, After(m, s))
<1> USE DEF StepOK, Creating, Admin, Logging, OwesLog
<1>1. CASE m.op = "create"
  BY <1>1 DEF After, OnError, Tolerated, CreateNext
<1>2. CASE m.op = "duplicate"
  BY <1>2 DEF After, OnError, Tolerated, DuplicateNext
<1>3. CASE m.op = "import"
  BY <1>3 DEF After, OnError, Tolerated, ImportNext
<1> QED BY <1>1, <1>2, <1>3

\* What a step of task a, not a crash, may be.
StepBy(a) ==
  \/ \E m \in Messages : Receive(a, m)
  \/ Statement(a) \/ Invalidate(a) \/ Reply(a) \/ StatementFails(a)
  \/ a \in Requests /\ HangUp(a)

LEMMA NextIsStep == Next => Crash \/ \E a \in Tasks : StepBy(a)
BY DEF Next, StepBy, Tasks

\* How a creator's step moves its task.
LEMMA CreatorMoves ==
  ASSUME OnlyCreates, TypeInv, NEW a \in Tasks, StepBy(a)
  PROVE  /\ MovesAlone(a)
         /\ \/ task'[a].pc \in {"idle", "nextId"}
            \/ /\ task'[a].msg = task[a].msg /\ Busy(a)
               /\ task[a].pc # "nextId" => task'[a].id = task[a].id
               /\ \/ task'[a].pc = After(task[a].msg, task[a].pc)
                  \/ task'[a].pc = OnError(task[a].msg, task[a].pc)
                  \/ task'[a].pc = task[a].pc /\ task[a].msg.type \in Upserting
                     /\ ~InsertLog(a)
                  \/ task[a].pc = "setText" /\ task'[a].pc = "recreate"
<1> DEFINE Result ==
      \/ task'[a].pc \in {"idle", "nextId"}
      \/ /\ task'[a].msg = task[a].msg /\ Busy(a)
         /\ task[a].pc # "nextId" => task'[a].id = task[a].id
         /\ \/ task'[a].pc = After(task[a].msg, task[a].pc)
            \/ task'[a].pc = OnError(task[a].msg, task[a].pc)
            \/ task'[a].pc = task[a].pc /\ task[a].msg.type \in Upserting
               /\ ~InsertLog(a)
            \/ task[a].pc = "setText" /\ task'[a].pc = "recreate"
<1>0. task \in [Tasks -> TaskState] /\ task[a] \in TaskState /\ TaskOK(task[a])
  BY DEF TypeInv, TypeOK
<1>1. MovesAlone(a)
  BY TaskKeeps DEF StepBy
<1> SUFFICES Result
  BY <1>1
<1>2. ASSUME Done(a) \/ Fail(a), Busy(a)
      PROVE  Result
  BY <1>2, GotoMoves DEF Done, Fail
<1>3. ASSUME task' = [task EXCEPT ![a].upsert = "update"] \/
             task' = [task EXCEPT ![a].upsert = "fetch"],
             task[a].pc \in InsertSteps, task[a].msg.type \in Upserting
      PROVE  Result
  BY <1>0, <1>3 DEF TaskState, InsertSteps, Busy, InsertLog
<1>4. CASE \E m \in Messages : Receive(a, m)
  <2>1. PICK m \in Messages : Receive(a, m)
    BY <1>4
  <2>2. task'[a].pc = FirstStep(m)
    BY <1>0, <2>1 DEF Receive
  <2>3. m.op \in Creating
    BY DEF OnlyCreates
  <2>4. FirstStep(m) = "nextId"
    BY <2>3 DEF FirstStep, Creating
  <2> QED BY <2>2, <2>4
<1>5. CASE Statement(a)
  <2>1. Busy(a)
    BY <1>5, CreatorActions
  <2>2. CASE NextEntryId(a)
    BY <1>0, <2>1, <2>2 DEF NextEntryId, TaskState
  <2>3. CASE ReadSource(a)
    <3>1. CASE Fail(a)
      BY <1>2, <2>1, <3>1
    <3>2. CASE ~Fail(a)
      <4>1. /\ task'[a].pc = After(task[a].msg, "readSource")
            /\ task'[a].msg = task[a].msg /\ task'[a].id = task[a].id
            /\ task[a].pc = "readSource"
        BY <1>0, <2>3, <3>2 DEF ReadSource, TaskState
      <4> QED BY <2>1, <4>1
    <3> QED BY <3>1, <3>2
  <2>4. CASE InsertLog(a) \/ CopyText(a) \/ FetchStyle(a)
    BY <1>2, <2>1, <2>4 DEF InsertLog, CopyText, FetchStyle
  <2>5. CASE InsertRow(a)
    BY <1>2, <1>3, <2>1, <2>5 DEF InsertRow
  <2>6. CASE UpsertStyle(a)
    BY <1>0, <1>3, <2>6 DEF UpsertStyle, TaskOK
  <2>7. CASE SetText(a)
    <3>1. CASE Done(a)
      BY <1>2, <2>1, <3>1
    <3>2. CASE Goto(a, "recreate") /\ task[a].pc = "setText"
      BY <2>1, <3>2, GotoMoves
    <3> QED BY <2>7, <3>1, <3>2 DEF SetText
  <2> HIDE DEF Result
  <2> QED BY <1>5, <2>2, <2>3, <2>4, <2>5, <2>6, <2>7, CreatorActions
<1>6. CASE Invalidate(a) \/ Reply(a)
  BY <1>2, <1>6 DEF Invalidate, Reply, Busy
<1>7. CASE StatementFails(a)
  BY <1>2, <1>3, <1>7 DEF StatementFails
<1>8. CASE a \in Requests /\ HangUp(a)
  BY <1>8, GotoMoves DEF HangUp
<1> HIDE DEF Result
<1> QED BY <1>4, <1>5, <1>6, <1>7, <1>8 DEF StepBy

\* The log only grows, by the row of the task that steps.
LEMMA LogGrows ==
  ASSUME OnlyCreates, TypeInv, NEW a \in Tasks, StepBy(a)
  PROVE  /\ log \subseteq log'
         /\ InsertLog(a) => \E l \in log' : l.type = task[a].msg.type /\ l.id = task[a].id
         /\ task[a].pc = "insertLog" /\ Busy(a)' => InsertLog(a) \/ StatementFails(a)
<1>1. ASSUME InsertLog(a)
      PROVE  /\ log \subseteq log'
             /\ \E l \in log' : l.type = task[a].msg.type /\ l.id = task[a].id
  <2>1. PICK now \in Times : AddLog(task[a].msg.type, task[a].id, now)
    BY <1>1 DEF InsertLog
  <2>2. PICK u \in FreeUuids :
          log' = log \cup {[uid |-> u, type |-> task[a].msg.type, id |-> task[a].id,
                            ts |-> now]}
    BY <2>1 DEF AddLog
  <2> DEFINE l == [uid |-> u, type |-> task[a].msg.type, id |-> task[a].id, ts |-> now]
  <2>3. l \in log' /\ l.type = task[a].msg.type /\ l.id = task[a].id
    BY <2>2
  <2> QED BY <2>2, <2>3
<1>2. ~InsertLog(a) => log' = log
  <2>1. CASE Statement(a)
    BY <2>1, CreatorActions
       DEF NextEntryId, ReadSource, InsertRow, UpsertStyle, FetchStyle, CopyText, SetText
  <2>2. CASE ~Statement(a)
    BY <2>2 DEF StepBy, Receive, Invalidate, Reply, StatementFails, HangUp
  <2> QED BY <2>1, <2>2
<1>3. ASSUME task[a].pc = "insertLog", Busy(a)'
      PROVE  InsertLog(a) \/ StatementFails(a)
  <2>1. task[a].upsert = "insert"
    BY <1>3 DEF TypeInv, TypeOK, TaskOK, TaskState, InsertSteps
  <2>2. ~ \E m \in Messages : Receive(a, m)
    BY <1>3 DEF Receive, Busy
  <2>3. ~ (a \in Requests /\ HangUp(a))
    BY <1>3, GotoMoves DEF HangUp, Busy
  <2>4. Statement(a) => InsertLog(a)
    BY <1>3, <2>1, CreatorActions
       DEF NextEntryId, ReadSource, InsertRow, UpsertStyle, FetchStyle, CopyText, SetText,
           InsertSteps
  <2> QED BY <1>3, <2>2, <2>3, <2>4 DEF StepBy, Invalidate, Reply
<1> QED BY <1>1, <1>2, <1>3

\* A handler that has made its log row finds it in the log.
LogsThere ==
  \A t \in Tasks :
    HasLogged(t) => \E l \in log : l.type = task[t].msg.type /\ l.id = task[t].id

\* A handler comes to have made its log row by making it.
LEMMA ComesToLog ==
  ASSUME OnlyCreates, TypeInv, NEW a \in Tasks, StepBy(a), HasLogged(a)'
  PROVE  /\ task'[a].msg = task[a].msg /\ task'[a].id = task[a].id
         /\ HasLogged(a) \/ InsertLog(a)
<1> DEFINE m == task[a].msg
           s == task[a].pc
<1>1. task'[a].pc \notin {"idle", "nextId"}
  BY DEF HasLogged, Logging
<1>2. /\ task'[a].msg = m /\ Busy(a)
      /\ s # "nextId" => task'[a].id = task[a].id
      /\ \/ task'[a].pc = After(m, s)
         \/ task'[a].pc = OnError(m, s)
         \/ task'[a].pc = s /\ ~InsertLog(a)
         \/ s = "setText" /\ task'[a].pc = "recreate"
  BY <1>1, CreatorMoves
<1>3. m \in Messages /\ m.op \in Creating /\ StepOK(m, s) /\ s # "idle"
  BY <1>2, CreatorSteps DEF Busy
<1>4. Logging(m, task'[a].pc)
  BY <1>2 DEF HasLogged
<1>5. Logging(m, s) \/ s = "insertLog"
  BY <1>2, <1>3, <1>4, LoggingFollows DEF Logging, StepOK, Creating
<1>6. CASE Logging(m, s)
  BY <1>2, <1>6 DEF HasLogged, Logging
<1>7. CASE s = "insertLog" /\ ~Logging(m, s)
  <2>1. CASE StatementFails(a)
    <3>1. Fail(a)
      BY <1>7, <2>1 DEF StatementFails, InsertSteps
    <3>2. OnError(m, s) = "idle"
      BY <1>7 DEF OnError, Tolerated
    <3> QED BY <1>1, <3>1, <3>2, GotoMoves DEF Fail
  <2> QED BY <1>1, <1>2, <1>7, <2>1, LogGrows DEF Busy
<1> QED BY <1>5, <1>6, <1>7

LEMMA LoggedStep ==
  ASSUME OnlyCreates, TypeInv, LogsThere, NEW a \in Tasks, StepBy(a)
  PROVE  LogsThere'
<1> SUFFICES ASSUME NEW t \in Tasks, HasLogged(t)'
             PROVE  \E l \in log' : l.type = task'[t].msg.type /\ l.id = task'[t].id
  BY DEF LogsThere
<1>1. log \subseteq log' /\ MovesAlone(a)
  BY LogGrows, CreatorMoves
<1>2. CASE HasLogged(t) /\ task'[t].id = task[t].id /\ task'[t].msg = task[t].msg
  BY <1>1, <1>2 DEF LogsThere
<1>3. CASE t # a
  BY <1>1, <1>2, <1>3 DEF MovesAlone, HasLogged
<1>4. CASE t = a /\ InsertLog(a)
  BY <1>4, ComesToLog, LogGrows
<1> QED BY <1>2, <1>3, <1>4, ComesToLog

-----------------------------------------------------------------------------
(* The next id is free. *)

\* Only create logs its entry before it inserts the row; where there is
\* anything else, nothing may cut a handler short.
Sheltered == (\A m \in Messages : m.op = "create") \/ (~Faulty /\ ~Crashes)

\* A handler that owes a log row goes on owing it until it inserts it.
LEMMA OwesOn ==
  ASSUME OnlyCreates, Sheltered, TypeInv, NEW a \in Tasks, StepBy(a), Owes(a)
  PROVE  \/ InsertLog(a)
         \/ Owes(a)' /\ task'[a].id = task[a].id
<1>1. /\ task[a].msg \in Messages /\ task[a].msg.op \in Creating
      /\ StepOK(task[a].msg, task[a].pc) /\ task[a].upsert = "insert" /\ Busy(a)
  <2>1. Busy(a) /\ task[a].pc \notin InsertSteps
    BY DEF Owes, OwesLog, Busy, InsertSteps
  <2>2. task[a].upsert = "insert"
    BY <2>1 DEF TypeInv, TaskOK
  <2> QED BY <2>1, <2>2, CreatorSteps
<1>2. ~Faulty /\ ~Crashes
  BY <1>1 DEF Sheltered, Owes, OwesLog
<1>3. CASE task[a].pc = "insertLog"
  <2>1. Statement(a)
    BY <1>1, <1>2, <1>3 DEF StepBy, Receive, Invalidate, Reply, StatementFails, HangUp
  <2> QED BY <1>1, <1>3, <2>1, CreatorActions
          DEF NextEntryId, ReadSource, InsertRow, UpsertStyle, FetchStyle, CopyText,
              SetText, InsertSteps
<1>4. CASE task[a].pc # "insertLog"
  <2>1. task[a].pc \in {"copyText", "invalidate"}
    BY <1>4 DEF Owes, OwesLog
  <2>2. Done(a)
    <3>1. CASE Statement(a)
      BY <1>1, <2>1, <3>1, CreatorActions
         DEF NextEntryId, ReadSource, InsertRow, UpsertStyle, FetchStyle, CopyText,
             InsertLog, SetText, InsertSteps
    <3>2. CASE ~Statement(a)
      BY <1>1, <1>2, <3>2 DEF StepBy, Receive, Invalidate, Reply, StatementFails, HangUp
    <3> QED BY <3>1, <3>2
  <2>3. OwesLog(task[a].msg, After(task[a].msg, task[a].pc))
    BY <1>1, <1>4, LoggingFollows DEF Owes, Busy
  <2>4. After(task[a].msg, task[a].pc) # "idle"
    BY <2>3 DEF OwesLog
  <2> QED BY <2>2, <2>3, <2>4, GotoMoves DEF Done, Owes
<1> QED BY <1>3, <1>4

\* A row that was not there has been inserted by the task that steps.
LEMMA RowInserted ==
  ASSUME OnlyCreates, TypeInv, NEW a \in Tasks, StepBy(a),
         NEW ty \in Types, NEW i \in Ids, rows[ty][i] = None, rows'[ty][i] # None
  PROVE  /\ ty = task[a].msg.type /\ i = task[a].id
         /\ InsertRow(a) /\ Done(a) /\ Backing(a) = None
<1>1. Statement(a)
  BY DEF StepBy, Receive, Invalidate, Reply, StatementFails, HangUp
<1>2. task[a].msg.type \in Types /\ task[a].id \in Ids
  BY WritesTyped
<1>3. PICK r \in Row : Write(a, r)
  BY <1>1, CreatorActions, CreatorSteps, StatementWrites
<1>4. ty = task[a].msg.type /\ i = task[a].id
  BY <1>2, <1>3, WritesRows, NoneAssumption
<1>5. Backing(a) = None
  BY <1>4 DEF Backing
<1>6. InsertRow(a) /\ Done(a) /\ Backing(a) = None
  <2>1. rows' # rows
    OBVIOUS
  <2> QED BY <1>1, <1>5, <2>1, CreatorActions
          DEF NextEntryId, ReadSource, InsertLog, InsertRow, UpsertStyle, FetchStyle,
              CopyText, SetText
<1> QED BY <1>4, <1>6

\* The handler that inserted it has made its log row or owes it from now on.
LEMMA RowAppears ==
  ASSUME OnlyCreates, TypeInv, NEW a \in Tasks, StepBy(a),
         NEW ty \in Types, NEW i \in Ids, rows[ty][i] = None, rows'[ty][i] # None
  PROVE  /\ i = task[a].id
         /\ HasLogged(a) \/ (Owes(a)' /\ task'[a].id = i)
<1>1. i = task[a].id /\ InsertRow(a) /\ Done(a)
  BY RowInserted
<1>2. /\ task[a].msg \in Messages /\ task[a].msg.op \in Creating
      /\ StepOK(task[a].msg, task[a].pc)
      /\ task[a].pc \in {"insertRow", "recreate"}
  BY <1>1, CreatorSteps DEF InsertRow, InsertSteps, Busy
<1>3. CASE task[a].pc = "recreate"
  BY <1>1, <1>2, <1>3 DEF StepOK, HasLogged, Logging, Creating
<1>4. CASE task[a].pc = "insertRow"
  <2>1. HasLogged(a) \/ OwesLog(task[a].msg, After(task[a].msg, task[a].pc))
    BY <1>2, <1>4, LoggingFollows DEF HasLogged
  <2>2. CASE OwesLog(task[a].msg, After(task[a].msg, task[a].pc))
    <3>1. After(task[a].msg, task[a].pc) # "idle"
      BY <2>2 DEF OwesLog
    <3> QED BY <1>1, <2>2, <3>1, GotoMoves DEF Done, Owes
  <2> QED BY <1>1, <2>1, <2>2
<1> QED BY <1>2, <1>3, <1>4

\* A row is at or below an id of the log, or its handler owes the log row.
AccountInv ==
  /\ TypeInv /\ LogsThere
  /\ \A ty \in Types, i \in Ids :
       rows[ty][i] # None =>
         \/ \E l \in log : i <= l.id
         \/ \E t \in Tasks : Owes(t) /\ task[t].id = i

LEMMA AccountStep ==
  ASSUME OnlyCreates, Sheltered, AccountInv, [Next]_vars
  PROVE  AccountInv'
<1>1. TypeInv /\ TypeInv'
  BY TypeStep DEF AccountInv
<1>2. ASSUME NEW a \in Tasks, StepBy(a)
      PROVE  AccountInv'
  <2>1. log \subseteq log' /\ MovesAlone(a)
    BY <1>1, <1>2, LogGrows, CreatorMoves
  <2>2. ASSUME NEW ty \in Types, NEW i \in Ids, rows'[ty][i] # None
        PROVE  \/ \E l \in log' : i <= l.id
               \/ \E t \in Tasks : Owes(t)' /\ task'[t].id = i
    <3>1. CASE \E l \in log : i <= l.id
      BY <2>1, <3>1
    <3>2. ASSUME NEW l \in log', l.id = i
          PROVE  \E k \in log' : i <= k.id
      <4>1. i \in Int
        BY IdsAssumption DEF Ids
      <4>2. i <= l.id
        BY <3>2, <4>1
      <4> QED BY <4>2
    <3>3. ASSUME NEW t \in Tasks, Owes(t), task[t].id = i
          PROVE  \/ \E l \in log' : i <= l.id
                 \/ \E u \in Tasks : Owes(u)' /\ task'[u].id = i
      <4>1. CASE t # a
        BY <2>1, <3>3, <4>1 DEF MovesAlone, Owes
      <4>2. CASE t = a /\ InsertLog(a)
        <5>1. PICK l \in log' : l.id = i
          BY <1>1, <1>2, <3>3, <4>2, LogGrows
        <5> QED BY <3>2, <5>1
      <4>3. CASE t = a /\ ~InsertLog(a)
        BY <1>1, <1>2, <3>3, <4>3, OwesOn
      <4> QED BY <4>1, <4>2, <4>3
    <3>4. CASE rows[ty][i] # None
      BY <3>1, <3>3, <3>4 DEF AccountInv
    <3>5. CASE rows[ty][i] = None
      <4>1. i = task[a].id /\ (HasLogged(a) \/ (Owes(a)' /\ task'[a].id = i))
        BY <1>1, <1>2, <2>2, <3>5, RowAppears
      <4>2. CASE HasLogged(a)
        <5>1. PICK l \in log : l.id = i
          BY <4>1, <4>2 DEF AccountInv, LogsThere
        <5> QED BY <2>1, <3>2, <5>1
      <4> QED BY <4>1, <4>2
    <3> QED BY <3>4, <3>5
  <2>3. LogsThere'
    BY <1>2, LoggedStep DEF AccountInv
  <2> QED BY <1>1, <2>2, <2>3 DEF AccountInv
<1>3. CASE Crash
  <2>1. /\ log' = log /\ rows' = rows /\ \A t \in Tasks : task'[t] = Idle
        /\ \A m \in Messages : m.op = "create"
    BY <1>3 DEF Crash, Sheltered
  <2>2. \A t \in Tasks : ~Owes(t)
    BY <1>1, <2>1, CreatorSteps DEF Owes, OwesLog, Busy
  <2>3. \A t \in Tasks : ~HasLogged(t)'
    BY <2>1 DEF HasLogged, Logging, Idle, NoMessage
  <2> QED BY <1>1, <2>1, <2>2, <2>3 DEF AccountInv, LogsThere
<1>4. CASE UNCHANGED vars
  BY <1>1, <1>4 DEF vars, AccountInv, LogsThere, HasLogged, Owes
<1> QED
  <2>1. CASE Next
    BY <2>1, <1>2, <1>3, NextIsStep
  <2> QED BY <2>1, <1>4

LEMMA AccountInit == Init => AccountInv
BY TypeInit DEF Init, AccountInv, LogsThere, HasLogged, Logging, Idle, NoMessage

\* Whoever creates, duplicates and imports at the same time, the next entry id
\* is free in every table when they are done; with creates alone, this holds
\* even after failures and crashes.
THEOREM NextIdsFree ==
  ASSUME OnlyCreates, Sheltered PROVE Spec => []NextIdFree
<1>1. AccountInv => NextIdFree
  <2> SUFFICES ASSUME AccountInv, Quiescent, LastId # MaxId,
                      NEW ty \in Types, rows[ty][NextId] # None
               PROVE  FALSE
    BY DEF NextIdFree
  <2>1. NextId \in Ids /\ NextId = LastId + 1 /\ LastId \in Ids
    BY NextIdTyped DEF AccountInv, TypeInv, TypeOK, NextId
  <2>2. \A t \in Tasks : ~Owes(t)
    BY DEF Quiescent, Busy, Owes, OwesLog
  <2>3. PICK l \in log : NextId <= l.id
    BY <2>1, <2>2 DEF AccountInv
  <2>4. l.id \in Ids /\ l.id <= LastId
    BY NextIdTyped DEF AccountInv, TypeInv, TypeOK, LogRow
  <2> QED BY <2>1, <2>3, <2>4, IdsAssumption DEF Ids
<1> QED BY <1>1, AccountInit, AccountStep, PTL DEF Spec

-----------------------------------------------------------------------------
(* What is announced is there. *)

Bare(t) == [name |-> task[t].name, content |-> Empty]

\* The row of a new script or config, as far as its handler has come with
\* it: only a create goes on without the content.
Fruit(t) ==
  \/ /\ Backing(t) = Bare(t)
     /\ \/ task[t].pc \in {"setText", "copyText"}
        \/ Faulty /\ task[t].msg.op = "create"
  \/ /\ Backing(t) = Announced(t)
     /\ task[t].pc \notin {"setText", "copyText"}

\* The handler need not create its row again: it finds what it wrote.
FruitInv ==
  \A t \in Tasks :
    Holds(t) =>
      /\ task[t].pc \notin {"recreate", "rewrite"}
      /\ task[t].msg.type \notin Upserting => Fruit(t)

TruthInv == OwnerInv /\ LogsThere /\ FruitInv

\* Who writes to a row has just found none there, or holds it, or is at
\* work on a style.
LEMMA WritesOwn ==
  ASSUME OnlyCreates, TypeInv, NEW a \in Tasks, StepBy(a)
  PROVE  \/ UNCHANGED rows
         \/ /\ \E r \in Row : Write(a, r)
            /\ \/ Backing(a) = None
               \/ Holds(a)
               \/ task[a].msg.type \in Upserting
<1>1. CASE Statement(a)
  <2>1. /\ Busy(a)
        /\ \/ NextEntryId(a) \/ ReadSource(a) \/ InsertLog(a) \/ InsertRow(a)
           \/ UpsertStyle(a) \/ FetchStyle(a) \/ CopyText(a) \/ SetText(a)
    BY <1>1, CreatorActions
  <2>2. /\ StepOK(task[a].msg, task[a].pc) /\ task[a].msg.op \in Creating
        /\ task[a].upsert # "insert" => task[a].msg.type \in Upserting
        /\ task[a].pc # "deleteRow"
    BY <2>1, CreatorSteps DEF TypeInv, TaskOK
  <2>3. UNCHANGED rows \/ \E r \in Row : Write(a, r)
    BY <1>1, <2>2, StatementWrites
  <2>4. task[a].pc \in {"copyText", "setText", "rewrite"} => Holds(a)
    BY <2>2 DEF StepOK, Creating, Admin, Holds, Holding
  <2> QED BY <2>1, <2>2, <2>3, <2>4
          DEF NextEntryId, ReadSource, InsertLog, InsertRow, UpsertStyle, FetchStyle,
              CopyText, SetText
<1>2. CASE ~Statement(a)
  BY <1>2 DEF StepBy, Receive, Invalidate, Reply, StatementFails, HangUp
<1> QED BY <1>1, <1>2

\* The row of another handler is left alone.
LEMMA OthersFruit ==
  ASSUME OnlyCreates, TruthInv, NEW a \in Tasks, StepBy(a), NEW t \in Tasks, t # a,
         Holds(t), task[t].msg.type \notin Upserting
  PROVE  rows'[task[t].msg.type][task[t].id] = Backing(t)
<1>1. TypeInv /\ Backing(t) # None
  BY DEF TruthInv, OwnerInv
<1>2. /\ task[t].msg.type \in Types /\ task[t].id \in Ids
      /\ task[a].msg.type \in Types /\ task[a].id \in Ids
  BY <1>1, WritesTyped
<1>3. CASE UNCHANGED rows
  BY <1>3 DEF Backing
<1>4. CASE \E r \in Row : Write(a, r)
  <2>1. PICK r \in Row : Write(a, r) /\ r # None
    BY <1>4, NoneAssumption
  <2>2. \/ UNCHANGED rows \/ Backing(a) = None \/ Holds(a)
        \/ task[a].msg.type \in Upserting
    BY <1>1, WritesOwn
  <2>3. UNCHANGED rows \/ <<task[t].msg.type, task[t].id>> # <<task[a].msg.type, task[a].id>>
    BY <1>1, <2>2 DEF Backing, TruthInv, OwnerInv, UniqueOwner, Upserting
  <2> QED BY <1>1, <1>2, <1>3, <2>1, <2>3, WritesRows DEF Backing
<1> QED BY <1>1, <1>3, <1>4, WritesOwn

\* A handler's own row, as it goes on.
LEMMA OwnFruit ==
  ASSUME OnlyCreates, TruthInv, NEW a \in Tasks, StepBy(a), Holds(a)'
  PROVE  /\ task'[a].pc \notin {"recreate", "rewrite"}
         /\ \/ Holds(a) /\ Fruit(a)
            \/ InsertRow(a) /\ Backing(a) = None /\ task[a].pc = "insertRow"
            => Fruit(a)'
<1> DEFINE m == task[a].msg
           s == task[a].pc
<1>1. TypeInv /\ TaskOK(task[a]) /\ m.type \in Types /\ task[a].id \in Ids
  BY WritesTyped DEF TruthInv, OwnerInv, TypeInv
<1>2. Keeps(a)
  BY <1>1, TaskKeeps DEF StepBy
<1>3. /\ s = "insertRow" => ~Holds(a)
      /\ s = "insertRow" => After(m, s) \notin {"recreate", "rewrite"}
  BY <1>1 DEF TaskOK, StepOK, Holds, Holding, After, CreateNext, DuplicateNext,
              ImportNext, Creating, Admin
<1>4. CASE InsertRow(a) /\ Backing(a) = None /\ s = "insertRow"
  <2>1. Busy(a) /\ Done(a) /\ Write(a, [name |-> task[a].name, content |-> Empty])
    BY <1>4 DEF InsertRow, Busy
  <2>2. [name |-> task[a].name, content |-> Empty] \in Row
    BY <1>1, <1>4, NoneAssumption, WritesTyped DEF Row
  <2>3. rows'[m.type][task[a].id] = [name |-> task[a].name, content |-> Empty]
    BY <1>1, <2>1, <2>2, NoneAssumption, WritesRows
  <2>4. StepOK(m, s) /\ m.op \in Creating
    BY <1>1, <2>1, CreatorSteps
  <2>5. /\ After(m, s) \in {"setText", "copyText", "invalidate"}
        /\ After(m, s) = "invalidate" => task[a].content = None
    BY <1>1, <1>4, <2>4
       DEF After, CreateNext, DuplicateNext, ImportNext, StepOK, Creating, Admin, TaskOK
  <2>6. /\ task'[a].pc = After(m, s) /\ task'[a].name = task[a].name
        /\ task'[a].content = task[a].content
    BY <1>1, <2>1, <2>5, GotoMoves DEF Done
  <2>7. Bare(a)' = [name |-> task[a].name, content |-> Empty]
    BY <2>6 DEF Bare
  <2>8. task'[a].content = None => Announced(a)' = Bare(a)'
    BY DEF Announced, Bare
  <2>9. Backing(a)' = Bare(a)'
    BY <1>2, <2>3, <2>7 DEF Backing, Keeps
  <2>10. Fruit(a)'
    BY <2>5, <2>6, <2>8, <2>9 DEF Fruit
  <2> QED BY <1>3, <1>4, <2>6, <2>10
<1>5. CASE Holds(a)
  <2>1. /\ s \notin {"recreate", "rewrite"} /\ Backing(a) # None
        /\ Busy(a)
    BY <1>5 DEF TruthInv, FruitInv, OwnerInv, Holds, Holding, Busy
  <2>2. StepOK(m, s) /\ m.op \in Creating
    BY <1>1, <2>1, CreatorSteps
  <2>3. /\ s \in {"setText", "copyText", "insertLog", "invalidate", "reply"}
        /\ task'[a] # Idle /\ task[a].upsert = "insert"
    BY <1>1, <1>5, <2>1, <2>2 DEF Holds, Holding, Idle, TaskOK, InsertSteps
  <2>4. \/ CopyText(a) \/ SetText(a) \/ InsertLog(a) \/ Invalidate(a) \/ Reply(a)
        \/ StatementFails(a)
    <3>1. ~HangUp(a)
      BY <1>1, <2>3, GotoMoves DEF HangUp
    <3>2. ~ \E n \in Messages : Receive(a, n)
      BY <2>1 DEF Receive
    <3>3. CASE Statement(a)
      BY <1>1, <2>3, <3>3, CreatorActions
         DEF NextEntryId, ReadSource, InsertRow, UpsertStyle, FetchStyle, InsertSteps
    <3> QED BY <3>1, <3>2, <3>3 DEF StepBy
  <2>5. CASE StatementFails(a)
    <3>1. Faulty /\ Fail(a) /\ UNCHANGED rows
          /\ s \in {"setText", "copyText", "insertLog"}
      BY <2>3, <2>5 DEF StatementFails, InsertSteps
    <3>2. task'[a].pc = OnError(m, s)
      BY <1>1, <3>1, GotoMoves DEF Fail
    <3>3. s = "setText" /\ OnError(m, s) = "invalidate" /\ m.op = "create"
      <4>1. OnError(m, s) # "idle"
        BY <3>2 DEF Holds, Holding
      <4>2. s = "setText"
        BY <3>1, <4>1 DEF OnError, Tolerated
      <4> QED BY <2>2, <4>2
              DEF OnError, Tolerated, After, StepOK, Creating, Admin, Holds, Holding
    <3>4. task'[a].name = task[a].name /\ task'[a].content = task[a].content
      BY <1>1, <3>1, <3>3, GotoMoves DEF Fail
    <3>5. ASSUME Fruit(a)
          PROVE  Fruit(a)'
      <4>1. Backing(a) = Bare(a)
        BY <3>3, <3>5 DEF Fruit
      <4>2. Backing(a)' = Bare(a)'
        BY <1>2, <3>1, <3>4, <4>1 DEF Backing, Bare, Keeps
      <4> QED BY <1>2, <3>1, <3>3, <4>2 DEF Fruit, Keeps
    <3> QED BY <1>3, <1>5, <3>2, <3>3, <3>5
  <2>6. CASE ~StatementFails(a)
    <3>1. Done(a)
      BY <2>1, <2>4, <2>6 DEF CopyText, SetText, InsertLog, Invalidate, Reply
    <3>2. /\ task'[a].pc = After(m, s)
          /\ task'[a].name = task[a].name /\ task'[a].content = task[a].content
      BY <1>1, <1>2, <2>3, <3>1, GotoMoves DEF Done
    <3>3. Announced(a)' = Announced(a) /\ Bare(a)' = Bare(a)
      BY <3>2 DEF Announced, Bare
    <3>4. After(m, s) \notin {"setText", "copyText", "recreate", "rewrite"}
      BY <2>2, <2>3
         DEF After, CreateNext, DuplicateNext, ImportNext, StepOK, Creating, Admin
    <3>5. ASSUME Fruit(a), s \in {"setText", "copyText"}
          PROVE  Fruit(a)'
      <4>1. /\ task[a].content \in Contents /\ task[a].content # None
            /\ Backing(a) = Bare(a) /\ Backing(a) \in Row
        BY <1>1, <2>1, <3>5, NoneAssumption, WritesTyped DEF Fruit
      <4> DEFINE r == [Backing(a) EXCEPT !.content = task[a].content]
      <4>2. Write(a, r)
        BY <2>1, <2>4, <2>6, <3>5 DEF CopyText, SetText, InsertLog, Invalidate, Reply
      <4>3. r = Announced(a) /\ r \in Row /\ r # None
        BY <4>1, NoneAssumption DEF Bare, Announced, Row
      <4> HIDE DEF r
      <4>4. rows'[m.type][task[a].id] = r
        BY <1>1, <4>2, <4>3, WritesRows
      <4>5. Backing(a)' = Announced(a)'
        BY <1>2, <3>3, <4>3, <4>4 DEF Backing, Keeps
      <4> QED BY <3>2, <3>4, <4>5 DEF Fruit
    <3>6. ASSUME Fruit(a), s \notin {"setText", "copyText"}
          PROVE  Fruit(a)'
      <4>1. ~CopyText(a) /\ ~SetText(a)
        BY <2>1, <3>6 DEF CopyText, SetText
      <4>2. UNCHANGED rows
        BY <2>4, <2>6, <4>1 DEF InsertLog, Invalidate, Reply
      <4>3. Backing(a)' = Backing(a)
        BY <1>2, <4>2 DEF Backing, Keeps
      <4> QED BY <1>2, <3>2, <3>3, <3>4, <3>6, <4>3 DEF Fruit, Keeps
    <3> QED BY <1>3, <1>5, <3>2, <3>4, <3>5, <3>6
  <2> QED BY <2>5, <2>6
<1>6. CASE s = "insertRow" /\ FetchStyle(a) /\ Backing(a) # None
  <2>1. Done(a) /\ task[a].upsert = "fetch"
    BY <1>6 DEF FetchStyle
  <2>2. task'[a].pc = After(m, s)
    BY <1>1, <2>1, GotoMoves DEF Done
  <2> QED BY <1>3, <1>6, <2>1, <2>2 DEF InsertRow
<1> QED BY <1>2, <1>4, <1>5, <1>6 DEF Keeps, Gets

LEMMA TruthStep ==
  ASSUME OnlyCreates, TruthInv, [Next]_vars
  PROVE  TruthInv'
<1>1. TypeInv /\ NeverDeletes
  BY DEF TruthInv, OwnerInv, OnlyCreates, Creating, NeverDeletes
<1>2. OwnerInv'
  BY <1>1, OwnerStep DEF TruthInv
<1>3. ASSUME NEW a \in Tasks, StepBy(a)
      PROVE  TruthInv'
  <2>1. LogsThere'
    BY <1>1, <1>3, LoggedStep DEF TruthInv
  <2>2. MovesAlone(a)
    BY <1>1, <1>3, CreatorMoves
  <2>3. ASSUME NEW t \in Tasks, Holds(t)'
        PROVE  /\ task'[t].pc \notin {"recreate", "rewrite"}
               /\ task'[t].msg.type \notin Upserting => Fruit(t)'
    <3>1. CASE t = a
      <4>1. Keeps(a)
        BY <1>1, <1>3, <2>3, <3>1, TaskKeeps DEF StepBy
      <4>2. task'[a].msg.type \notin Upserting =>
              \/ Holds(a) /\ Fruit(a)
              \/ InsertRow(a) /\ Backing(a) = None /\ task[a].pc = "insertRow"
        BY <4>1 DEF Keeps, Gets, TruthInv, FruitInv
      <4> QED BY <1>3, <2>3, <3>1, <4>2, OwnFruit
    <3>2. CASE t # a
      <4>1. task'[t] = task[t]
        BY <2>2, <3>2 DEF MovesAlone
      <4>2. Holds(t)
        BY <2>3, <4>1 DEF Holds
      <4>3. /\ task[t].pc \notin {"recreate", "rewrite"}
            /\ task[t].msg.type \notin Upserting => Fruit(t)
        BY <4>2 DEF TruthInv, FruitInv
      <4>4. task[t].msg.type \notin Upserting =>
              rows'[task[t].msg.type][task[t].id] = Backing(t)
        BY <1>3, <3>2, <4>2, OthersFruit
      <4> QED BY <4>1, <4>3, <4>4 DEF Fruit, Backing, Bare, Announced
    <3> QED BY <3>1, <3>2
  <2> QED BY <1>2, <2>1, <2>3 DEF TruthInv, FruitInv
<1>4. CASE Crash
  <2>1. \A t \in Tasks : task'[t] = Idle
    BY <1>4 DEF Crash
  <2> QED BY <1>2, <2>1
          DEF TruthInv, FruitInv, LogsThere, HasLogged, Logging, Holds, Holding, Idle, NoMessage
<1>5. CASE UNCHANGED vars
  BY <1>2, <1>5 DEF vars, TruthInv, FruitInv, Fruit, Bare, Announced, Backing,
                    LogsThere, HasLogged, Holds
<1> QED
  <2>1. CASE Next
    BY <2>1, <1>3, <1>4, NextIsStep
  <2> QED BY <2>1, <1>5

LEMMA TruthInit == Init => TruthInv
BY OwnerInit
   DEF Init, TruthInv, FruitInv, LogsThere, HasLogged, Logging, Holds, Holding, Idle, NoMessage

\* Whoever creates, duplicates and imports at the same time, whatever fails,
\* hangs up or crashes: the entry a handler announces has its log row and its
\* backing row, and that of a script or config has what is announced, but for
\* the content of a create whose statements may fail.  (Of the row of a style
\* this says no more than that it is there.)
THEOREM RepliesTruthful == ASSUME OnlyCreates PROVE Spec => []TruthfulReply
<1>1. TruthInv => TruthfulReply
  <2> SUFFICES ASSUME TruthInv, NEW t \in Tasks, task[t].pc = "reply"
               PROVE  /\ \E l \in log : l.type = task[t].msg.type /\ l.id = task[t].id
                      /\ Backing(t) # None
                      /\ \/ task[t].msg.type = "Style"
                         \/ Backing(t) = Announced(t)
                         \/ /\ Faulty /\ task[t].msg.op = "create"
                            /\ Backing(t) = [Announced(t) EXCEPT !.content = Empty]
    BY DEF TruthfulReply
  <2>1. StepOK(task[t].msg, task[t].pc) /\ task[t].msg.op \in Creating
    BY CreatorSteps DEF TruthInv, OwnerInv, Busy
  <2>2. Holds(t) /\ HasLogged(t)
    BY <2>1 DEF StepOK, Creating, Holds, Holding, HasLogged, Logging
  <2>3. Bare(t) = [Announced(t) EXCEPT !.content = Empty]
    BY DEF Bare, Announced
  <2>4. task[t].msg.type # "Style" => Fruit(t)
    BY <2>2 DEF TruthInv, FruitInv, Upserting
  <2>5. (\E l \in log : l.type = task[t].msg.type /\ l.id = task[t].id) /\ Backing(t) # None
    BY <2>2 DEF TruthInv, LogsThere, OwnerInv
  <2> QED BY <2>3, <2>4, <2>5 DEF Fruit
<1> QED BY <1>1, TruthInit, TruthStep, PTL DEF Spec

-----------------------------------------------------------------------------
(* What is announced of a style. *)

\* A handler has written the row of style i: it has inserted or renamed it.
Touched(u, i) ==
  /\ task[u].msg.type = "Style" /\ task[u].id = i
  /\ Holds(u) \/ task[u].upsert = "fetch"

StyleLog(l, i) == l.type = "Style" /\ l.id = i

\* Another handler has made a style under the id of t, or is making one.
Contested(t) ==
  \/ \E u \in Tasks \ {t} : Touched(u, task[t].id)
  \/ \E k, l \in log : k # l /\ StyleLog(k, task[t].id) /\ StyleLog(l, task[t].id)
  \/ ~HasLogged(t) /\ \E l \in log : StyleLog(l, task[t].id)

\* The handler of a style that has drawn its id.
Drawn(t) == Busy(t) /\ task[t].pc # "nextId" /\ task[t].msg.type = "Style"

\* A row of styles has its writer at work, or a log row.
Traced ==
  \A i \in Ids : rows["Style"][i] # None =>
    \/ \E u \in Tasks : Touched(u, i)
    \/ \E l \in log : StyleLog(l, i)

\* Two handlers that have made log rows of one style have made two.
LoggedTwice ==
  \A t, u \in Tasks :
    /\ t # u /\ HasLogged(t) /\ HasLogged(u)
    /\ task[t].msg.type = "Style" /\ task[u].msg.type = "Style"
    /\ task[t].id = task[u].id
    => \E k, l \in log : k # l /\ StyleLog(k, task[t].id) /\ StyleLog(l, task[t].id)

\* A handler renames a row that is there, and finds in a row that is there
\* its own entry, unless it is contested.
StyleInv ==
  /\ TruthInv /\ Traced /\ LoggedTwice
  /\ \A t \in Tasks : task[t].upsert # "insert" => Backing(t) # None
  /\ \A t \in Tasks : Drawn(t) /\ Backing(t) # None =>
       (Holds(t) /\ Fruit(t)) \/ Contested(t)

\* Nothing cuts a handler short.
Undisturbed == ~Faulty /\ ~Crashes

\* The row a log statement adds is a new one.
LEMMA LogAdds ==
  ASSUME NEW a \in Tasks, InsertLog(a)
  PROVE  \E l \in log' : l \notin log /\ l.type = task[a].msg.type /\ l.id = task[a].id
<1>1. PICK now \in Times : AddLog(task[a].msg.type, task[a].id, now)
  BY DEF InsertLog
<1>2. PICK u \in FreeUuids :
        log' = log \cup {[uid |-> u, type |-> task[a].msg.type, id |-> task[a].id,
                          ts |-> now]}
  BY <1>1 DEF AddLog
<1> DEFINE l == [uid |-> u, type |-> task[a].msg.type, id |-> task[a].id, ts |-> now]
<1>3. /\ l \in log' /\ l.uid = u
      /\ l.type = task[a].msg.type /\ l.id = task[a].id
  BY <1>2
<1>4. l \notin log
  BY <1>3 DEF FreeUuids
<1> QED BY <1>3, <1>4

\* Where nothing is deleted a row stays.
LEMMA RowsStay ==
  ASSUME OnlyCreates, TypeInv, NEW a \in Tasks, StepBy(a),
         NEW ty \in Types, NEW i \in Ids, rows[ty][i] # None
  PROVE  rows'[ty][i] # None
<1>1. UNCHANGED rows \/ \E r \in Row : Write(a, r)
  BY WritesOwn
<1> QED BY <1>1, NoneAssumption, WritesRows

\* A handler that has come to the row of its new entry goes on to its answer.
LEMMA HeldOn ==
  ASSUME OnlyCreates, Undisturbed, TruthInv, NEW a \in Tasks, StepBy(a), Holds(a)
  PROVE  /\ task[a].pc = "reply" => HasLogged(a) /\ task'[a].pc = "idle"
         /\ task[a].pc # "reply" =>
              /\ Holds(a)'
              /\ task'[a].msg = task[a].msg /\ task'[a].id = task[a].id
<1> DEFINE m == task[a].msg
           s == task[a].pc
<1>1. TypeInv /\ TaskOK(task[a])
  BY DEF TruthInv, OwnerInv, TypeInv
<1>2. /\ s \notin {"recreate", "rewrite"} /\ Backing(a) # None /\ Busy(a)
  BY DEF TruthInv, FruitInv, OwnerInv, Holds, Holding, Busy
<1>3. StepOK(m, s) /\ m.op \in Creating
  BY <1>1, <1>2, CreatorSteps
<1>4. /\ s \in {"setText", "copyText", "insertLog", "invalidate", "reply"}
      /\ task[a].upsert = "insert"
  BY <1>1, <1>2 DEF Holds, Holding, TaskOK, InsertSteps
<1>5. CopyText(a) \/ SetText(a) \/ InsertLog(a) \/ Invalidate(a) \/ Reply(a)
  <2>1. ~HangUp(a) /\ ~StatementFails(a) /\ ~ \E n \in Messages : Receive(a, n)
    BY <1>2 DEF Undisturbed, HangUp, StatementFails, Receive
  <2>2. CASE Statement(a)
    BY <1>1, <1>4, <2>2, CreatorActions
       DEF NextEntryId, ReadSource, InsertRow, UpsertStyle, FetchStyle, InsertSteps
  <2> QED BY <2>1, <2>2 DEF StepBy
<1>6. Done(a)
  BY <1>2, <1>5 DEF CopyText, SetText, InsertLog, Invalidate, Reply
<1>7. /\ s = "reply" => HasLogged(a) /\ After(m, s) = "idle"
      /\ s # "reply" => Holding(m, After(m, s)) /\ After(m, s) # "idle"
  BY <1>3, <1>4
     DEF Holds, Holding, HasLogged, Logging, After, CreateNext, DuplicateNext, ImportNext,
         StepOK, Creating, Admin
<1> QED BY <1>1, <1>6, <1>7, GotoMoves DEF Done, Holds

\* So does one that gets it.
LEMMA HeldFirst ==
  ASSUME OnlyCreates, TypeInv, NEW a \in Tasks, task[a].pc = "insertRow", Done(a)
  PROVE  /\ Holds(a)'
         /\ task'[a].msg = task[a].msg /\ task'[a].id = task[a].id
<1> DEFINE m == task[a].msg
<1>1. StepOK(m, "insertRow") /\ m.op \in Creating
  BY CreatorSteps DEF Busy
<1>2. Holding(m, After(m, "insertRow")) /\ After(m, "insertRow") # "idle"
  BY <1>1 DEF Holding, After, CreateNext, DuplicateNext, ImportNext, StepOK, Creating, Admin
<1> QED BY <1>2, GotoMoves DEF Done, Holds

\* The handlers of one style come to its row by one of two ways.
LEMMA Inserting ==
  ASSUME OnlyCreates, TruthInv, NEW a \in Tasks, task[a].pc \in InsertSteps
  PROVE  task[a].pc = "insertRow" /\ ~Holds(a)
<1>1. TypeInv /\ Busy(a)
  BY DEF TruthInv, OwnerInv, InsertSteps, Busy
<1>2. StepOK(task[a].msg, task[a].pc) /\ task[a].msg.op \in Creating
  BY <1>1, CreatorSteps
<1>3. task[a].pc # "recreate"
  BY <1>2 DEF TruthInv, FruitInv, Holds, Holding, StepOK, Creating, Admin
<1> QED BY <1>2, <1>3 DEF InsertSteps, StepOK, Creating, Admin, Holds, Holding

\* Who has written a style's row goes on to hold it until it has logged it.
LEMMA TouchedOn ==
  ASSUME OnlyCreates, Undisturbed, StyleInv, NEW a \in Tasks, StepBy(a),
         NEW i, Touched(a, i)
  PROVE  Touched(a, i)' \/ HasLogged(a)
<1>1. TruthInv /\ TypeInv /\ TaskOK(task[a])
  BY DEF StyleInv, TruthInv, OwnerInv, TypeInv
<1>2. CASE Holds(a)
  BY <1>1, <1>2, HeldOn DEF Touched
<1>3. CASE task[a].upsert = "fetch"
  <2>1. task[a].pc \in InsertSteps
    BY <1>1, <1>3 DEF TaskOK
  <2>2. task[a].pc = "insertRow" /\ Busy(a) /\ Backing(a) # None
    BY <1>1, <1>3, <2>1, Inserting DEF Busy, StyleInv
  <2>3. FetchStyle(a)
    <3>1. ~HangUp(a) /\ ~StatementFails(a) /\ ~ \E n \in Messages : Receive(a, n)
      BY <2>2 DEF Undisturbed, HangUp, StatementFails, Receive
    <3>2. ~Invalidate(a) /\ ~Reply(a)
      BY <2>2 DEF Invalidate, Reply
    <3> QED BY <1>1, <1>3, <2>2, <3>1, <3>2, CreatorActions
            DEF StepBy, NextEntryId, ReadSource, InsertLog, InsertRow, UpsertStyle,
                CopyText, SetText
  <2>4. Done(a)
    BY <2>2, <2>3 DEF FetchStyle
  <2> QED BY <1>1, <2>2, <2>4, HeldFirst DEF Touched
<1> QED BY <1>2, <1>3 DEF Touched

\* Two handlers of one style, when one of them adds its log row to the
\* other's.
LEMMA TwoLogs ==
  ASSUME NEW a \in Tasks, InsertLog(a), log \subseteq log', task[a].msg.type = "Style",
         NEW l \in log, StyleLog(l, task[a].id)
  PROVE  \E j, k \in log' :
           j # k /\ StyleLog(j, task[a].id) /\ StyleLog(k, task[a].id)
<1>1. PICK k \in log' : k \notin log /\ k.type = task[a].msg.type /\ k.id = task[a].id
  BY LogAdds
<1> QED BY <1>1 DEF StyleLog

LEMMA TwiceStep ==
  ASSUME OnlyCreates, StyleInv, NEW a \in Tasks, StepBy(a)
  PROVE  LoggedTwice'
<1>1. TypeInv /\ LogsThere /\ LoggedTwice
  BY DEF StyleInv, TruthInv, OwnerInv
<1>2. log \subseteq log' /\ MovesAlone(a)
  BY <1>1, LogGrows, CreatorMoves
<1> DEFINE Twice(i) == \E j, k \in log' : j # k /\ StyleLog(j, i) /\ StyleLog(k, i)
<1>3. ASSUME NEW t \in Tasks, HasLogged(t)'
      PROVE  /\ task'[t].msg = task[t].msg /\ task'[t].id = task[t].id
             /\ HasLogged(t) \/ (t = a /\ InsertLog(a))
  BY <1>1, <1>2, <1>3, ComesToLog DEF MovesAlone, HasLogged
<1>4. ASSUME NEW u \in Tasks, HasLogged(u), InsertLog(a),
             task[u].msg.type = "Style", task[a].msg.type = "Style",
             task[u].id = task[a].id
      PROVE  Twice(task[a].id)
  <2>1. PICK l \in log : l.type = task[u].msg.type /\ l.id = task[u].id
    BY <1>1, <1>4 DEF LogsThere
  <2> QED BY <1>2, <1>4, <2>1, TwoLogs DEF StyleLog
<1> SUFFICES ASSUME NEW t \in Tasks, NEW u \in Tasks, t # u, HasLogged(t)', HasLogged(u)',
                    task'[t].msg.type = "Style", task'[u].msg.type = "Style",
                    task'[t].id = task'[u].id
             PROVE  Twice(task'[t].id)
  BY DEF LoggedTwice, StyleLog
<1>5. /\ task[t].msg.type = "Style" /\ task[u].msg.type = "Style"
      /\ task[t].id = task[u].id /\ task'[t].id = task[t].id
  BY <1>3
<1>6. CASE HasLogged(t) /\ HasLogged(u)
  BY <1>1, <1>2, <1>5, <1>6 DEF LoggedTwice
<1>7. CASE ~HasLogged(t)
  <2>1. t = a /\ InsertLog(a) /\ HasLogged(u)
    BY <1>3, <1>7
  <2> HIDE DEF Twice
  <2> QED BY <1>4, <1>5, <2>1
<1>8. CASE ~HasLogged(u)
  <2>1. u = a /\ InsertLog(a) /\ HasLogged(t)
    BY <1>3, <1>8
  <2> HIDE DEF Twice
  <2> QED BY <1>4, <1>5, <2>1
<1> QED BY <1>6, <1>7, <1>8

\* A contested entry stays so.
LEMMA ContestedOn ==
  ASSUME OnlyCreates, Undisturbed, StyleInv, NEW a \in Tasks, StepBy(a),
         NEW t \in Tasks, task[t].msg.type = "Style", Contested(t),
         task'[t].msg = task[t].msg, task'[t].id = task[t].id
  PROVE  Contested(t)'
<1> DEFINE i == task[t].id
<1>1. TypeInv /\ LogsThere /\ LoggedTwice
  BY DEF StyleInv, TruthInv, OwnerInv
<1>2. log \subseteq log' /\ MovesAlone(a)
  BY <1>1, LogGrows, CreatorMoves
<1>3. ASSUME \E j, k \in log' : j # k /\ StyleLog(j, i) /\ StyleLog(k, i)
      PROVE  Contested(t)'
  BY <1>3 DEF Contested, StyleLog
<1>4. ASSUME NEW l \in log, StyleLog(l, i), ~HasLogged(t)
      PROVE  Contested(t)'
  <2>1. CASE ~HasLogged(t)'
    BY <1>2, <1>4, <2>1 DEF Contested, StyleLog
  <2>2. CASE HasLogged(t)'
    <3>1. t = a
      BY <1>2, <1>4, <2>2 DEF MovesAlone, HasLogged
    <3>2. InsertLog(a)
      BY <1>1, <1>4, <2>2, <3>1, ComesToLog
    <3> QED BY <1>2, <1>3, <1>4, <3>1, <3>2, TwoLogs
  <2> QED BY <2>1, <2>2
<1>5. ASSUME NEW u \in Tasks \ {t}, Touched(u, i)
      PROVE  Contested(t)'
  <2>1. CASE Touched(u, i)'
    BY <2>1 DEF Contested, Touched
  <2>2. CASE ~Touched(u, i)'
    <3>1. u = a
      BY <1>2, <1>5, <2>2 DEF MovesAlone, Touched, Holds
    <3>2. HasLogged(u)
      BY <1>5, <2>2, <3>1, TouchedOn
    <3>3. PICK l \in log : l.type = task[u].msg.type /\ l.id = task[u].id
      BY <1>1, <3>2 DEF LogsThere
    <3>4. StyleLog(l, i)
      BY <1>5, <3>3 DEF StyleLog, Touched
    <3>5. CASE HasLogged(t)
      BY <1>1, <1>2, <1>3, <1>5, <3>2, <3>5 DEF LoggedTwice, Touched
    <3> QED BY <1>4, <3>4, <3>5
  <2> QED BY <2>1, <2>2
<1>6. CASE \E j, k \in log : j # k /\ StyleLog(j, i) /\ StyleLog(k, i)
  BY <1>2, <1>3, <1>6
<1> QED BY <1>4, <1>5, <1>6 DEF Contested

\* Who changes the row of a style has inserted it, held it or renames it.
LEMMA StyleWrites ==
  ASSUME OnlyCreates, StyleInv, NEW a \in Tasks, StepBy(a),
         NEW i \in Ids, rows["Style"][i] # None, rows'["Style"][i] # rows["Style"][i]
  PROVE  Touched(a, i) \/ Touched(a, i)'
<1>1. TypeInv /\ TruthInv
  BY DEF StyleInv, TruthInv, OwnerInv
<1>2. "Style" \in Types /\ task[a] \in TaskState /\ task \in [Tasks -> TaskState]
  BY <1>1 DEF Types, TypeInv, TypeOK
<1>3. PICK r \in Row : Write(a, r)
  BY <1>1, WritesOwn
<1>4. task[a].msg.type = "Style" /\ task[a].id = i /\ Backing(a) # None
  BY <1>1, <1>2, <1>3, NoneAssumption, WritesRows DEF Backing
<1>5. Statement(a)
  BY DEF StepBy, Receive, Invalidate, Reply, StatementFails, HangUp
<1>6. \/ UpsertStyle(a)
      \/ CopyText(a) \/ SetText(a)
  BY <1>1, <1>4, <1>5, CreatorActions
     DEF NextEntryId, ReadSource, InsertLog, InsertRow, FetchStyle
<1>7. CASE UpsertStyle(a)
  <2>1. task' = [task EXCEPT ![a].upsert = "fetch"]
    BY <1>7 DEF UpsertStyle
  <2>2. task'[a].upsert = "fetch" /\ task'[a].msg = task[a].msg /\ task'[a].id = task[a].id
    BY <1>2, <2>1 DEF TaskState
  <2> QED BY <1>4, <2>2 DEF Touched
<1>8. CASE CopyText(a) \/ SetText(a)
  <2>1. task[a].pc \in {"copyText", "setText", "rewrite"} /\ Busy(a)
    BY <1>8 DEF CopyText, SetText, Busy
  <2>2. StepOK(task[a].msg, task[a].pc) /\ task[a].msg.op \in Creating
    BY <1>1, <2>1, CreatorSteps
  <2>3. Holds(a)
    BY <2>1, <2>2 DEF StepOK, Creating, Admin, Holds, Holding
  <2> QED BY <1>4, <2>3 DEF Touched
<1> QED BY <1>6, <1>7, <1>8

\* A row of styles that is new has its writer at work.
LEMMA StyleAppears ==
  ASSUME OnlyCreates, TruthInv, NEW a \in Tasks, StepBy(a),
         NEW i \in Ids, rows["Style"][i] = None, rows'["Style"][i] # None
  PROVE  Touched(a, i)' /\ InsertRow(a) /\ task[a].pc = "insertRow"
<1>1. TypeInv /\ "Style" \in Types
  BY DEF TruthInv, OwnerInv, Types
<1>2. /\ task[a].msg.type = "Style" /\ task[a].id = i
      /\ InsertRow(a) /\ Done(a)
  BY <1>1, RowInserted
<1>3. task[a].pc = "insertRow"
  BY <1>2, Inserting DEF InsertRow
<1>4. Holds(a)' /\ task'[a].msg = task[a].msg /\ task'[a].id = task[a].id
  BY <1>1, <1>2, <1>3, HeldFirst
<1> QED BY <1>2, <1>3, <1>4 DEF Touched

LEMMA TracedStep ==
  ASSUME OnlyCreates, Undisturbed, StyleInv, NEW a \in Tasks, StepBy(a)
  PROVE  Traced'
<1>1. TypeInv /\ TruthInv /\ LogsThere /\ Traced
  BY DEF StyleInv, TruthInv, OwnerInv
<1>2. log \subseteq log' /\ MovesAlone(a)
  BY <1>1, LogGrows, CreatorMoves
<1> SUFFICES ASSUME NEW i \in Ids, rows'["Style"][i] # None
             PROVE  (\E u \in Tasks : Touched(u, i)') \/ \E l \in log' : StyleLog(l, i)
  BY DEF Traced, StyleLog
<1>3. CASE rows["Style"][i] = None
  BY <1>1, <1>3, StyleAppears
<1>4. ASSUME NEW l \in log, StyleLog(l, i)
      PROVE  \E k \in log' : StyleLog(k, i)
  BY <1>2, <1>4
<1>5. ASSUME NEW u \in Tasks, Touched(u, i), ~Touched(u, i)'
      PROVE  \E k \in log' : StyleLog(k, i)
  <2>1. u = a
    BY <1>2, <1>5 DEF MovesAlone, Touched, Holds
  <2>2. HasLogged(u)
    BY <1>5, <2>1, TouchedOn
  <2>3. PICK l \in log : l.type = task[u].msg.type /\ l.id = task[u].id
    BY <1>1, <2>2 DEF LogsThere
  <2> QED BY <1>4, <1>5, <2>3 DEF StyleLog, Touched
<1>6. CASE rows["Style"][i] # None
  BY <1>1, <1>4, <1>5, <1>6 DEF Traced
<1> QED BY <1>3, <1>6

\* The UPDATE of create_style is reached by finding a row, and that row stays.
LEMMA UpsertStep ==
  ASSUME OnlyCreates, Undisturbed, StyleInv, NEW a \in Tasks, StepBy(a),
         NEW t \in Tasks, task'[t].upsert # "insert"
  PROVE  Backing(t)' # None
<1>1. TypeInv /\ TruthInv
  BY DEF StyleInv, TruthInv, OwnerInv
<1>2. /\ MovesAlone(a)
      /\ task \in [Tasks -> TaskState] /\ task[a] \in TaskState /\ TaskOK(task[a])
      /\ task[t].msg.type \in Types /\ task[t].id \in Ids
  BY <1>1, CreatorMoves, WritesTyped DEF TypeInv, TypeOK
<1>3. ASSUME Backing(t) # None, task'[t].msg = task[t].msg, task'[t].id = task[t].id
      PROVE  Backing(t)' # None
  BY <1>1, <1>2, <1>3, RowsStay DEF Backing
<1>4. CASE t # a
  <2>1. task'[t] = task[t]
    BY <1>2, <1>4 DEF MovesAlone
  <2> QED BY <1>3, <2>1 DEF StyleInv
<1>5. CASE t = a
  <2>1. ASSUME NEW x, Goto(a, x)
        PROVE  task'[a].upsert = "insert"
    BY <1>2, <2>1 DEF Goto, Idle, TaskState
  <2>2. ~Done(a) /\ ~Fail(a) /\ ~HangUp(a)
    BY <1>5, <2>1 DEF Done, Fail, HangUp
  <2>3. ~ \E m \in Messages : Receive(a, m)
    BY <1>2, <1>5 DEF Receive
  <2>4. Statement(a)
    BY <2>2, <2>3 DEF StepBy, Undisturbed, Invalidate, Reply, StatementFails
  <2>5. ~SetText(a) /\ ~CopyText(a) /\ ~InsertLog(a) /\ ~FetchStyle(a)
    BY <1>5, <2>1, <2>2 DEF SetText, CopyText, InsertLog, FetchStyle
  <2>6. CASE NextEntryId(a) \/ ReadSource(a)
    <3>1. task[a].upsert = "insert"
      BY <1>2, <2>6 DEF NextEntryId, ReadSource, TaskState, TaskOK, InsertSteps
    <3> QED BY <1>2, <1>5, <2>2, <2>6, <3>1 DEF NextEntryId, ReadSource, TaskState
  <2>7. CASE InsertRow(a)
    <3>1. Backing(a) # None /\ task' = [task EXCEPT ![a].upsert = "update"]
      BY <2>2, <2>7 DEF InsertRow
    <3> QED BY <1>2, <1>3, <1>5, <3>1 DEF TaskState
  <2>8. CASE UpsertStyle(a)
    <3>1. task[a].upsert = "update" /\ task' = [task EXCEPT ![a].upsert = "fetch"]
      BY <2>8 DEF UpsertStyle
    <3>2. Backing(a) # None
      BY <3>1 DEF StyleInv
    <3> QED BY <1>2, <1>3, <1>5, <3>1, <3>2 DEF TaskState
  <2> QED BY <1>1, <2>4, <2>5, <2>6, <2>7, <2>8, CreatorActions
<1> QED BY <1>4, <1>5

\* What a handler of a style knows of the row of its id.
Told(t) == (Holds(t) /\ Fruit(t)) \/ Contested(t)

\* Another handler's step leaves it its own entry, or contests it.
LEMMA ToldByOthers ==
  ASSUME OnlyCreates, Undisturbed, StyleInv, NEW a \in Tasks, StepBy(a),
         NEW t \in Tasks, t # a, Drawn(t)', Backing(t)' # None
  PROVE  Told(t)'
<1>1. TypeInv /\ TruthInv
  BY DEF StyleInv, TruthInv, OwnerInv
<1>2. task'[t] = task[t] /\ Drawn(t) /\ task[t].id \in Ids
  BY <1>1, CreatorMoves, WritesTyped DEF MovesAlone, Drawn, Busy
<1>3. task[t].msg.type = "Style"
  BY <1>2 DEF Drawn
<1>4. Backing(t) = rows["Style"][task[t].id] /\ Backing(t)' = rows'["Style"][task[t].id]
  BY <1>2, <1>3 DEF Backing
<1>5. Touched(a, task[t].id)' => Contested(t)'
  BY <1>2 DEF Contested
<1>6. Contested(t) => Contested(t)'
  BY <1>2, <1>3, ContestedOn
<1>7. CASE Backing(t) = None
  BY <1>1, <1>2, <1>4, <1>5, <1>7, StyleAppears DEF Told
<1>8. CASE Backing(t) # None /\ Backing(t)' = Backing(t)
  <2>1. Fruit(t) => Fruit(t)'
    BY <1>2, <1>8 DEF Fruit, Bare, Announced
  <2>2. Holds(t) => Holds(t)'
    BY <1>2 DEF Holds
  <2>3. (Holds(t) /\ Fruit(t)) \/ Contested(t)
    BY <1>2, <1>8 DEF StyleInv
  <2> QED BY <1>6, <2>1, <2>2, <2>3 DEF Told
<1>9. CASE Backing(t) # None /\ Backing(t)' # Backing(t)
  <2>1. Touched(a, task[t].id) \/ Touched(a, task[t].id)'
    BY <1>2, <1>4, <1>9, StyleWrites
  <2>2. Touched(a, task[t].id) => Contested(t)
    BY DEF Contested
  <2> QED BY <1>5, <1>6, <2>1, <2>2 DEF Told
<1> QED BY <1>7, <1>8, <1>9

\* A handler that draws an id whose row is there is contested from then on.
LEMMA ToldDrawing ==
  ASSUME OnlyCreates, StyleInv, NEW a \in Tasks, NextEntryId(a),
         Drawn(a)', Backing(a)' # None
  PROVE  Told(a)'
<1>1. TypeInv /\ TaskOK(task[a]) /\ task \in [Tasks -> TaskState] /\ Busy(a)
  BY DEF StyleInv, TruthInv, OwnerInv, TypeInv, TypeOK, NextEntryId, Busy
<1>2. /\ log' = log /\ rows' = rows /\ MovesAlone(a)
      /\ task'[a].msg = task[a].msg /\ task[a].pc = "nextId"
      /\ task'[a].pc = After(task[a].msg, "nextId")
      /\ task'[a].id = NextId
  BY <1>1 DEF NextEntryId, MovesAlone, TaskState
<1>3. NextId \in Ids
  BY <1>1, NextIdTyped DEF TypeInv, TypeOK
<1>4. task[a].msg.op \in Creating /\ task[a].msg.type = "Style"
  BY <1>1, <1>2, CreatorSteps DEF Drawn
<1>5. ~HasLogged(a)'
  BY <1>2, <1>4
     DEF HasLogged, Logging, After, CreateNext, DuplicateNext, ImportNext, Creating, Admin
<1>6. rows["Style"][NextId] # None
  BY <1>2, <1>4 DEF Backing
<1>7. ASSUME NEW l \in log, StyleLog(l, NextId)
      PROVE  Contested(a)'
  BY <1>2, <1>5, <1>7 DEF Contested, StyleLog
<1>8. ASSUME NEW u \in Tasks, Touched(u, NextId)
      PROVE  Contested(a)'
  <2>1. ~Holds(a) /\ task[a].upsert # "fetch"
    BY <1>1, <1>2 DEF Holds, Holding, TaskOK, InsertSteps
  <2>2. u # a
    BY <1>8, <2>1 DEF Touched
  <2>3. task'[u] = task[u]
    BY <1>2, <2>2 DEF MovesAlone
  <2>4. Touched(u, task[a].id)'
    BY <1>2, <1>8, <2>3 DEF Touched, Holds
  <2> QED BY <2>2, <2>4 DEF Contested
<1> QED BY <1>3, <1>6, <1>7, <1>8 DEF StyleInv, Traced, Told

\* Its own step leaves a handler its entry, or contested.
LEMMA ToldByOneself ==
  ASSUME OnlyCreates, Undisturbed, StyleInv, NEW a \in Tasks, StepBy(a),
         Drawn(a)', Backing(a)' # None
  PROVE  Told(a)'
<1>1. TypeInv /\ TruthInv
  BY DEF StyleInv, TruthInv, OwnerInv
<1>2. /\ task'[a].msg = task[a].msg /\ Busy(a)
      /\ task[a].pc # "nextId" => task'[a].id = task[a].id
  BY <1>1, CreatorMoves DEF Drawn, Busy
<1>3. CASE task[a].pc = "nextId"
  <2>1. task[a].upsert = "insert"
    BY <1>1, <1>3 DEF TypeInv, TaskOK, InsertSteps
  <2>2. ~HangUp(a) /\ ~StatementFails(a) /\ ~ \E n \in Messages : Receive(a, n)
    BY <1>2 DEF Undisturbed, HangUp, StatementFails, Receive
  <2>3. NextEntryId(a)
    BY <1>1, <1>3, <2>1, <2>2, CreatorActions
       DEF StepBy, ReadSource, InsertLog, InsertRow, UpsertStyle, FetchStyle, CopyText,
           SetText, InsertSteps, Invalidate, Reply
  <2> QED BY <2>3, ToldDrawing
<1>4. CASE task[a].pc # "nextId"
  <2>1. /\ task'[a].id = task[a].id /\ task[a].id \in Ids
        /\ task[a].msg.type = "Style" /\ Drawn(a)
    BY <1>1, <1>2, <1>4, WritesTyped DEF Drawn
  <2>2. Backing(a) = rows["Style"][task[a].id] /\ Backing(a)' = rows'["Style"][task[a].id]
    BY <1>2, <2>1 DEF Backing
  <2>3. CASE Backing(a) = None
    <3>1. Touched(a, task[a].id)' /\ InsertRow(a) /\ task[a].pc = "insertRow"
      BY <1>1, <2>1, <2>2, <2>3, StyleAppears
    <3>2. Done(a)
      BY <2>3, <3>1 DEF InsertRow
    <3>3. Holds(a)'
      BY <1>1, <3>1, <3>2, HeldFirst
    <3>4. Fruit(a)'
      BY <1>1, <2>3, <3>1, <3>3, OwnFruit
    <3> QED BY <3>3, <3>4 DEF Told
  <2>4. CASE Backing(a) # None /\ Contested(a)
    BY <1>2, <2>1, <2>4, ContestedOn DEF Told
  <2>5. CASE Holds(a) /\ Fruit(a)
    <3>1. task[a].pc # "reply"
      BY <1>1, <2>5, HeldOn DEF Drawn, Busy
    <3>2. Holds(a)'
      BY <1>1, <2>5, <3>1, HeldOn
    <3>3. Fruit(a)'
      BY <1>1, <2>5, <3>2, OwnFruit
    <3> QED BY <3>2, <3>3 DEF Told
  <2> QED BY <2>1, <2>3, <2>4, <2>5 DEF StyleInv
<1> QED BY <1>3, <1>4

LEMMA StyleStep ==
  ASSUME OnlyCreates, Undisturbed, StyleInv, [Next]_vars
  PROVE  StyleInv'
<1>1. TruthInv'
  BY TruthStep DEF StyleInv
<1>2. ASSUME NEW a \in Tasks, StepBy(a)
      PROVE  StyleInv'
  <2>1. ASSUME NEW t \in Tasks, Drawn(t)', Backing(t)' # None
        PROVE  (Holds(t)' /\ Fruit(t)') \/ Contested(t)'
    <3>1. CASE t = a
      BY <1>2, <2>1, <3>1, ToldByOneself DEF Told
    <3>2. CASE t # a
      BY <1>2, <2>1, <3>2, ToldByOthers DEF Told
    <3> QED BY <3>1, <3>2
  <2>2. \A t \in Tasks : task'[t].upsert # "insert" => Backing(t)' # None
    BY <1>2, UpsertStep
  <2>3. Traced' /\ LoggedTwice'
    BY <1>2, TracedStep, TwiceStep
  <2> QED BY <1>1, <2>1, <2>2, <2>3 DEF StyleInv
<1>3. CASE UNCHANGED vars
  BY <1>1, <1>3
     DEF vars, StyleInv, Traced, Touched, LoggedTwice, HasLogged, Holds, Backing, Drawn,
         Busy, Fruit, Bare, Announced, Contested
<1>4. ~Crash
  BY DEF Undisturbed, Crash
<1> QED BY <1>2, <1>3, <1>4, NextIsStep

LEMMA StyleInit == Init => StyleInv
BY TruthInit
   DEF Init, StyleInv, Traced, LoggedTwice, HasLogged, Logging, Idle, NoMessage, Drawn, Busy,
       Types

\* Whoever creates, duplicates and imports at the same time, while nothing
\* fails, hangs up or crashes: the row of a style that is announced holds
\* what is announced, unless another handler has made a style under the same
\* id, and then that handler is still at work or both log rows are there.
THEOREM StylesTold ==
  ASSUME OnlyCreates, Undisturbed PROVE Spec => []StyleReply
<1>1. StyleInv => StyleReply
  <2> SUFFICES ASSUME StyleInv, NEW t \in Tasks, task[t].pc = "reply",
                      task[t].msg.type = "Style", Backing(t) # Announced(t)
               PROVE  \/ \E u \in Tasks \ {t} :
                           /\ task[u].msg.type = "Style" /\ task[u].id = task[t].id
                           /\ Holds(u) \/ task[u].upsert = "fetch"
                      \/ \E k, l \in log :
                           /\ k # l /\ k.type = "Style" /\ l.type = "Style"
                           /\ k.id = task[t].id /\ l.id = task[t].id
    BY DEF StyleReply
  <2>1. StepOK(task[t].msg, task[t].pc) /\ task[t].msg.op \in Creating
    BY CreatorSteps DEF StyleInv, TruthInv, OwnerInv, Busy
  <2>2. Holds(t) /\ HasLogged(t)
    BY <2>1 DEF StepOK, Creating, Holds, Holding, HasLogged, Logging
  <2>3. Drawn(t) /\ Backing(t) # None
    BY <2>2 DEF Drawn, Busy, StyleInv, TruthInv, OwnerInv
  <2>4. ~Fruit(t)
    <3>1. ~Faulty
      BY DEF Undisturbed
    <3> QED BY <3>1 DEF Fruit
  <2>5. Contested(t)
    BY <2>3, <2>4 DEF StyleInv
  <2> QED BY <2>2, <2>5 DEF Contested, Touched, StyleLog
<1> QED BY <1>1, StyleInit, StyleStep, PTL DEF Spec

-----------------------------------------------------------------------------
(* Log rows have their entries behind them. *)

\* Duplicate and import insert the row first, and a delete may come in
\* between; an administrator's log row has none.
OnlyEdits == \A m \in Messages : m.op \in {"create", "update", "delete", "type7"}

\* Task t will insert the row of a type and an id, or delete the log rows.
\* (A create_style that has found a row is past the first.)
Excuses(t, ty, i) ==
  /\ task[t].id = i
  /\ \/ task[t].pc = "deleteLog"
     \/ /\ task[t].msg.op = "create" /\ task[t].msg.type = ty
        /\ task[t].pc = "insertRow" /\ task[t].upsert = "insert"

BackedInv ==
  /\ TypeInv
  /\ \A l \in log :
       rows[l.type][l.id] # None \/ \E t \in Tasks : Excuses(t, l.type, l.id)

\* A row goes away only by a handler that will delete the log rows next.
LEMMA RowGoes ==
  ASSUME OnlyEdits, TypeInv, NEW a \in Tasks, StepBy(a),
         NEW ty \in Types, NEW i \in Ids, rows[ty][i] # None, rows'[ty][i] = None
  PROVE  Excuses(a, ty, i)'
<1>1. Statement(a)
  BY DEF StepBy, Receive, Invalidate, Reply, StatementFails, HangUp
<1>2. task[a].msg.type \in Types /\ task[a].id \in Ids /\ TaskOK(task[a])
  BY WritesTyped DEF TypeInv
<1>3. task[a].pc = "deleteRow"
  <2> SUFFICES ASSUME task[a].pc # "deleteRow" PROVE FALSE
    OBVIOUS
  <2>1. PICK r \in Row : Write(a, r)
    BY <1>1, StatementWrites
  <2> QED BY <2>1, NoneAssumption, WritesRows
<1>4. Write(a, None) /\ Done(a)
  BY <1>1, <1>2, <1>3
     DEF Statement, NextEntryId, ReadSource, InsertLog, InsertRow, UpsertStyle, FetchStyle,
         CopyText, TouchLog, Rename, SetText, DeleteRow, DeleteLog, SetBlob, AdminLog,
         InsertSteps, TaskOK
<1>5. i = task[a].id
  BY <1>2, <1>4 DEF Write, TypeInv, TypeOK
<1>6. task[a].msg.op = "delete"
  BY <1>2, <1>3 DEF TaskOK, StepOK
<1>7. After(task[a].msg, task[a].pc) = "deleteLog"
  BY <1>3, <1>6 DEF After, DeleteNext, Admin
<1> QED BY <1>4, <1>5, <1>7, GotoMoves DEF Done, Excuses

\* A handler that was to bring a row or take the log rows away has done it.
LEMMA ExcuseKept ==
  ASSUME OnlyEdits, ~Faulty, ~Crashes, TypeInv, NEW a \in Tasks, StepBy(a),
         NEW ty \in Types, NEW i \in Ids, Excuses(a, ty, i)
  PROVE  \/ rows'[ty][i] # None
         \/ \A l \in log' : l.id # i
         \/ Excuses(a, ty, i)'
<1>1. /\ task[a].msg.type \in Types /\ task[a].id \in Ids /\ TaskOK(task[a])
      /\ Busy(a) /\ i = task[a].id
  BY WritesTyped DEF TypeInv, Excuses, Busy
<1>2. CASE task[a].pc = "deleteLog"
  <2>1. task[a].upsert = "insert"
    BY <1>1, <1>2 DEF TaskOK, InsertSteps
  <2>2. DeleteLog(a)
    BY <1>1, <1>2, <2>1
       DEF StepBy, Receive, StatementFails, HangUp, Statement, NextEntryId, ReadSource,
           InsertLog, InsertRow, UpsertStyle, FetchStyle, CopyText, TouchLog, Rename,
           SetText, DeleteRow, SetBlob, AdminLog, Invalidate, Reply, InsertSteps
  <2> QED BY <1>1, <2>2 DEF DeleteLog
<1>3. CASE task[a].pc = "insertRow" /\ task[a].upsert = "insert" /\ task[a].msg.type = ty
  <2>1. InsertRow(a)
    BY <1>1, <1>3
       DEF StepBy, Receive, StatementFails, HangUp, Statement, NextEntryId, ReadSource,
           InsertLog, UpsertStyle, FetchStyle, CopyText, TouchLog, Rename,
           SetText, DeleteRow, DeleteLog, SetBlob, AdminLog, Invalidate, Reply
  <2>2. CASE Backing(a) # None
    BY <1>1, <1>3, <2>1, <2>2 DEF InsertRow, Backing
  <2>3. CASE Backing(a) = None
    <3>1. Write(a, [name |-> task[a].name, content |-> Empty])
      BY <1>3, <2>1, <2>3 DEF InsertRow
    <3>2. [name |-> task[a].name, content |-> Empty] \in Row
      BY <1>3, NoneAssumption, WritesTyped DEF Row
    <3> QED BY <1>1, <1>3, <3>1, <3>2, NoneAssumption, WritesRows
  <2> QED BY <2>2, <2>3
<1> QED BY <1>2, <1>3 DEF Excuses

\* A log row that was not there is that of a create that inserts next.
LEMMA LogAppears ==
  ASSUME OnlyEdits, TypeInv, NEW a \in Tasks, StepBy(a), NEW l \in log'
  PROVE  \/ \E k \in log : k.type = l.type /\ k.id = l.id
         \/ Excuses(a, l.type, l.id)'
<1>1. CASE InsertLog(a)
  <2>1. PICK u \in FreeUuids, now \in Times :
          log' = log \cup {[uid |-> u, type |-> task[a].msg.type, id |-> task[a].id,
                            ts |-> now]}
    BY <1>1 DEF InsertLog, AddLog
  <2>2. task[a].pc = "insertLog" /\ Done(a) /\ TaskOK(task[a])
    BY <1>1 DEF InsertLog, TypeInv
  <2>3. task[a].msg.op = "create"
    BY <2>2 DEF TaskOK, StepOK, OnlyEdits, Admin
  <2>4. After(task[a].msg, task[a].pc) = "insertRow"
    BY <2>2, <2>3 DEF After, CreateNext, Admin
  <2>5. task'[a] = [task[a] EXCEPT !.pc = "insertRow", !.upsert = "insert"]
    BY <2>2, <2>4 DEF Done, Goto, TypeInv, TypeOK
  <2>6. /\ task'[a].pc = "insertRow" /\ task'[a].upsert = "insert"
        /\ task'[a].msg = task[a].msg /\ task'[a].id = task[a].id
    BY <2>5 DEF TypeInv, TypeOK, TaskState
  <2> QED BY <2>1, <2>3, <2>6 DEF Excuses
<1>2. CASE TouchLog(a)
  <2>1. \A k \in log : [k EXCEPT !.ts = task[a].msg.ts].type = k.type
                       /\ [k EXCEPT !.ts = task[a].msg.ts].id = k.id
    BY DEF TypeInv, TypeOK, LogRow
  <2> QED BY <1>2, <2>1 DEF TouchLog
<1>3. ~AdminLog(a)
  BY DEF AdminLog, TypeInv, TaskOK, StepOK, OnlyEdits, Admin
<1>4. CASE DeleteLog(a)
  BY <1>4 DEF DeleteLog
<1>5. CASE ~InsertLog(a) /\ ~TouchLog(a) /\ ~DeleteLog(a)
  <2>1. log' = log
    BY <1>3, <1>5
       DEF StepBy, Receive, StatementFails, HangUp, Statement, NextEntryId, ReadSource,
           InsertRow, UpsertStyle, FetchStyle, CopyText, Rename, SetText, DeleteRow,
           SetBlob, Invalidate, Reply
  <2> QED BY <2>1
<1> QED BY <1>1, <1>2, <1>4, <1>5

LEMMA BackedStep ==
  ASSUME OnlyEdits, ~Faulty, ~Crashes, BackedInv, [Next]_vars
  PROVE  BackedInv'
<1>1. TypeInv /\ TypeInv'
  BY TypeStep DEF BackedInv
<1>2. ASSUME NEW a \in Tasks, StepBy(a)
      PROVE  BackedInv'
  <2>1. MovesAlone(a)
    BY <1>1, <1>2, TaskKeeps DEF StepBy
  <2>2. ASSUME NEW l \in log'
        PROVE  rows'[l.type][l.id] # None \/ \E t \in Tasks : Excuses(t, l.type, l.id)'
    <3>0. l.type \in Types /\ l.id \in Ids
      BY <1>1, <2>2 DEF TypeInv, TypeOK, LogRow
    <3>1. CASE \E k \in log : k.type = l.type /\ k.id = l.id
      <4>1. CASE rows[l.type][l.id] # None
        BY <1>1, <1>2, <3>0, <4>1, RowGoes
      <4>2. ASSUME NEW t \in Tasks, Excuses(t, l.type, l.id)
            PROVE  rows'[l.type][l.id] # None \/ \E u \in Tasks : Excuses(u, l.type, l.id)'
        <5>1. CASE t = a
          BY <1>1, <1>2, <2>2, <3>0, <4>2, <5>1, ExcuseKept
        <5>2. CASE t # a
          BY <2>1, <4>2, <5>2 DEF MovesAlone, Excuses
        <5> QED BY <5>1, <5>2
      <4> QED BY <3>1, <4>1, <4>2 DEF BackedInv
    <3>2. CASE Excuses(a, l.type, l.id)'
      BY <3>2
    <3> QED BY <1>1, <1>2, <2>2, <3>1, <3>2, LogAppears
  <2> QED BY <1>1, <2>2 DEF BackedInv
<1>3. CASE UNCHANGED vars
  BY <1>1, <1>3 DEF vars, BackedInv, Excuses
<1> QED
  <2>1. ~Crash
    BY DEF Crash
  <2>2. CASE Next
    BY <1>2, <2>1, <2>2, NextIsStep
  <2> QED BY <2>2, <1>3

LEMMA BackedInit == Init => BackedInv
BY TypeInit DEF Init, BackedInv

\* While no statement fails and the process lives on, every log row has its
\* backing row, whichever handlers create, update and delete at the same
\* time, or a handler is about to put that right.
THEOREM LogsBacked ==
  ASSUME OnlyEdits, ~Faulty, ~Crashes PROVE Spec => []LogBacked
<1>1. BackedInv => LogBacked
  BY DEF BackedInv, Excuses, LogBacked
<1> QED BY <1>1, BackedInit, BackedStep, PTL DEF Spec
=============================================================================
