------------------------------ MODULE EntrySerial ------------------------------
(***************************************************************************)
(* EntryStore with one well-behaved client: the next message comes when    *)
(* the last one is finished, and an update, duplicate or delete names an   *)
(* entry of the account by its own type and id.  No statement fails and    *)
(* the process lives on.  Under this discipline the handlers, which take   *)
(* up to seven statements each, implement the operations of EntryBook,     *)
(* each of which does what was asked in one step.                          *)
(***************************************************************************)
EXTENDS EntryStore

ASSUME EntryNoneAssumption ==
  None \notin [name : Names, content : Contents, ts : Times] \cup Messages

VARIABLE settled   \* history: the entries when the last message was finished

\* The entries that the tables hold: each log row joined with the row of its
\* own table behind it.  (What a connection is shown of them is in
\* ModuleCache, and is less.)
Joined ==
  [ty \in Types |-> [i \in Ids |->
     LET its == {l \in log : l.type = ty /\ l.id = i} IN
     IF its = {} \/ rows[ty][i] = None THEN None
     ELSE [name    |-> rows[ty][i].name,
           content |-> rows[ty][i].content,
           ts      |-> (CHOOSE l \in its : TRUE).ts]]]

\* What the client sends.  Bound: it stops creating when the ids are used up.
WellFormed(m) ==
  /\ m.op \notin Admin
  /\ m.op \in Creating => LastId < MaxId
  /\ m.op \in {"duplicate", "update", "delete"} => settled[m.type][m.id] # None

SerialInit == Init /\ settled = Joined

SerialNext ==
  /\ \E t \in Tasks :
       \/ Quiescent /\ \E m \in Messages : WellFormed(m) /\ Receive(t, m)
       \/ Statement(t) \/ Invalidate(t) \/ Reply(t)
  /\ settled' = IF Quiescent' THEN Joined' ELSE settled

SerialSpec == SerialInit /\ [][SerialNext]_<<vars, settled>>

-----------------------------------------------------------------------------

\* The message that is being handled: one at a time, under SerialNext.
Asked == IF Quiescent THEN None ELSE task[CHOOSE t \in Tasks : Busy(t)].msg

Promise == INSTANCE EntryBook WITH book <- settled, asked <- Asked

\* Each handler, run to its end, has done to the account's entries exactly
\* what EntryBook's operation for the message it was given does: not less,
\* nothing else, and nothing that another message would (a type-7 blob
\* leaves the entries as they are).
KeepsPromise == Promise!Spec

\* Between messages the tables agree: an id belongs to one entry, and that
\* entry has its log row and its backing row and no other table has one.
Consistent ==
  Quiescent =>
    /\ \A k, l \in log : k.id = l.id => k = l
    /\ \A ty \in Types, i \in Ids :
         rows[ty][i] # None <=> \E l \in log : l.type = ty /\ l.id = i

=============================================================================
