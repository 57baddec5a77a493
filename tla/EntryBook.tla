------------------------------- MODULE EntryBook -------------------------------
(***************************************************************************)
(* What an account's client is promised: a book of entries, each a name, a *)
(* content and a timestamp under a type and an id.  The client asks, and   *)
(* what it asked, that and nothing else, is done at once and as a whole    *)
(* before it may ask again.  EntrySerial shows that the handlers of        *)
(* EntryStore keep this promise for a client that waits for each message   *)
(* to finish and speaks of entries that exist.                             *)
(***************************************************************************)
EXTENDS Integers, FiniteSetsExt

CONSTANTS Messages, MaxId, Names, Contents, Times, Empty, None

VARIABLES
  book,   \* the entries, under their type and id
  asked   \* the message that is to be done, or None

Types == {"Config", "Script", "Style"}

Ids == (-MaxId - 1) .. MaxId

Entry == [name : Names, content : Contents, ts : Times]

Init ==
  /\ book = [ty \in Types |-> [i \in Ids |-> None]]
  /\ asked = None

Used == {i \in Ids : \E ty \in Types : book[ty][i] # None}

\* Ids count up from 1, over all types together.
NewId == Max(Used \cup {0}) + 1

Put(ty, i, e) == book' = [book EXCEPT ![ty][i] = e]

\* A new entry, made by the client or imported from a share.
Create(m) ==
  /\ m.op \in {"create", "import"} /\ NewId \in Ids
  /\ \E now \in Times :
       Put(m.type, NewId,
           [name    |-> m.name,
            content |-> IF m.content = None THEN Empty ELSE m.content,
            ts      |-> now])

Duplicate(m) ==
  LET source == book[m.type][m.id] IN
  /\ m.op = "duplicate" /\ source # None /\ NewId \in Ids
  /\ \E now \in Times :
       Put(m.type, NewId,
           [name    |-> IF m.name \in {None, Empty} THEN source.name ELSE m.name,
            content |-> source.content,
            ts      |-> now])

\* What the message does not give stays as it is.
Update(m) ==
  LET old == book[m.type][m.id]
      Given(new, present) == IF new = None THEN present ELSE new
  IN
  /\ m.op = "update" /\ old # None
  /\ Put(m.type, m.id,
         [name    |-> Given(m.name, old.name),
          content |-> Given(m.content, old.content),
          ts      |-> Given(m.ts, old.ts)])

Delete(m) ==
  /\ m.op = "delete" /\ book[m.type][m.id] # None
  /\ Put(m.type, m.id, None)

\* The type-7 blob is not among the entries.
StoreBlob(m) == m.op = "type7" /\ UNCHANGED book

Operation(m) == Create(m) \/ Duplicate(m) \/ Update(m) \/ Delete(m) \/ StoreBlob(m)

Ask(m) == asked = None /\ asked' = m /\ UNCHANGED book

Perform == asked # None /\ asked' = None /\ Operation(asked)

Next == Perform \/ \E m \in Messages : Ask(m)

Spec == Init /\ [][Next]_<<book, asked>>

=============================================================================
