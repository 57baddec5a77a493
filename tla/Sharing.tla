-------------------------------- MODULE Sharing --------------------------------
(***************************************************************************)
(* Share codes (http.rs, db.rs) on top of the accounts: a code names an    *)
(* item by its uuid, the item comes and goes under it, and every handler   *)
(* is a few statements that others run between.  A request here is one of  *)
(* Accounts' requests, so a crash drops it and keeps the tables.           *)
(*                                                                         *)
(* An item is a row of scripts, configs or styles: its uuid stands for the *)
(* table too, and its text is left out.  Uuids are not repeated and        *)
(* compare by value; a share code is short and drawn at random, so it may  *)
(* be drawn again once it is free.                                         *)
(***************************************************************************)
EXTENDS Accounts

CONSTANTS
  Uuids,   \* the ids of items
  Codes    \* share codes

ASSUME CodesAssumption == None \notin Uuids \cup Codes

VARIABLES
  items,     \* the owner of each item, or None
  born,      \* history: the uuids used so far
  codes,     \* share_codes: each code's owner and item, or None
  overtaken  \* history: the requests whose code another deleted after they
             \* had looked at its owner

shareVars == <<items, born, codes, overtaken>>
vars == <<accountVars, shareVars>>

SharingInit ==
  /\ Init
  /\ items = [u \in Uuids |-> None]
  /\ born = {}
  /\ codes = [c \in Codes |-> None]
  /\ overtaken = {}

Asks(n, next, about) == [Idle EXCEPT !.pc = next, !.name = n, !.about = about]

NewItem(n) ==
  \E u \in Uuids \ born :
    /\ items' = [items EXCEPT ![u] = n]
    /\ born' = born \cup {u}

-----------------------------------------------------------------------------
(* What the entry handlers do to items: EntryStore has their statements. *)

CreateItem(t) ==
  /\ life = "serving" /\ Resolve(t) # None
  /\ NewItem(Resolve(t))
  /\ UNCHANGED <<accountVars, codes, overtaken>>

DeleteItem(t) ==
  /\ life = "serving" /\ Resolve(t) # None
  /\ \E u \in Uuids :
       /\ items[u] = Resolve(t)
       /\ items' = [items EXCEPT ![u] = None]
  /\ UNCHANGED <<accountVars, born, codes, overtaken>>

-----------------------------------------------------------------------------
(* share_handler. *)

\* Mutant: the item is looked for among all.
OwnsAny(n, u) == items[u] # None

\* The item is looked for among the account's own.
Owns(n, u) == items[u] = n

Share(r, t, u) ==
  LET n == Resolve(t) IN
  /\ Handle(r, "idle", IF n # None /\ Owns(n, u) THEN Asks(n, "insertCode", u) ELSE Refused)
  /\ UNCHANGED <<bootVars, seedOk, users, bases, told, shareVars>>

\* create_share_code: share_code is unique, so a code that is taken is drawn
\* again, up to five times.
Drawable == {c \in Codes : codes[c] = None}

InsertCode(r) ==
  /\ req[r].pc = "insertCode"
  /\ \/ \E c \in Drawable :
          /\ codes' = [codes EXCEPT ![c] = [owner |-> req[r].name, item |-> req[r].about]]
          /\ Handle(r, "insertCode", Idle)
     \/ Handle(r, "insertCode", Refused) /\ UNCHANGED codes
  /\ UNCHANGED <<bootVars, seedOk, users, bases, told, items, born, overtaken>>

-----------------------------------------------------------------------------
(* unshare_handler. *)

\* Mutant: the owner is not compared.
MayUnshareAny(n, c) == codes[c] # None

\* get_share_code and the comparison of the owner.
MayUnshare(n, c) == codes[c] # None /\ codes[c].owner = n

Unshare(r, t, c) ==
  LET n == Resolve(t) IN
  /\ Handle(r, "idle", IF n # None /\ MayUnshare(n, c) THEN Asks(n, "deleteCode", c)
                                                       ELSE Refused)
  /\ overtaken' = overtaken \ {r}
  /\ UNCHANGED <<bootVars, seedOk, users, bases, told, items, born, codes>>

\* Request r has found that it may delete code c.
Deletes(r, c) == req[r].pc = "deleteCode" /\ req[r].about = c

\* delete_share_code goes by the code alone.
DeleteCode(r) ==
  LET c == req[r].about IN
  /\ Handle(r, "deleteCode", Idle)
  /\ codes' = [codes EXCEPT ![c] = None]
  /\ overtaken' = (overtaken \cup {q \in Requests : Deletes(q, c)}) \ {r}
  /\ UNCHANGED <<bootVars, seedOk, users, bases, told, items, born>>

-----------------------------------------------------------------------------
(* import_to_account_handler and shared_handler. *)

\* get_share_code, the first half of get_shared_item; shared_handler asks for
\* no account.
FetchCode(r, n, c) ==
  /\ Handle(r, "idle", IF codes[c] = None THEN Refused ELSE Asks(n, "fetchItem", codes[c]))
  /\ UNCHANGED <<bootVars, seedOk, users, bases, told, shareVars>>

\* The second half: the row is read by its uuid, whoever owns it.
FetchItem(r) ==
  LET u == req[r].about.item IN
  /\ req[r].pc = "fetchItem"
  /\ Handle(r, "fetchItem",
            IF items[u] = None THEN Refused
            ELSE IF req[r].name = None THEN Idle ELSE [req[r] EXCEPT !.pc = "copy"])
  /\ UNCHANGED <<bootVars, seedOk, users, bases, told, shareVars>>

\* The rest of the import, from the first of its inserts.
CopyItem(r) ==
  /\ Handle(r, "copy", Idle)
  /\ NewItem(req[r].name)
  /\ UNCHANGED <<bootVars, seedOk, users, bases, told, codes, overtaken>>

-----------------------------------------------------------------------------
(* Specification. *)

Sharer(r) ==
  \/ \E t \in Tokens, u \in Uuids : Share(r, t, u)
  \/ \E t \in Tokens, c \in Codes :
       \/ Unshare(r, t, c)
       \/ Resolve(t) # None /\ FetchCode(r, Resolve(t), c)
  \/ \E c \in Codes : FetchCode(r, None, c)
  \/ InsertCode(r) \/ DeleteCode(r) \/ FetchItem(r) \/ CopyItem(r)

SharingNext ==
  \/ Next /\ UNCHANGED shareVars
  \/ \E t \in Tokens : CreateItem(t) \/ DeleteItem(t)
  \/ \E r \in Requests : Sharer(r)

\* Whoever runs the server starts it again, and main() goes on.
Fairness == WF_vars(Boot /\ UNCHANGED shareVars)

SharingSpec == SharingInit /\ [][SharingNext]_vars /\ Fairness

-----------------------------------------------------------------------------
(* Properties. *)

\* The shares that exist or are about to: in the table, in the hands of a
\* share that has found its item, and of a reader that has found its code.
Shares ==
  {codes[c] : c \in {c \in Codes : codes[c] # None}}
  \cup {[owner |-> req[r].name, item |-> req[r].about] :
          r \in {r \in Requests : req[r].pc = "insertCode"}}
  \cup {req[r].about : r \in {r \in Requests : req[r].pc \in {"fetchItem", "copy"}}}

\* A share outlives its item, and never comes to show an item of another
\* account than the one it names as the sharer.
CodeOwnsItem == \A s \in Shares : items[s.item] \in {s.owner, None}

\* A code goes only by an unshare of the account that made it, or by one
\* whose own code was deleted by another request between its look at the
\* owner and its delete, and drawn again.
OnlyOwnerUnshares ==
  [][\A c \in Codes :
       codes[c] # None /\ codes'[c] # codes[c] =>
         \E r \in Requests :
           /\ Deletes(r, c) /\ ~Deletes(r, c)'
           /\ req[r].name = codes[c].owner \/ r \in overtaken]_codes

\* The server comes up as often as it is started, until it is wedged for good.
ComesUp == []<>(life = "serving" \/ Wedged)

=============================================================================
