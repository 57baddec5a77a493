----------------------------- MODULE MCEntrySerial -----------------------------
(***************************************************************************)
(* A small instance of EntrySerial: entries of all three types, made,      *)
(* copied, imported, changed in every combination of fields and deleted.   *)
(***************************************************************************)
EXTENDS EntrySerial, TLC

CONSTANTS s1, r1, u1, u2, u3, n1, n2, c1, c2, b1

SerialMessages ==
  {[NoMessage EXCEPT !.op = "create", !.type = ty, !.name = n1, !.content = c] :
     ty \in Types, c \in {None, c1}}
  \cup
  {[NoMessage EXCEPT !.op = "import", !.type = ty, !.name = n1, !.content = c2] :
     ty \in {"Style", "Config"}}
  \cup
  {[NoMessage EXCEPT !.op = "duplicate", !.type = ty, !.id = i, !.name = n] :
     ty \in Types, i \in {1, 2}, n \in {None, Empty, n2}}
  \cup
  {[NoMessage EXCEPT !.op = "update", !.type = ty, !.id = i, !.name = n,
                     !.content = c, !.ts = ts] :
     ty \in Types, i \in {1, 2}, n \in {None, n2}, c \in {None, c2}, ts \in {None, 2}}
  \cup
  {[NoMessage EXCEPT !.op = "delete", !.type = ty, !.id = i] :
     ty \in Types, i \in {1, 2, 3}}
  \cup
  {[NoMessage EXCEPT !.op = "type7", !.blob = b1]}

Symmetry == Permutations(Uuids)

=============================================================================
