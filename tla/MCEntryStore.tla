----------------------------- MODULE MCEntryStore -----------------------------
(***************************************************************************)
(* Small instances of EntryStore: the message sets of the runs.            *)
(***************************************************************************)
EXTENDS EntryStore, TLC

CONSTANTS s1, s2, r1, u1, u2, u3, n1, n2, c1, c2, b1, b2

Create(ty, n, c) ==
  [NoMessage EXCEPT !.op = "create", !.type = ty, !.name = n, !.content = c]

Duplicate(ty, i, n) ==
  [NoMessage EXCEPT !.op = "duplicate", !.type = ty, !.id = i, !.name = n]

Import(ty, n, c) ==
  [NoMessage EXCEPT !.op = "import", !.type = ty, !.name = n, !.content = c]

Update(ty, i, n, c, ts) ==
  [NoMessage EXCEPT !.op = "update", !.type = ty, !.id = i, !.name = n,
                    !.content = c, !.ts = ts]

Delete(ty, i) == [NoMessage EXCEPT !.op = "delete", !.type = ty, !.id = i]

Log(op, ty, i) == [NoMessage EXCEPT !.op = op, !.type = ty, !.id = i, !.ts = 1]

Type7(b) == [NoMessage EXCEPT !.op = "type7", !.blob = b]

\* The handlers that make a new entry.
CreatorMessages ==
  {Create("Script", n1, c1), Create("Script", n1, None), Create("Config", n2, c2),
   Create("Style", n1, c1),
   Duplicate("Script", 1, None), Duplicate("Script", 1, n2),
   Import("Script", n2, c2), Import("Style", n2, c2)}

\* One of each, of a type with a unique index that tells and of styles, and
\* an administrator who logs the largest id.
OwnerMessages ==
  {Create("Script", n1, c1), Duplicate("Script", 1, n2), Import("Script", n2, c2),
   Create("Style", n1, c1), Import("Style", n2, c2), Log("adminCreate", "Script", MaxId)}

\* Creates, updates and deletes of any two ids, of two types, and a blob.
EditMessages ==
  {Create("Script", n1, c1), Create("Style", n1, None), Type7(b1),
   Update("Style", 1, None, None, 1),
   Update("Script", 1, None, c2, None), Update("Style", 2, n2, None, None),
   Delete("Script", 1), Delete("Style", 1), Delete("Script", 2)}

Symmetry == Permutations(Sockets) \cup Permutations(Requests) \cup Permutations(Uuids)

=============================================================================
