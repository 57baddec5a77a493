----------------------------- MODULE MCModuleCache -----------------------------
(***************************************************************************)
(* Small instances of ModuleCache.                                         *)
(***************************************************************************)
EXTENDS ModuleCache, TLC

CONSTANTS s1, s2, r1, o1, o2, u1, u2, n1, n2, c1, c2, b1, b2

New(op, ty, n, c) ==
  [NoMessage EXCEPT !.op = op, !.type = ty, !.name = n, !.content = c]

Change(ty, i, n, c, ts) ==
  [NoMessage EXCEPT !.op = "update", !.type = ty, !.id = i, !.name = n,
                    !.content = c, !.ts = ts]

Of(op, ty, i) == [NoMessage EXCEPT !.op = op, !.type = ty, !.id = i]

Type7(b) == [NoMessage EXCEPT !.op = "type7", !.blob = b]

\* One websocket's handlers, among them an update of the timestamp alone and
\* a blob that does not decode.
SocketMessages ==
  {New("create", "Script", n1, c1), Of("duplicate", "Script", 1),
   Of("delete", "Script", 1), Change("Script", 1, None, None, 2), Type7(b2)}

\* HTTP requests, on this account and (own) past it.
RequestMessages ==
  {New("import", "Style", n1, c1), New("import", "Style", n2, c1),
   [Of("adminUpdate", "Style", 1) EXCEPT !.ts = 1, !.own = FALSE],
   [Of("adminDelete", "Style", 1) EXCEPT !.own = FALSE],
   Of("adminDelete", "Style", 1),
   [Of("adminCreate", "Style", 1) EXCEPT !.ts = 1]}

\* One client that creates, changes and deletes; nothing but a build can get
\* in the way of its invalidations.
RaceMessages ==
  {New("create", "Style", n1, c1), Change("Style", 1, n2, None, None),
   Of("delete", "Style", 1)}

ConfigMessages == {New("create", "Config", n1, c1)}

Symmetry == Permutations(Sockets) \cup Permutations(Openers) \cup Permutations(Uuids)

=============================================================================
