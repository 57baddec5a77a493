------------------------------- MODULE MCFrames -------------------------------
(***************************************************************************)
(* Small instances of Frames: strings of a few lengths on both sides of    *)
(* the alignment, entries of every kind, and module sizes on both sides of *)
(* the buffer's growth.                                                    *)
(***************************************************************************)
EXTENDS Frames

\* A string of n bytes, all of them d.
Text(n, d) == [i \in 1 .. n |-> d]

AdminText == Text(5, 3)

Entry(i, name, code) ==
  [id |-> i, ts |-> 5, name |-> Text(name, 2), author |-> Text(3, 4), code |-> code]

Language(n, native, translations) ==
  [code |-> Text(2, n), english |-> Text(3, 1), native |-> Text(native, 1),
   translations |-> translations]

Module(version, configs, scripts, styles, langs, extra, user) ==
  [kind |-> "module", version |-> version, configs |-> configs, scripts |-> scripts,
   styles |-> styles, langs |-> langs, extra |-> Text(extra, 6), user |-> Text(user, 5),
   skins |-> Text(6, 7), token |-> Text(4, 6), checksum |-> 7, enabled |-> 0,
   capacity |-> 512]

Case11(n) == [kind |-> "case11", id |-> 1, text |-> Text(n, 1)]

Replies ==
  {[kind |-> "create", type |-> ty, entry |-> Entry(i, n, code)] :
     ty \in 0 .. 2, i \in {0, 3}, n \in 0 .. 4, code \in {None, <<>>, Text(7, 1)}}
  \cup {Case11(n) : n \in 0 .. 120}

Modules ==
  {Module(v, <<>>, <<>>, <<>>, <<>>, e, 2) : v \in {0, 1}, e \in 0 .. 5}
  \cup
  {Module(1, <<Entry(2, 2, Text(7, 1))>>, <<Entry(2, 1, Text(7, 1)), Entry(3, 4, None)>>,
          <<Entry(4, 3, Text(1, 1))>>,
          <<Language(1, 3, Text(5, 2)), Language(2, 4, None)>>, e, u) :
     e \in {0, 1}, u \in {0, 1, 30}}
  \cup
  {Module(1, <<Entry(1, 2, None), Entry(5, 3, None)>>, <<>>, <<>>,
          [i \in 1 .. 5 |-> Language(i, 2 + (i % 2), IF i < 3 THEN Text(i, 2) ELSE None)],
          e, 4) : e \in 0 .. 40}

SmallInputs == Replies \cup Modules

\* Case-11 replies about as long as the first buffer of the code is large.
LongReplies == {Case11(n) : n \in 985 .. 1012}

=============================================================================
