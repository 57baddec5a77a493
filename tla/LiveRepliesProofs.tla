--------------------------- MODULE LiveRepliesProofs ---------------------------
(***************************************************************************)
(* For any sessions, imports and tokens: live_replies holds a session from *)
(* its registration to its unregistration, under its own token and no      *)
(* other; and what a client in its loop is never shown is what the two     *)
(* known races hid.                                                        *)
(***************************************************************************)
EXTENDS LiveReplies, TLAPS

\* A session is registered under one of Tokens only when it sent it.
Wanted(s, t) == pc[s] \in Looping \cup {"unregister"} /\ token[s] = t

\* Registered with the types it stands on.
RegisteredInv ==
  /\ DOMAIN pc = Sessions /\ DOMAIN token = Sessions
  /\ live \in [Tokens -> SUBSET Sessions]
  /\ \A s \in Sessions, t \in Tokens : s \in live[t] <=> Wanted(s, t)

-----------------------------------------------------------------------------

LEMMA InvInit == Init => RegisteredInv
  BY DEF Init, RegisteredInv, Wanted, Looping

\* A step of a session that stays on its side of the registration.
LEMMA SessionMoves ==
  ASSUME RegisteredInv, NEW s \in Sessions, NEW from, NEW to, Goto(s, from, to),
         from \in Looping \cup {"unregister"} <=> to \in Looping \cup {"unregister"},
         UNCHANGED <<token, live>>
  PROVE  RegisteredInv'
  BY DEF RegisteredInv, Wanted, Goto

LEMMA Sends ==
  ASSUME RegisteredInv, NEW s \in Sessions, NEW from, NEW to, NEW shown,
         SendStep(s, from, to, shown),
         {from, to} \cap (Looping \cup {"unregister"}) = {}
  PROVE  RegisteredInv'
<1>1. from \notin Looping \cup {"unregister"} /\ to \notin Looping \cup {"unregister"}
  OBVIOUS
<1>2. UNCHANGED <<token, live>>
  BY DEF SendStep
<1>3. Goto(s, from, to) \/ Goto(s, from, "gone")
  BY DEF SendStep
<1>4. "gone" \notin Looping \cup {"unregister"}
  BY DEF Looping
<1> QED
  BY <1>1, <1>2, <1>3, <1>4, SessionMoves

\* What registers and what unregisters.
LEMMA RegisterKeeps ==
  ASSUME RegisteredInv, NEW s \in Sessions, Register(s) \/ Unregister(s)
  PROVE  RegisteredInv'
<1>1. CASE Register(s)
  BY <1>1 DEF Register, RegisteredInv, Wanted, Goto, Looping
<1>2. CASE Unregister(s)
  BY <1>2 DEF Unregister, RegisteredInv, Wanted, Goto, Looping
<1> QED
  BY <1>1, <1>2

LEMMA SessionKeeps ==
  ASSUME RegisteredInv, NEW s \in Sessions, Session(s)
  PROVE  RegisteredInv'
<1>1. CASE SendAuth(s) \/ SendModule(s) \/ SendKey(s)
  BY <1>1, Sends DEF SendAuth, SendModule, SendKey, Looping
<1>2. CASE BuildFails(s)
  BY <1>2, SessionMoves DEF BuildFails, Looping
<1>3. CASE CacheHit(s)
  BY <1>3, SessionMoves DEF CacheHit, Looping
<1>4. CASE ReadEntries(s)
  BY <1>4, SessionMoves DEF ReadEntries, Looping, accountVars
<1>5. CASE FillCache(s)
  BY <1>5, SessionMoves DEF FillCache, Looping
<1>6. CASE Lookup(s)
  BY <1>6, SessionMoves DEF Lookup, Looping
<1>7. CASE SendLive(s) \/ HandleMessage(s)
  BY <1>7, SessionMoves DEF SendLive, HandleMessage, Looping
<1> QED
  BY <1>1, <1>2, <1>3, <1>4, <1>5, <1>6, <1>7, RegisterKeeps DEF Session

LEMMA ClientKeeps ==
  ASSUME RegisteredInv, NEW s \in Sessions, Client(s) \/ ReceiveEnd(s) \/ TakeLive(s)
  PROVE  RegisteredInv'
<1>1. CASE Hangup(s)
  BY <1>1 DEF Hangup, RegisteredInv, Wanted
<1>2. CASE FirstMessage(s)
  BY <1>2 DEF FirstMessage, RegisteredInv, Wanted, Goto, Looping
<1>3. CASE TakeMessage(s)
  BY <1>3, SessionMoves DEF TakeMessage, Looping
<1>4. CASE ReceiveEnd(s)
  BY <1>4, SessionMoves DEF ReceiveEnd, Looping
<1>5. CASE TakeLive(s)
  BY <1>5, SessionMoves DEF TakeLive, Looping
<1> QED
  BY <1>1, <1>2, <1>3, <1>4, <1>5 DEF Client

\* A push finds every channel open, so it drops none.
LEMMA ImportKeeps ==
  ASSUME RegisteredInv, NEW i \in Imports,
         ImportStep(i) \/ \E t \in Known : StartImport(i, t)
  PROVE  RegisteredInv'
<1>1. CASE PushImport(i)
  <2> DEFINE t == import[i].token
             sent == {s \in live[t] : Alive(s)}
  <2>1. live' = [live EXCEPT ![t] = sent] /\ UNCHANGED <<pc, token>>
    BY <1>1 DEF PushImport
  <2>2. ASSUME t \in Tokens PROVE sent = live[t]
    BY <2>2 DEF RegisteredInv, Wanted, Alive, Looping
  <2>3. live' = live
    BY <2>1, <2>2 DEF RegisteredInv
  <2> QED
    BY <2>1, <2>3 DEF RegisteredInv, Wanted
<1>2. CASE LogImport(i) \/ InvalidateImport(i) \/ Abandon(i) \/ \E t \in Known : StartImport(i, t)
  <2>1. UNCHANGED <<pc, token, live>>
    BY <1>2 DEF LogImport, InvalidateImport, Abandon, StartImport, sessionVars
  <2> QED
    BY <2>1 DEF RegisteredInv, Wanted
<1> QED
  BY <1>1, <1>2 DEF ImportStep

LEMMA RegisteredKeeps == RegisteredInv /\ [Next]_vars => RegisteredInv'
<1> SUFFICES ASSUME RegisteredInv, [Next]_vars
             PROVE  RegisteredInv'
  OBVIOUS
<1>1. CASE Next
  BY <1>1, SessionKeeps, ClientKeeps, ImportKeeps DEF Next
<1>2. CASE UNCHANGED vars
  BY <1>2 DEF vars, sessionVars, RegisteredInv, Wanted
<1> QED
  BY <1>1, <1>2

\* live_replies holds exactly the sessions between their registration and
\* their unregistration, each under the token it sent, for any number of
\* sessions, imports and tokens (handle_ws, push_live_insert).
THEOREM RegisteredAlways == Spec => []Registered
<1>1. RegisteredInv => Registered
  BY DEF RegisteredInv, Registered, Wanted
<1> QED
  BY <1>1, InvInit, RegisteredKeeps, PTL DEF Spec

-----------------------------------------------------------------------------
(* TypeOK needs one thing more to be inductive: the token of an import. *)

ImportsKnown == \A i \in Imports : import[i].pc # "idle" => import[i].token \in Known

LEMMA TypeSends ==
  ASSUME TypeOK, NEW s \in Sessions, NEW shown \in SUBSET Imports,
         NEW from \in {"auth", "module", "key"}, NEW to \in {"build", "key", "lookup"},
         SendStep(s, from, to, shown)
  PROVE  TypeOK'
<1> USE DEF TypeOK, Goto, Looping, Between
<1>1. seen' \in [Sessions -> SUBSET Imports]
  BY DEF SendStep
<1>2. PICK next \in {"build", "key", "lookup", "gone"} : Goto(s, from, next)
  BY DEF SendStep
<1> QED
  BY <1>1, <1>2 DEF SendStep, accountVars

LEMMA TypeSession ==
  ASSUME TypeOK, NEW s \in Sessions, Session(s)
  PROVE  TypeOK'
<1> USE DEF TypeOK, Goto, Looping, Between
<1>1. CASE SendAuth(s) \/ SendModule(s) \/ SendKey(s)
  <2>1. module[s] \in SUBSET Imports /\ {} \in SUBSET Imports
    OBVIOUS
  <2> HIDE DEF TypeOK, Goto
  <2> QED
    BY <1>1, <2>1, TypeSends DEF SendAuth, SendModule, SendKey
<1>2. CASE BuildFails(s) \/ Lookup(s) \/ HandleMessage(s)
  BY <1>2 DEF BuildFails, Lookup, HandleMessage, accountVars
<1>3. CASE CacheHit(s)
  BY <1>3 DEF CacheHit
<1>4. CASE ReadEntries(s)
  BY <1>4 DEF ReadEntries, accountVars
<1>5. CASE FillCache(s)
  BY <1>5 DEF FillCache
<1>6. CASE Register(s)
  BY <1>6 DEF Register, accountVars
<1>7. CASE SendLive(s)
  <2>1. held[s] \in Imports
    BY <1>7 DEF SendLive
  <2> QED
    BY <1>7, <2>1 DEF SendLive, accountVars
<1>8. CASE Unregister(s)
  <2>1. chan' \in [Sessions -> Seq(Imports)]
    <3>1. <<>> \in Seq(Imports)
      OBVIOUS
    <3> QED
      BY <1>8, <3>1 DEF Unregister
  <2>2. live' \in [Tokens -> SUBSET Sessions]
    BY <1>8 DEF Unregister
  <2> QED
    BY <1>8, <2>1, <2>2 DEF Unregister, accountVars
<1> QED
  BY <1>1, <1>2, <1>3, <1>4, <1>5, <1>6, <1>7, <1>8 DEF Session

LEMMA TypeClient ==
  ASSUME TypeOK, NEW s \in Sessions, Client(s) \/ ReceiveEnd(s) \/ TakeLive(s)
  PROVE  TypeOK'
<1> USE DEF TypeOK, Goto, Looping, Between
<1>1. CASE Hangup(s)
  BY <1>1 DEF Hangup, accountVars
<1>2. CASE FirstMessage(s)
  <2>1. token' \in [Sessions -> Tokens \cup {None}]
    BY <1>2 DEF FirstMessage
  <2>2. Goto(s, "first", "auth") \/ Goto(s, "first", "gone")
    BY <1>2 DEF FirstMessage
  <2>3. pc[s] = "first" /\ \E to \in {"auth", "gone"} : pc' = [pc EXCEPT ![s] = to]
    BY <2>2
  <2> QED
    BY <1>2, <2>1, <2>3 DEF FirstMessage, accountVars
<1>3. CASE TakeMessage(s)
  BY <1>3 DEF TakeMessage, accountVars
<1>4. CASE ReceiveEnd(s)
  BY <1>4 DEF ReceiveEnd, accountVars
<1>5. CASE TakeLive(s)
  <2>1. Head(chan[s]) \in Imports /\ Tail(chan[s]) \in Seq(Imports)
    BY <1>5 DEF TakeLive
  <2> QED
    BY <1>5, <2>1, NoneAssumption DEF TakeLive, accountVars
<1> QED
  BY <1>1, <1>2, <1>3, <1>4, <1>5 DEF Client

ImportType == [pc : {"idle", "write", "invalidate", "push", "done", "dropped"},
               token : Known \cup {None}, sent : SUBSET Sessions]

LEMMA TypeImport ==
  ASSUME TypeOK, ImportsKnown, NEW i \in Imports,
         ImportStep(i) \/ \E t \in Known : StartImport(i, t)
  PROVE  TypeOK' /\ ImportsKnown'
<1>t. import \in [Imports -> ImportType]
  BY DEF TypeOK, ImportType
<1>k. import[i].pc # "idle" => import[i].token \in Tokens
  BY KnownAssumption DEF ImportsKnown
<1>n. ASSUME NEW next \in ImportType, import' = [import EXCEPT ![i] = next],
             next.token \in Known
      PROVE  import' \in [Imports -> ImportType] /\ ImportsKnown'
  BY <1>t, <1>n DEF ImportsKnown
<1>p. ASSUME NEW from, NEW to \in {"invalidate", "push", "dropped"}, Step(i, from, to),
             from # "idle"
      PROVE  import' \in [Imports -> ImportType] /\ ImportsKnown'
  <2> DEFINE next == [import[i] EXCEPT !.pc = to]
  <2>1. next \in ImportType /\ next.token = import[i].token
    BY <1>t DEF ImportType
  <2>2. import' = [import EXCEPT ![i] = next] /\ import[i].token \in Known
    BY <1>t, <1>p DEF ImportType, Step, ImportsKnown
  <2> HIDE DEF next
  <2> QED
    BY <2>1, <2>2, <1>n
<1>u. ASSUME import' \in [Imports -> ImportType], UNCHANGED sessionVars,
             entries' \in [Known -> SUBSET Imports],
             cache' \in [Known -> (SUBSET Imports) \cup {NoModule}],
             gap' \in [Sessions -> SUBSET Imports], cacheGap' \in [Known -> SUBSET Imports]
      PROVE  TypeOK'
  BY <1>u DEF TypeOK, ImportType, sessionVars
<1>1. CASE \E t \in Known : StartImport(i, t)
  <2>1. PICK t \in Known : StartImport(i, t)
    BY <1>1
  <2> DEFINE next == [import[i] EXCEPT !.pc = "write", !.token = t]
  <2>2. next \in ImportType /\ next.token \in Known
    BY <1>t DEF ImportType
  <2>3. import' = [import EXCEPT ![i] = next]
    BY <1>t, <2>1 DEF StartImport, ImportType
  <2> HIDE DEF next
  <2>4. import' \in [Imports -> ImportType] /\ ImportsKnown'
    BY <2>2, <2>3, <1>n
  <2> QED
    BY <2>1, <1>u, <2>4 DEF StartImport, accountVars, TypeOK
<1>2. CASE LogImport(i)
  <2>1. import' \in [Imports -> ImportType] /\ ImportsKnown'
    BY <1>2, <1>p DEF LogImport
  <2>2. entries' \in [Known -> SUBSET Imports]
    BY <1>2 DEF LogImport, TypeOK
  <2> QED
    BY <1>2, <1>u, <2>1, <2>2 DEF LogImport, TypeOK
<1>3. CASE InvalidateImport(i)
  <2>1. import' \in [Imports -> ImportType] /\ ImportsKnown'
    BY <1>3, <1>p DEF InvalidateImport
  <2>2. /\ cache' \in [Known -> (SUBSET Imports) \cup {NoModule}]
        /\ cacheGap' \in [Known -> SUBSET Imports]
    BY <1>3 DEF InvalidateImport, TypeOK
  <2>3. gap' \in [Sessions -> SUBSET Imports]
    BY <1>3 DEF InvalidateImport, TypeOK
  <2> QED
    BY <1>3, <1>u, <2>1, <2>2, <2>3 DEF InvalidateImport, TypeOK
<1>4. CASE PushImport(i)
  <2> DEFINE sent == {s \in live[import[i].token] : Alive(s)}
             next == [import[i] EXCEPT !.pc = "done", !.sent = sent]
  <2>1. sent \in SUBSET Sessions /\ import[i].token \in Known
    BY <1>4, <1>k DEF PushImport, TypeOK, ImportsKnown
  <2>2. next \in ImportType /\ next.token \in Known
    BY <1>t, <2>1 DEF ImportType
  <2>3. import' = [import EXCEPT ![i] = next]
    BY <1>4, <1>t DEF PushImport, ImportType
  <2>4. live' \in [Tokens -> SUBSET Sessions]
    BY <1>4, <2>1 DEF PushImport, TypeOK
  <2>5. chan' \in [Sessions -> Seq(Imports)]
    BY <1>4 DEF PushImport, TypeOK
  <2>6. gap' \in [Sessions -> SUBSET Imports]
    BY <1>4 DEF PushImport, TypeOK
  <2> HIDE DEF sent, next
  <2>7. import' \in [Imports -> ImportType] /\ ImportsKnown'
    BY <2>2, <2>3, <1>n
  <2> QED
    BY <1>4, <2>4, <2>5, <2>6, <2>7 DEF PushImport, ImportType, TypeOK
<1>5. CASE Abandon(i)
  <2>1. import' \in [Imports -> ImportType] /\ ImportsKnown'
    BY <1>5, <1>p DEF Abandon
  <2> QED
    BY <1>5, <1>u, <2>1 DEF Abandon, accountVars, TypeOK
<1> QED
  BY <1>1, <1>2, <1>3, <1>4, <1>5 DEF ImportStep

\* No step of a session or its client touches the imports.
LEMMA ImportsUnchanged ==
  ASSUME NEW s \in Sessions, Session(s) \/ Client(s) \/ ReceiveEnd(s) \/ TakeLive(s)
  PROVE  UNCHANGED import
<1>1. CASE Session(s)
  BY <1>1 DEF Session, SendAuth, SendModule, SendKey, SendStep, BuildFails, CacheHit, ReadEntries,
              FillCache, Lookup, Register, SendLive, HandleMessage, Unregister
<1>2. CASE Client(s) \/ ReceiveEnd(s) \/ TakeLive(s)
  BY <1>2 DEF Client, Hangup, FirstMessage, TakeMessage, ReceiveEnd, TakeLive
<1> QED
  BY <1>1, <1>2

TypeInv == TypeOK /\ ImportsKnown

LEMMA TypeInit == Init => TypeInv
  BY DEF Init, TypeInv, TypeOK, ImportsKnown, Looping

LEMMA TypeKeeps == TypeInv /\ [Next]_vars => TypeInv'
<1> SUFFICES ASSUME TypeInv, [Next]_vars
             PROVE  TypeInv'
  OBVIOUS
<1>1. CASE UNCHANGED vars
  BY <1>1 DEF vars, sessionVars, accountVars, TypeInv, TypeOK, ImportsKnown
<1>2. ASSUME NEW s \in Sessions, Session(s) \/ Client(s) \/ ReceiveEnd(s) \/ TakeLive(s)
      PROVE  TypeInv'
  <2>1. TypeOK'
    BY <1>2, TypeSession, TypeClient DEF TypeInv
  <2>2. ImportsKnown'
    BY <1>2, ImportsUnchanged DEF TypeInv, ImportsKnown
  <2> QED
    BY <2>1, <2>2 DEF TypeInv
<1>3. ASSUME NEW i \in Imports, ImportStep(i) \/ \E t \in Known : StartImport(i, t)
      PROVE  TypeInv'
  BY <1>3, TypeImport DEF TypeInv
<1> QED
  BY <1>1, <1>2, <1>3 DEF Next

\* Every variable of sessions, imports and accounts keeps its type, and a
\* session holds a live frame exactly while it is sending it.
THEOREM TypeCorrect == Spec => []TypeOK
<1>1. TypeInv => TypeOK
  BY DEF TypeInv
<1> QED
  BY <1>1, TypeInit, TypeKeeps, PTL DEF Spec

-----------------------------------------------------------------------------
(* ShownUnlessRaced: what holds on the way to the loop.                    *)

\* The account was written, and the cached module dropped since.
Reached(t, i) == import[i].token = t /\ import[i].pc \in {"push", "done"}

Pushed(t, i) == import[i].token = t /\ import[i].pc = "done"

Written ==
  \A i \in Imports :
    import[i].pc \in {"invalidate", "push", "done"} => i \in entries[import[i].token]

CacheTold ==
  \A t \in Known, i \in Imports :
    cache[t] # NoModule /\ Reached(t, i) => i \in cache[t] \cup cacheGap[t]

BuildTold ==
  \A s \in Sessions, i \in Imports :
    pc[s] = "fill" /\ Reached(token[s], i) => i \in module[s] \cup gap[s]

ChosenTold ==
  \A s \in Sessions, i \in Imports :
    pc[s] \in Between /\ Pushed(token[s], i) => i \in module[s] \cup gap[s]

ModuleSeen ==
  \A s \in Sessions :
    pc[s] \in {"key", "lookup", "register"} /\ peer[s] = "open" => module[s] \subseteq seen[s]

ShownInv ==
  TypeInv /\ RegisteredInv /\ Written /\ CacheTold /\ BuildTold /\ ChosenTold
  /\ ModuleSeen /\ ShownUnlessRaced

ShownParts ==
  Written /\ CacheTold /\ BuildTold /\ ChosenTold /\ ModuleSeen /\ ShownUnlessRaced

LEMMA TakeKeepsFrames ==
  ASSUME NEW c \in Seq(Imports), c # <<>>
  PROVE  ToSet(c) \subseteq {Head(c)} \cup ToSet(Tail(c))
<1>1. ASSUME NEW k \in DOMAIN c, k # 1
      PROVE  c[k] \in ToSet(Tail(c))
  <2>1. k - 1 \in DOMAIN Tail(c) /\ Tail(c)[k - 1] = c[k]
    BY <1>1
  <2> QED
    BY <2>1 DEF ToSet
<1>2. c[1] = Head(c)
  OBVIOUS
<1> QED
  BY <1>1, <1>2 DEF ToSet

LEMMA AppendAddsFrame ==
  ASSUME NEW c \in Seq(Imports), NEW i \in Imports
  PROVE  ToSet(Append(c, i)) = ToSet(c) \cup {i}
<1>1. Append(c, i) \in Seq(Imports) /\ Len(Append(c, i)) = Len(c) + 1
  OBVIOUS
<1>2. \A k \in 1..Len(c) : Append(c, i)[k] = c[k]
  OBVIOUS
<1>3. Append(c, i)[Len(c) + 1] = i
  OBVIOUS
<1>4. Len(c) \in Nat /\ 1..(Len(c) + 1) = 1..Len(c) \cup {Len(c) + 1}
  OBVIOUS
<1> QED
  BY <1>1, <1>2, <1>3, <1>4 DEF ToSet

\* A session moves without choosing, showing or registering anything.
LEMMA ShownMoves ==
  ASSUME ShownInv, NEW s \in Sessions, NEW from, NEW to, Goto(s, from, to),
         to \in Between => from \in Between, to # "fill", to \notin Looping \/ from \in Looping,
         to \in {"key", "lookup", "register"} => from \in {"key", "lookup", "register"},
         UNCHANGED <<peer, token, module, held, chan, live, seen, accountVars, import>>
  PROVE  ShownParts'
<1> USE DEF ShownInv, ShownParts, TypeInv, TypeOK, accountVars, Goto, Reached, Pushed
<1>1. Written' /\ CacheTold'
  BY DEF Written, CacheTold
<1>2. BuildTold' /\ ChosenTold'
  BY DEF BuildTold, ChosenTold
<1>3. ModuleSeen'
  BY DEF ModuleSeen
<1>4. ShownUnlessRaced'
  BY DEF ShownUnlessRaced
<1> QED
  BY <1>1, <1>2, <1>3, <1>4

LEMMA ShownSends ==
  ASSUME ShownInv, NEW s \in Sessions, SendAuth(s) \/ SendModule(s) \/ SendKey(s)
  PROVE  ShownParts'
<1> USE DEF ShownInv, ShownParts, TypeInv, TypeOK, accountVars, Reached, Pushed
<1>1. /\ UNCHANGED <<peer, token, module, held, chan, live, accountVars, import>>
      /\ \A r \in Sessions : seen[r] \subseteq seen'[r]
  <2>1. \E from, to, shown : SendStep(s, from, to, shown)
    BY DEF SendAuth, SendModule, SendKey
  <2>2. UNCHANGED <<peer, token, module, held, chan, live, accountVars, import>>
    BY <2>1 DEF SendStep
  <2>3. PICK shown : seen' = seen \/ seen' = [seen EXCEPT ![s] = @ \cup shown]
    BY <2>1 DEF SendStep
  <2>4. \A r \in Sessions : seen[r] \subseteq seen'[r]
    BY <2>3
  <2> QED
    BY <2>2, <2>4
<1>2. \E from \in {"auth", "module", "key"}, to \in {"build", "key", "lookup", "gone"} :
        /\ Goto(s, from, to)
        /\ to = "key" => from = "module"
        /\ to = "lookup" => from = "key"
        /\ to = "key" /\ peer[s] = "open" => module[s] \subseteq seen'[s]
  BY DEF SendAuth, SendModule, SendKey, SendStep
<1>3. Written' /\ CacheTold'
  BY <1>1 DEF Written, CacheTold
<1>4. BuildTold' /\ ChosenTold'
  BY <1>1, <1>2 DEF BuildTold, ChosenTold, Goto, Between
<1>5. ModuleSeen'
  BY <1>1, <1>2 DEF ModuleSeen, Goto
<1>6. ShownUnlessRaced'
  BY <1>1, <1>2 DEF ShownUnlessRaced, Goto, Looping
<1> QED
  BY <1>3, <1>4, <1>5, <1>6

\* A session chooses a module, from the cache or the tables.
LEMMA ShownChooses ==
  ASSUME ShownInv, NEW s \in Sessions, CacheHit(s) \/ ReadEntries(s) \/ FillCache(s)
  PROVE  ShownParts'
<1> USE DEF ShownInv, ShownParts, TypeInv, TypeOK, accountVars, Reached, Pushed
<1>1. Written'
  BY DEF Written, CacheHit, ReadEntries, FillCache
<1>2. CASE CacheHit(s)
  <2>1. CacheTold' /\ BuildTold'
    BY <1>2 DEF CacheHit, CacheTold, BuildTold, Goto
  <2>2. ChosenTold'
    BY <1>2 DEF CacheHit, CacheTold, ChosenTold, Goto
  <2>3. ModuleSeen' /\ ShownUnlessRaced'
    BY <1>2 DEF CacheHit, ModuleSeen, ShownUnlessRaced, Goto, Looping
  <2> QED
    BY <1>1, <2>1, <2>2, <2>3
<1>3. CASE ReadEntries(s)
  <2>1. CacheTold'
    BY <1>3 DEF ReadEntries, CacheTold
  <2>2. BuildTold' /\ ChosenTold'
    BY <1>3 DEF ReadEntries, Written, BuildTold, ChosenTold, Goto
  <2>3. ModuleSeen' /\ ShownUnlessRaced'
    BY <1>3 DEF ReadEntries, ModuleSeen, ShownUnlessRaced, Goto, Looping
  <2> QED
    BY <1>1, <2>1, <2>2, <2>3
<1>4. CASE FillCache(s)
  <2>1. CacheTold'
    BY <1>4 DEF FillCache, CacheTold, BuildTold, Goto
  <2>2. BuildTold' /\ ChosenTold'
    BY <1>4 DEF FillCache, BuildTold, ChosenTold, Goto, Between
  <2>3. ModuleSeen' /\ ShownUnlessRaced'
    BY <1>4 DEF FillCache, ModuleSeen, ShownUnlessRaced, Goto, Looping
  <2> QED
    BY <1>1, <2>1, <2>2, <2>3
<1> QED
  BY <1>2, <1>3, <1>4

\* A session in its loop: what it registers with, takes and sends.
LEMMA ShownLoops ==
  ASSUME ShownInv, NEW s \in Sessions,
         Register(s) \/ TakeLive(s) \/ SendLive(s) \/ Unregister(s)
  PROVE  ShownParts'
<1> USE DEF ShownInv, ShownParts, TypeInv, TypeOK, accountVars, Reached, Pushed
<1>1. Written' /\ CacheTold'
  BY DEF Written, CacheTold, Register, TakeLive, SendLive, Unregister
<1>2. BuildTold' /\ ChosenTold' /\ ModuleSeen'
  BY DEF BuildTold, ChosenTold, ModuleSeen, Between, Goto, Register, TakeLive, SendLive, Unregister
<1>3. CASE Register(s)
  BY <1>1, <1>2, <1>3 DEF ShownUnlessRaced, ChosenTold, ModuleSeen, Register, Goto, Looping, Between
<1>4. CASE TakeLive(s)
  <2>1. ToSet(chan[s]) \subseteq {held'[s]} \cup ToSet(chan'[s])
    BY <1>4, TakeKeepsFrames DEF TakeLive
  <2>2. held[s] \notin Imports
    BY <1>4, NoneAssumption DEF TakeLive, Goto
  <2> QED
    BY <1>1, <1>2, <1>4, <2>1, <2>2 DEF ShownUnlessRaced, TakeLive, Goto, Looping
<1>5. CASE SendLive(s)
  BY <1>1, <1>2, <1>5 DEF ShownUnlessRaced, SendLive, Goto, Looping
<1>6. CASE Unregister(s)
  BY <1>1, <1>2, <1>6 DEF ShownUnlessRaced, Unregister, Goto, Looping
<1> QED
  BY <1>3, <1>4, <1>5, <1>6

LEMMA ShownSession ==
  ASSUME ShownInv, NEW s \in Sessions,
         Session(s) \/ Client(s) \/ ReceiveEnd(s) \/ TakeLive(s)
  PROVE  ShownParts'
<1>1. CASE BuildFails(s) \/ Lookup(s) \/ HandleMessage(s)
  BY <1>1, ShownMoves DEF BuildFails, Lookup, HandleMessage, Looping, Between
<1>2. CASE TakeMessage(s) \/ ReceiveEnd(s)
  BY <1>2, ShownMoves DEF TakeMessage, ReceiveEnd, Looping, Between
<1>3. CASE Hangup(s)
  BY <1>3 DEF Hangup, ShownInv, ShownParts, accountVars, Written, CacheTold, BuildTold, ChosenTold,
              ModuleSeen, ShownUnlessRaced, Reached, Pushed, TypeInv, TypeOK
<1>4. CASE FirstMessage(s)
  <2>1. pc[s] = "first" /\ \E to \in {"auth", "gone"} : pc' = [pc EXCEPT ![s] = to]
    BY <1>4 DEF FirstMessage, Goto
  <2>2. \A r \in Sessions \ {s} : token'[r] = token[r]
    BY <1>4 DEF FirstMessage, ShownInv, TypeInv, TypeOK
  <2> QED
    BY <1>4, <2>1, <2>2 DEF FirstMessage, ShownInv, ShownParts, accountVars, Written, CacheTold, BuildTold,
         ChosenTold, ModuleSeen, ShownUnlessRaced, Reached, Pushed, TypeInv, TypeOK, Between, Looping
<1> QED
  BY <1>1, <1>2, <1>3, <1>4, ShownSends, ShownChooses, ShownLoops DEF Session, Client

\* An import that starts, writes or is given up.
LEMMA ShownWrites ==
  ASSUME ShownInv, NEW i \in Imports,
         LogImport(i) \/ Abandon(i) \/ \E t \in Known : StartImport(i, t)
  PROVE  ShownParts'
<1> USE DEF ShownInv, ShownParts, TypeInv, TypeOK
<1>1. /\ UNCHANGED <<sessionVars, cache, gap, cacheGap>>
      /\ \A j \in Imports \ {i} : import'[j] = import[j]
      /\ import'[i].pc \notin {"push", "done"}
  BY DEF LogImport, Abandon, StartImport, Step, accountVars
<1>2. Written'
  <2>1. CASE LogImport(i)
    BY <2>1, <1>1 DEF Written, LogImport, Step, ImportsKnown
  <2>2. CASE Abandon(i) \/ \E t \in Known : StartImport(i, t)
    <3>1. entries' = entries /\ import'[i].pc \in {"dropped", "write"}
      BY <2>2 DEF Abandon, StartImport, Step, accountVars
    <3> QED
      BY <3>1, <1>1 DEF Written
  <2> QED
    BY <2>1, <2>2
<1>3. \A t \in Tokens \cup {None}, j \in Imports :
        (Reached(t, j)' => Reached(t, j)) /\ (Pushed(t, j)' => Pushed(t, j))
  BY <1>1 DEF Reached, Pushed
<1>4. CacheTold' /\ BuildTold' /\ ChosenTold'
  BY <1>1, <1>3, KnownAssumption DEF CacheTold, BuildTold, ChosenTold, sessionVars
<1>5. ModuleSeen' /\ ShownUnlessRaced'
  BY <1>1 DEF ModuleSeen, ShownUnlessRaced, sessionVars
<1> QED
  BY <1>2, <1>4, <1>5

LEMMA ShownInvalidates ==
  ASSUME ShownInv, NEW i \in Imports, InvalidateImport(i)
  PROVE  ShownParts'
<1> USE DEF ShownInv, ShownParts, TypeInv, TypeOK
<1>1. /\ UNCHANGED <<sessionVars, entries>>
      /\ \A j \in Imports \ {i} : import'[j] = import[j]
      /\ import[i].pc = "invalidate" /\ import'[i].pc = "push"
      /\ import'[i].token = import[i].token /\ import[i].token \in Known
      /\ \A s \in Sessions : gap[s] \subseteq gap'[s]
  BY DEF InvalidateImport, Step, ImportsKnown
<1>2. Written'
  BY <1>1 DEF Written
<1>3. CacheTold'
  <2> SUFFICES ASSUME NEW t \in Known, NEW j \in Imports, cache'[t] # NoModule, Reached(t, j)'
               PROVE  j \in cache'[t] \cup cacheGap'[t]
    BY DEF CacheTold
  <2>1. t # import[i].token
    BY DEF InvalidateImport
  <2>2. cache'[t] = cache[t] /\ cacheGap'[t] = cacheGap[t]
    BY <2>1 DEF InvalidateImport
  <2>3. Reached(t, j)
    BY <1>1, <2>1 DEF Reached
  <2> QED
    BY <2>2, <2>3 DEF CacheTold
<1>4. BuildTold'
  <2> SUFFICES ASSUME NEW s \in Sessions, NEW j \in Imports, pc[s] = "fill", Reached(token[s], j)'
               PROVE  j \in module[s] \cup gap'[s]
    BY <1>1 DEF BuildTold, sessionVars
  <2>1. CASE j = i
    BY <1>1, <2>1 DEF Reached, InvalidateImport, sessionVars
  <2>2. CASE j # i
    BY <1>1, <2>2 DEF BuildTold, Reached, sessionVars
  <2> QED
    BY <2>1, <2>2
<1>5. ChosenTold'
  BY <1>1 DEF ChosenTold, Pushed, sessionVars
<1>6. ModuleSeen'
  BY <1>1 DEF ModuleSeen, sessionVars
<1>7. ShownUnlessRaced'
  <2>1. \A j \in Imports :
          import'[j].pc = "done" => import[j].pc = "done" /\ import'[j].token = import[j].token
    BY <1>1
  <2> QED
    BY <1>1, <2>1 DEF ShownUnlessRaced, sessionVars
<1> QED
  BY <1>2, <1>3, <1>4, <1>5, <1>6, <1>7

\* The push reaches every session in its loop, for each of them is
\* registered; what it misses on the way there, gap takes.
LEMMA ShownPushes ==
  ASSUME ShownInv, NEW i \in Imports, PushImport(i)
  PROVE  ShownParts'
<1> USE DEF ShownInv, ShownParts, TypeInv, TypeOK
<1>1. /\ UNCHANGED <<pc, peer, token, module, held, seen, entries, cache, cacheGap>>
      /\ \A j \in Imports \ {i} : import'[j] = import[j]
      /\ import[i].pc = "push" /\ import'[i].pc = "done"
      /\ import'[i].token = import[i].token /\ import[i].token \in Tokens
      /\ \A s \in Sessions : gap[s] \subseteq gap'[s]
  BY KnownAssumption DEF PushImport, ImportsKnown
<1>2. Written'
  BY <1>1 DEF Written
<1>3. CacheTold' /\ BuildTold'
  <2>1. \A t \in Tokens \cup {None}, j \in Imports : Reached(t, j)' => Reached(t, j)
    BY <1>1 DEF Reached
  <2>2. CacheTold'
    BY <1>1, <2>1, KnownAssumption DEF CacheTold, PushImport
  <2>3. BuildTold'
    BY <1>1, <2>1 DEF BuildTold
  <2> QED
    BY <2>2, <2>3
<1>4. ChosenTold'
  <2> SUFFICES ASSUME NEW s \in Sessions, NEW j \in Imports, pc[s] \in Between, Pushed(token[s], j)'
               PROVE  j \in module[s] \cup gap'[s]
    BY <1>1 DEF ChosenTold
  <2>1. CASE j = i
    BY <1>1, <2>1 DEF Pushed, PushImport
  <2>2. CASE j # i
    BY <1>1, <2>2 DEF ChosenTold, Pushed
  <2> QED
    BY <2>1, <2>2
<1>5. ModuleSeen'
  BY <1>1 DEF ModuleSeen
<1>6. \A s \in Sessions : ToSet(chan[s]) \subseteq ToSet(chan'[s])
  BY AppendAddsFrame DEF PushImport
<1>7. ShownUnlessRaced'
  <2> SUFFICES ASSUME NEW s \in Sessions, NEW j \in Imports, pc[s] \in Looping, peer[s] = "open",
                      import'[j].pc = "done", import'[j].token = token[s]
               PROVE  j \in seen[s] \cup {held[s]} \cup ToSet(chan'[s]) \cup gap'[s]
    BY <1>1 DEF ShownUnlessRaced
  <2>1. CASE j = i
    <3>1. s \in live[import[i].token] /\ Alive(s)
      BY <1>1, <2>1 DEF RegisteredInv, Wanted, Alive, Looping
    <3>2. chan'[s] = Append(chan[s], i)
      BY <3>1 DEF PushImport
    <3> QED
      BY <2>1, <3>2, AppendAddsFrame
  <2>2. CASE j # i
    BY <1>1, <1>6, <2>2 DEF ShownUnlessRaced
  <2> QED
    BY <2>1, <2>2
<1> QED
  BY <1>2, <1>3, <1>4, <1>5, <1>7

\* What was imported into its account, a client in its loop has been shown or
\* is about to be, unless one of the two known races hid it: for any number
\* of sessions and imports (handle_ws against push_live_insert).
THEOREM ShownAlways == Spec => []ShownUnlessRaced
<1>1. Init => ShownInv
  <2>1. Init => ShownParts
    BY DEF Init, ShownParts, Written, CacheTold, BuildTold, ChosenTold, ModuleSeen,
           ShownUnlessRaced, Reached, Pushed, Between, Looping
  <2> QED
    BY <2>1, TypeInit, InvInit DEF ShownInv, ShownParts
<1>2. ShownInv /\ [Next]_vars => ShownInv'
  <2> SUFFICES ASSUME ShownInv, [Next]_vars
               PROVE  ShownInv'
    OBVIOUS
  <2>1. TypeInv' /\ RegisteredInv'
    BY TypeKeeps, RegisteredKeeps DEF ShownInv
  <2>2. ShownParts'
    <3>1. CASE UNCHANGED vars
      BY <3>1 DEF vars, sessionVars, accountVars, ShownInv, ShownParts, Written, CacheTold, BuildTold,
                  ChosenTold, ModuleSeen, ShownUnlessRaced, Reached, Pushed
    <3>2. CASE Next
      BY <3>2, ShownSession, ShownWrites, ShownInvalidates, ShownPushes DEF Next, ImportStep
    <3> QED
      BY <3>1, <3>2
  <2> QED
    BY <2>1, <2>2 DEF ShownInv, ShownParts
<1>3. ShownInv => ShownUnlessRaced
  BY DEF ShownInv
<1> QED
  BY <1>1, <1>2, <1>3, PTL DEF Spec

=============================================================================
