------------------------------ MODULE LiveReplies ------------------------------
(***************************************************************************)
(* Websocket sessions (handle_ws, ws.rs) and the live frames an import     *)
(* pushes to them.  A session reads a token, is sent its module, and only  *)
(* then registers a channel in live_replies under that token; an import    *)
(* writes its entry, drops the cached module and pushes a frame to every   *)
(* channel of the token.  Nothing orders the two, so this module says what *)
(* a session may miss, and that it is left in the end.                     *)
(*                                                                         *)
(* A token stands for its account.  An import is its own entry: the four   *)
(* statements that write it are one step, LogImport, with the log row the  *)
(* last of them; EntryStore has them apart.                                *)
(***************************************************************************)
EXTENDS Integers, SequencesExt

CONSTANTS
  Sessions,  \* websocket connections
  Imports,   \* import requests
  Tokens,    \* what clients send first
  Known,     \* the tokens of accounts
  NoModule,  \* no cached module
  None

ASSUME KnownAssumption == Known \subseteq Tokens

ASSUME NoneAssumption == None \notin Tokens \cup Imports

VARIABLES
  pc,        \* where each session is in handle_ws
  peer,      \* "open", or "shut" once the client closed or broke it
  token,     \* what it sent first
  module,    \* the entries of the module to be sent
  held,      \* the live frame taken from the channel and not yet sent
  chan,      \* live_rx
  live,      \* live_replies: the sessions registered under each token
  import,    \* where each import is, its token, and how many it pushed to
  entries,   \* the entries of each account
  cache,     \* module_cache
  seen,      \* history: what the client of a session was shown
  gap,       \* history: what a session may miss, by a race that is known
  cacheGap   \* history: the same for the cached module

sessionVars == <<pc, peer, token, module, held, chan, live, seen>>
accountVars == <<entries, cache, gap, cacheGap>>
vars == <<sessionVars, accountVars, import>>

\* The module is chosen and the channel not yet registered.
Between == {"fill", "module", "key", "lookup", "register"}

Looping == {"loop", "live", "message"}

Init ==
  /\ pc = [s \in Sessions |-> "first"]
  /\ peer = [s \in Sessions |-> "open"]
  /\ token = [s \in Sessions |-> None]
  /\ module = [s \in Sessions |-> {}]
  /\ held = [s \in Sessions |-> None]
  /\ chan = [s \in Sessions |-> <<>>]
  /\ live = [t \in Tokens |-> {}]
  /\ import = [i \in Imports |-> [pc |-> "idle", token |-> None, sent |-> {}]]
  /\ entries = [t \in Known |-> {}]
  /\ cache = [t \in Known |-> NoModule]
  /\ seen = [s \in Sessions |-> {}]
  /\ gap = [s \in Sessions |-> {}]
  /\ cacheGap = [t \in Known |-> {}]

Goto(s, from, to) == pc[s] = from /\ pc' = [pc EXCEPT ![s] = to]

-----------------------------------------------------------------------------
(* A session up to its loop. *)

\* The client closes the connection or it breaks; the server finds out when
\* it next receives, or when a send fails.
Hangup(s) ==
  /\ peer[s] = "open" /\ pc[s] # "gone"
  /\ peer' = [peer EXCEPT ![s] = "shut"]
  /\ UNCHANGED <<pc, token, module, held, chan, live, seen, accountVars, import>>

\* The first message names the token; an empty one ends the session.
FirstMessage(s) ==
  /\ peer[s] = "open"
  /\ \/ \E t \in Tokens : Goto(s, "first", "auth") /\ token' = [token EXCEPT ![s] = t]
     \/ Goto(s, "first", "gone") /\ UNCHANGED token
  /\ UNCHANGED <<peer, module, held, chan, live, seen, accountVars, import>>

\* Every sender of the channel is gone and nothing is left in it.
Closed(s) == pc[s] = "loop" /\ chan[s] = <<>> /\ s \notin live[token[s]]

\* A receive that finds the peer gone: before the first message, in the loop,
\* or while draining the messages of a session without an account.  The loop
\* ends on a closed channel too.
ReceiveEnd(s) ==
  /\ peer[s] = "shut" \/ Closed(s)
  /\ \/ Goto(s, "first", "gone") \/ Goto(s, "loop", "unregister") \/ Goto(s, "drain", "gone")
  /\ UNCHANGED <<peer, token, module, held, chan, live, seen, accountVars, import>>

\* A send to a peer that is gone may still be taken by the socket.
SendStep(s, from, to, shown) ==
  /\ \/ Goto(s, from, to)
     \/ peer[s] = "shut" /\ Goto(s, from, "gone")
  /\ seen' = IF peer[s] = "open" THEN [seen EXCEPT ![s] = @ \cup shown] ELSE seen
  /\ UNCHANGED <<peer, token, module, held, chan, live, accountVars, import>>

SendAuth(s) == SendStep(s, "auth", "build", {})

SendModule(s) == SendStep(s, "module", "key", module[s])

SendKey(s) == SendStep(s, "key", "lookup", {})

\* build_user_module fails when the token is nobody's or the database does.
BuildFails(s) ==
  /\ Goto(s, "build", "gone")
  /\ UNCHANGED <<peer, token, module, held, chan, live, seen, accountVars, import>>

CacheHit(s) ==
  LET t == token[s] IN
  /\ t \in Known /\ cache[t] # NoModule
  /\ Goto(s, "build", "module")
  /\ module' = [module EXCEPT ![s] = cache[t]]
  /\ gap' = [gap EXCEPT ![s] = cacheGap[t]]
  /\ UNCHANGED <<peer, token, held, chan, live, seen, entries, cache, cacheGap, import>>

ReadEntries(s) ==
  LET t == token[s] IN
  /\ t \in Known /\ cache[t] = NoModule
  /\ Goto(s, "build", "fill")
  /\ module' = [module EXCEPT ![s] = entries[t]]
  /\ UNCHANGED <<peer, token, held, chan, live, seen, accountVars, import>>

FillCache(s) ==
  LET t == token[s] IN
  /\ Goto(s, "fill", "module")
  /\ cache' = [cache EXCEPT ![t] = module[s]]
  /\ cacheGap' = [cacheGap EXCEPT ![t] = gap[s]]
  /\ UNCHANGED <<peer, token, module, held, chan, live, seen, entries, gap, import>>

\* The second look at the account; a database error leaves the session to
\* drain its messages.
Lookup(s) ==
  /\ Goto(s, "lookup", "register") \/ Goto(s, "lookup", "drain")
  /\ UNCHANGED <<peer, token, module, held, chan, live, seen, accountVars, import>>

Register(s) ==
  /\ Goto(s, "register", "loop")
  /\ live' = [live EXCEPT ![token[s]] = @ \cup {s}]
  /\ UNCHANGED <<peer, token, module, held, chan, seen, accountVars, import>>

-----------------------------------------------------------------------------
(* The loop: select! takes a live frame or a message, whichever it polls. *)

\* Mutant: the frame is dropped for a message that is ready too.
TakeLiveDropped(s) ==
  /\ chan[s] # <<>>
  /\ Goto(s, "loop", "message")
  /\ chan' = [chan EXCEPT ![s] = Tail(@)]
  /\ UNCHANGED <<peer, token, module, held, live, seen, accountVars, import>>

TakeLive(s) ==
  /\ chan[s] # <<>>
  /\ Goto(s, "loop", "live")
  /\ held' = [held EXCEPT ![s] = Head(chan[s])]
  /\ chan' = [chan EXCEPT ![s] = Tail(@)]
  /\ UNCHANGED <<peer, token, module, live, seen, accountVars, import>>

\* Mutant: a failed send ends the session.
SendLiveEnds(s) ==
  /\ Goto(s, "live", IF peer[s] = "open" THEN "loop" ELSE "gone")
  /\ seen' = IF peer[s] = "open" THEN [seen EXCEPT ![s] = @ \cup {held[s]}] ELSE seen
  /\ held' = [held EXCEPT ![s] = None]
  /\ UNCHANGED <<peer, token, module, chan, live, accountVars, import>>

\* send_reply: a failed send is logged, and the loop goes on.
SendLive(s) ==
  /\ Goto(s, "live", "loop")
  /\ seen' = IF peer[s] = "open" THEN [seen EXCEPT ![s] = @ \cup {held[s]}] ELSE seen
  /\ held' = [held EXCEPT ![s] = None]
  /\ UNCHANGED <<peer, token, module, chan, live, accountVars, import>>

\* Mutant: a message does not wait for the frame that is being sent.
TakeMessageEarly(s) ==
  /\ peer[s] = "open"
  /\ Goto(s, "loop", "message") \/ Goto(s, "live", "message")
  /\ UNCHANGED <<peer, token, module, held, chan, live, seen, accountVars, import>>

TakeMessage(s) ==
  /\ peer[s] = "open"
  /\ Goto(s, "loop", "message")
  /\ UNCHANGED <<peer, token, module, held, chan, live, seen, accountVars, import>>

HandleMessage(s) ==
  /\ Goto(s, "message", "loop")
  /\ UNCHANGED <<peer, token, module, held, chan, live, seen, accountVars, import>>

\* Mutant: the channel is dropped and stays registered.
UnregisterNothing(s) ==
  /\ Goto(s, "unregister", "gone")
  /\ chan' = [chan EXCEPT ![s] = <<>>]
  /\ UNCHANGED <<peer, token, module, held, live, seen, accountVars, import>>

\* unregister_live_reply; the channel goes with the session.
Unregister(s) ==
  /\ Goto(s, "unregister", "gone")
  /\ live' = [live EXCEPT ![token[s]] = @ \ {s}]
  /\ chan' = [chan EXCEPT ![s] = <<>>]
  /\ UNCHANGED <<peer, token, module, held, seen, accountVars, import>>

-----------------------------------------------------------------------------
(* Imports. *)

Step(i, from, to) ==
  /\ import[i].pc = from
  /\ import' = [import EXCEPT ![i].pc = to]

StartImport(i, t) ==
  /\ import[i].pc = "idle"
  /\ import' = [import EXCEPT ![i].pc = "write", ![i].token = t]
  /\ UNCHANGED <<sessionVars, accountVars>>

\* Mutant: the cached module stays.
LogImportNoInvalidate(i) ==
  /\ Step(i, "write", "push")
  /\ entries' = [entries EXCEPT ![import[i].token] = @ \cup {i}]
  /\ UNCHANGED <<sessionVars, cache, gap, cacheGap>>

LogImport(i) ==
  /\ Step(i, "write", "invalidate")
  /\ entries' = [entries EXCEPT ![import[i].token] = @ \cup {i}]
  /\ UNCHANGED <<sessionVars, cache, gap, cacheGap>>

\* A build that has read without the entry will cache what it read.
InvalidateImport(i) ==
  LET t == import[i].token
      racing == {s \in Sessions : token[s] = t /\ pc[s] = "fill" /\ i \notin module[s]}
  IN
  /\ Step(i, "invalidate", "push")
  /\ cache' = [cache EXCEPT ![t] = NoModule]
  /\ cacheGap' = [cacheGap EXCEPT ![t] = {}]
  /\ gap' = [s \in Sessions |-> IF s \in racing THEN gap[s] \cup {i} ELSE gap[s]]
  /\ UNCHANGED <<sessionVars, entries>>

\* The receiver lives as long as the session's task.
Alive(s) == pc[s] # "gone"

\* push_live_insert, under the lock: channels that are closed are dropped.
PushImport(i) ==
  LET t == import[i].token
      sent == {s \in live[t] : Alive(s)}
      missing == {s \in Sessions : token[s] = t /\ pc[s] \in Between /\ i \notin module[s]}
  IN
  /\ import[i].pc = "push"
  /\ import' = [import EXCEPT ![i].pc = "done", ![i].sent = sent]
  /\ chan' = [s \in Sessions |-> IF s \in sent THEN Append(chan[s], i) ELSE chan[s]]
  /\ live' = [live EXCEPT ![t] = sent]
  /\ gap' = [s \in Sessions |-> IF s \in missing THEN gap[s] \cup {i} ELSE gap[s]]
  /\ UNCHANGED <<pc, peer, token, module, held, seen, entries, cache, cacheGap>>

\* The request's future is dropped when its peer goes away, or a statement
\* fails; what was written stays.
Abandon(i) ==
  /\ Step(i, "write", "dropped") \/ Step(i, "invalidate", "dropped") \/ Step(i, "push", "dropped")
  /\ UNCHANGED <<sessionVars, accountVars>>

-----------------------------------------------------------------------------
(* Specification. *)

Session(s) ==
  \/ SendAuth(s) \/ SendModule(s) \/ SendKey(s) \/ BuildFails(s) \/ CacheHit(s)
  \/ ReadEntries(s) \/ FillCache(s) \/ Lookup(s) \/ Register(s) \/ SendLive(s)
  \/ HandleMessage(s) \/ Unregister(s)

Client(s) == Hangup(s) \/ FirstMessage(s) \/ TakeMessage(s)

ImportStep(i) == LogImport(i) \/ InvalidateImport(i) \/ PushImport(i) \/ Abandon(i)

Next ==
  \/ \E s \in Sessions : Session(s) \/ Client(s) \/ ReceiveEnd(s) \/ TakeLive(s)
  \/ \E i \in Imports : ImportStep(i) \/ \E t \in Known : StartImport(i, t)

\* A task that can go on is polled again, and a send to a peer that does not
\* read ends when the connection breaks.  select! polls its two branches in a
\* random order, so one that is ready again and again is taken in the end.
\* The client owes nothing.
Fairness ==
  \A s \in Sessions :
    WF_vars(Session(s)) /\ SF_vars(ReceiveEnd(s)) /\ SF_vars(TakeLive(s))

Spec == Init /\ [][Next]_vars /\ Fairness

-----------------------------------------------------------------------------
(* Properties. *)

TypeOK ==
  /\ pc \in [Sessions -> {"first", "auth", "build", "drain", "unregister", "gone"}
                         \cup Between \cup Looping]
  /\ peer \in [Sessions -> {"open", "shut"}]
  /\ token \in [Sessions -> Tokens \cup {None}]
  /\ module \in [Sessions -> SUBSET Imports]
  /\ held \in [Sessions -> Imports \cup {None}]
  /\ \A s \in Sessions : pc[s] = "live" <=> held[s] # None
  /\ chan \in [Sessions -> Seq(Imports)]
  /\ live \in [Tokens -> SUBSET Sessions]
  /\ import \in [Imports -> [pc : {"idle", "write", "invalidate", "push", "done", "dropped"},
                             token : Known \cup {None}, sent : SUBSET Sessions]]
  /\ entries \in [Known -> SUBSET Imports]
  /\ cache \in [Known -> (SUBSET Imports) \cup {NoModule}]
  /\ seen \in [Sessions -> SUBSET Imports] /\ gap \in [Sessions -> SUBSET Imports]
  /\ cacheGap \in [Known -> SUBSET Imports]

\* live_replies holds exactly the sessions between Register and Unregister,
\* each under its own token: so no push finds a closed channel to drop, and
\* no session in its loop ends for want of senders.
Registered ==
  \A s \in Sessions, t \in Tokens :
    s \in live[t] <=> pc[s] \in Looping \cup {"unregister"} /\ token[s] = t

\* Whatever was imported into the account, a client in its loop has been
\* shown or is about to be, in the module or by a live frame: unless the
\* push fell between the session's choice of a module and its registration,
\* or the module came from a cache filled by a build that an import overtook.
ShownUnlessRaced ==
  \A s \in Sessions, i \in Imports :
    /\ pc[s] \in Looping /\ peer[s] = "open"
    /\ import[i].pc = "done" /\ import[i].token = token[s]
    => i \in seen[s] \cup {held[s]} \cup ToSet(chan[s]) \cup gap[s]

\* An import's answer counts a session only if its client is shown the frame
\* in the end, or has left.
CountedIsShown ==
  \A i \in Imports, s \in Sessions :
    s \in import[i].sent ~> i \in seen[s] \/ peer[s] = "shut"

\* A session whose client is gone ends, and leaves nothing registered.
LeavesNothing ==
  \A s \in Sessions :
    peer[s] = "shut" ~> pc[s] = "gone" /\ \A t \in Tokens : s \notin live[t]

=============================================================================
