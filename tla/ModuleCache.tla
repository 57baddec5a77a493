------------------------------ MODULE ModuleCache ------------------------------
(***************************************************************************)
(* The module cache (AppState::module_cache) of one account over its       *)
(* entries.  A connection that opens is sent the cached module or, when    *)
(* there is none, one built from four SELECTs and then cached; the         *)
(* handlers of EntryStore drop the cached module after what they change.   *)
(* Nothing orders a build against a handler, so this module says when the  *)
(* cached module may be out of date, and through which lines of the        *)
(* handlers.                                                               *)
(***************************************************************************)
EXTENDS EntryStore

CONSTANTS
  Openers,   \* connections being opened: each runs build_user_module
  BadBlobs,  \* type-7 blobs that are not standard base64 of MessagePack
  NoModule   \* no cached module

ASSUME OpenersAssumption == Openers \cap Tasks = {}

ASSUME BadBlobsAssumption == BadBlobs \subseteq Blobs

VARIABLES
  cache,   \* module_cache[user]
  build,   \* what each opening connection has read so far
  dirty,   \* history: the task changed what modules are built from since
           \* it last invalidated
  taint    \* history: why the cached module may be out of date

cacheVars == <<cache, build, dirty, taint>>

-----------------------------------------------------------------------------
(* The module. *)

\* One log row as build_module_bin shows it: named after the script with its
\* id, else the style with its id, else its own type; a script with its
\* text.  A style without a row is left out.  The table configs is not
\* looked at.
Shown(l, scripts, styles) ==
  LET script == scripts[l.id]
      style  == styles[l.id]
  IN
  IF l.type = "Style"
  THEN [row |-> l, name |-> style.name, text |-> style.content]
  ELSE [row  |-> l,
        name |-> IF script # None THEN script.name
                 ELSE IF style # None THEN style.name ELSE l.type,
        text |-> IF l.type = "Script" /\ script # None THEN script.content ELSE None]

ModuleOf(in) ==
  [blob    |-> in.blob,
   entries |-> {Shown(l, in.scripts, in.styles) :
                  l \in {k \in in.log : k.type = "Style" => in.styles[k.id] # None}}]

\* What a module is built from.
Inputs ==
  [blob |-> blob, log |-> log, scripts |-> rows["Script"], styles |-> rows["Style"]]

Current == ModuleOf(Inputs)

\* Mutant: any blob will do.
DecodesAny(b) == TRUE

\* decode_type7_blob fails on a blob that is not standard base64 of
\* MessagePack, and the build with it.
Decodes(b) == b \notin BadBlobs

-----------------------------------------------------------------------------
(* Opening a connection: build_user_module. *)

NoBuild == [pc |-> "idle", read |-> [blob |-> None], missed |-> {}]

Building(o) == build[o].pc # "idle"

\* A step of the build that read value v as its input of that name.
Read(o, from, name, v, to) ==
  /\ build[o].pc = from
  /\ build' = [build EXCEPT ![o].pc = to,
                 ![o].read = [n \in DOMAIN @ \cup {name} |->
                                IF n = name THEN v ELSE @[n]]]
  /\ UNCHANGED <<vars, cache, dirty, taint>>

\* The user's row, and with it the type-7 blob.
GetUser(o) == Read(o, "idle", "blob", blob, "checkCache")

CheckCache(o) ==
  /\ build[o].pc = "checkCache"
  /\ build' = [build EXCEPT ![o] =
                 IF cache = NoModule THEN [@ EXCEPT !.pc = "readLog"] ELSE NoBuild]
  /\ UNCHANGED <<vars, cache, dirty, taint>>

ReadLog(o) == Read(o, "readLog", "log", log, "readScripts")

\* Mutant: the styles are not read.
ReadScriptsLast(o) == Read(o, "readScripts", "scripts", rows["Script"], "setModule")

ReadScripts(o) == Read(o, "readScripts", "scripts", rows["Script"], "readStyles")

ReadStyles(o) == Read(o, "readStyles", "styles", rows["Style"], "setModule")

SetModule(o) ==
  /\ build[o].pc = "setModule" /\ Decodes(build[o].read.blob)
  /\ cache' = ModuleOf(build[o].read)
  /\ taint' = build[o].missed
  /\ build' = [build EXCEPT ![o] = NoBuild]
  /\ UNCHANGED <<vars, dirty>>

\* A SELECT or the encoding fails: the connection is closed.
BuildFails(o) ==
  /\ Building(o)
  /\ \/ Faulty /\ build[o].pc # "checkCache"
     \/ build[o].pc = "setModule" /\ ~Decodes(build[o].read.blob)
  /\ build' = [build EXCEPT ![o] = NoBuild]
  /\ UNCHANGED <<vars, cache, dirty, taint>>

-----------------------------------------------------------------------------
(* The handlers. *)

\* An invalidation passed this build by.
Race == <<"build", "setModule">>

\* What the builds under way will not know of.
Missed(why) ==
  build' = [o \in Openers |->
              IF Building(o) THEN [build[o] EXCEPT !.missed = @ \cup why]
              ELSE build[o]]

\* A step of a handler other than an invalidation.  One that ends the
\* handler, its changes not followed by an invalidation, is remembered by
\* the operation and the step.
Watch(t) ==
  LET changed == dirty[t] \/ Inputs' # Inputs
      escaped == IF changed /\ ~Busy(t)'
                 THEN {<<task[t].msg.op, task[t].pc>>} ELSE {}
  IN
  /\ dirty' = [dirty EXCEPT ![t] = changed /\ Busy(t)']
  /\ taint' = taint \cup escaped
  /\ Missed(escaped)
  /\ UNCHANGED cache

\* Mutant: the invalidation misses the cached module.
InvalidateNothing(t) ==
  /\ Invalidate(t)
  /\ taint' = {}
  /\ dirty' = [dirty EXCEPT ![t] = FALSE]
  /\ Missed({Race})
  /\ UNCHANGED cache

InvalidateModule(t) ==
  /\ Invalidate(t)
  /\ cache' = NoModule
  /\ taint' = {}
  /\ dirty' = [dirty EXCEPT ![t] = FALSE]
  /\ Missed({Race})

\* The cache lives in the process.
CrashCache ==
  /\ Crash
  /\ cache' = NoModule
  /\ taint' = {}
  /\ dirty' = [t \in Tasks |-> FALSE]
  /\ build' = [o \in Openers |-> NoBuild]

CacheInit ==
  /\ Init
  /\ cache = NoModule
  /\ build = [o \in Openers |-> NoBuild]
  /\ dirty = [t \in Tasks |-> FALSE]
  /\ taint = {}

CacheNext ==
  \/ \E t \in Tasks :
       \/ /\ \/ \E m \in Messages : Receive(t, m)
             \/ Statement(t) \/ Reply(t) \/ StatementFails(t)
             \/ t \in Requests /\ HangUp(t)
          /\ Watch(t)
       \/ InvalidateModule(t)
  \/ \E o \in Openers :
       \/ GetUser(o) \/ CheckCache(o) \/ ReadLog(o) \/ ReadScripts(o)
       \/ ReadStyles(o) \/ SetModule(o) \/ BuildFails(o)
  \/ CrashCache

CacheSpec == CacheInit /\ [][CacheNext]_<<vars, cacheVars>>

-----------------------------------------------------------------------------
(* Properties. *)

\* The cached module is what a build would give now, unless a handler has
\* changed something and will still invalidate, the build that made it was
\* overtaken by an invalidation, or a change was never invalidated.
Fresh ==
  cache = NoModule \/ cache = Current \/ taint # {} \/ \E t \in Tasks : dirty[t]

\* Where handlers end with a change they have not invalidated: a duplicate
\* adds its log row after the invalidation, an update of the timestamp alone
\* has none, a create that loses its row to another leaves its log row, an
\* admin handler may invalidate another account, and a create_style that has
\* renamed another's row ends its handler if that row is then deleted.
PlainSites ==
  {<<"duplicate", "reply">>, <<"update", "touchLog">>, <<"create", "insertRow">>,
   <<"adminUpdate", "adminLog">>, <<"adminDelete", "adminLog">>,
   <<"duplicate", "insertRow">>, <<"import", "insertRow">>}

\* And where a failing statement ends them.
ErrorSites ==
  {<<"duplicate", "copyText">>, <<"import", "copyText">>, <<"import", "insertLog">>}

\* And where a request may be dropped.
HangUpSites ==
  {<<"import", s>> : s \in {"copyText", "insertLog", "invalidate"}} \cup
  {<<op, "invalidate">> : op \in Admin}

\* A change goes without an invalidation through the sites above and no
\* others.
EscapeSites ==
  taint \subseteq {Race} \cup PlainSites
                    \cup (IF Faulty THEN ErrorSites ELSE {})
                    \cup (IF Crashes THEN HangUpSites ELSE {})

\* ws.rs:875, ws.rs:916 and others: "Invalidate cached module since data
\* changed".  With no handler and no build at work, the cached module shows
\* the data.
CacheCoherent ==
  Quiescent /\ (\A o \in Openers : ~Building(o)) => cache \in {NoModule, Current}

\* module_builder.rs:34: "Use row name from DB if available, otherwise fall
\* back to entry_type."
ConfigNamed ==
  cache # NoModule /\ cache = Current =>
    \A e \in cache.entries :
      e.row.type = "Config" /\ rows["Config"][e.row.id] # None =>
        e.name = rows["Config"][e.row.id].name

Entry ==
  [row : LogRow, name : Names \cup Types, text : Contents \cup {None}]

Module == [blob : Blobs \cup {None}, entries : SUBSET Entry]

InputTypes ==
  [blob |-> Blobs \cup {None}, log |-> SUBSET LogRow,
   scripts |-> [Ids -> Row \cup {None}], styles |-> [Ids -> Row \cup {None}]]

BuildSteps ==
  {"idle", "checkCache", "readLog", "readScripts", "readStyles", "setModule"}

\* What a build has read by step s.
Known(s) ==
  CASE s \in {"idle", "checkCache", "readLog"} -> {"blob"}
    [] s = "readScripts" -> {"blob", "log"}
    [] s = "readStyles"  -> {"blob", "log", "scripts"}
    [] OTHER             -> {"blob", "log", "scripts", "styles"}

\* The step of a handler, or of a build, at which a change got away.
Cause == (SocketOps \cup RequestOps \cup {"build"}) \X (Steps \cup {"setModule"})

\* The type invariant: the cache holds no module or one whose entries are
\* named by a row or a type, and a build has read by each of its steps just
\* the inputs the SELECTs before that step return.
CacheTypeOK ==
  /\ TypeOK
  /\ cache \in Module \cup {NoModule}
  /\ \A o \in Openers :
       LET b == build[o] IN
       /\ b.pc \in BuildSteps /\ DOMAIN b.read = Known(b.pc)
       /\ \A n \in Known(b.pc) : b.read[n] \in InputTypes[n]
       /\ b.missed \subseteq Cause
  /\ dirty \in [Tasks -> BOOLEAN]
  /\ taint \subseteq Cause

\* A type-7 blob is stored unlooked at, and one that does not decode locks
\* the account out: once its handler has invalidated, there is no module to
\* be sent from the cache, and no build under way will make one, but through
\* a race or an escape that Fresh knows of.
LockedOut ==
  blob \in BadBlobs /\ (\A t \in Tasks : ~dirty[t]) =>
    /\ cache = NoModule \/ taint # {}
    /\ \A o \in Openers :
         build[o].pc = "setModule" /\ build[o].read.blob \notin BadBlobs =>
           build[o].missed # {}

=============================================================================
