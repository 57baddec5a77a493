---------------------------- MODULE SharingProofs ----------------------------
(***************************************************************************)
(* The properties of accounts, of a server's starts and of share codes as  *)
(* theorems of SharingSpec, for any names, tokens, requests, uuids and     *)
(* codes, and any number of crashes and lost files.  The first part shows  *)
(* what a step of Accounts keeps, and the second that Sharing's steps keep *)
(* it too.                                                                 *)
(***************************************************************************)
EXTENDS Sharing, TLAPS

-----------------------------------------------------------------------------
(* Accounts and the server's start. *)

\* A request is a record, and one that makes an account names it.
RequestsOK ==
  /\ \A r \in Requests : DOMAIN req[r] = {"pc", "name", "token", "about"}
  /\ \A r \in Requests :
       req[r].pc \in {"check", "base", "insert", "created"} =>
         req[r].name \in Names /\ req[r].token \in Tokens \cup {None}

\* Where a start has passed the seeding.
Seeded == {"entries", "tls", "openCert", "writeCert", "openKey", "writeKey", "load", "serving"}

\* There is no account without the default one, and no base module but with
\* it, outside the seeding itself and what a start that died there leaves.
SeedInv ==
  /\ ~seedOk => bases = {}
  /\ ~NoUsers => bases # {} /\ users[Default] = Default
  /\ life = "base" => NoUsers /\ seedOk
  /\ life = "user" => NoUsers /\ bases # {} /\ seedOk
  /\ life \in Seeded /\ seedOk => users[Default] = Default

TokensUnique ==
  \A n, m \in Names : users[n] # None /\ users[n] = users[m] => n = m

\* An account that is about to be told of, or was, is in the table.
ToldInv ==
  /\ AccountKept
  /\ \A r \in Requests :
       req[r].pc = "created" => req[r].token \in Tokens /\ users[req[r].name] = req[r].token

\* A base module without users is what a start leaves that died as "user".
HalfInv == NoUsers /\ bases # {} => life = "user" \/ "user" \in cut

Rewriting == {"writeCert", "openKey", "writeKey"}

\* The TLS files as a start leaves them that did not die in writing them.
FilesInv ==
  /\ life = "openCert" => cert = "absent" \/ key = "absent"
  /\ cut \subseteq {"user"} =>
       /\ life \notin Rewriting =>
            /\ cert # "cut" /\ key # "cut"
            /\ cert # "absent" /\ key # "absent" => ~stale
       /\ life \in {"openKey", "writeKey"} => cert = "whole"
       /\ life = "writeKey" => ~stale

AccountInv ==
  TypeOK /\ RequestsOK /\ SeedInv /\ TokensUnique /\ ToldInv /\ HalfInv /\ FilesInv

-----------------------------------------------------------------------------

LEMMA AccountInit == Init => AccountInv
<1> SUFFICES ASSUME Init
             PROVE  AccountInv
  OBVIOUS
<1>1. TypeOK
  <2>1. crashes \in 0 .. MaxCrashes /\ losses \in 0 .. MaxLosses
    BY BoundsAssumption DEF Init
  <2>2. DOMAIN req = Requests /\ users \in [Names -> Tokens \cup {None}]
    BY DEF Init
  <2> QED
    BY <2>1, <2>2 DEF Init, TypeOK
<1>2. RequestsOK /\ ToldInv /\ TokensUnique
  BY DEF Init, RequestsOK, Idle, ToldInv, AccountKept, TokensUnique
<1>3. SeedInv /\ HalfInv
  BY DEF Init, SeedInv, HalfInv, NoUsers, Seeded
<1>4. FilesInv
  BY DEF Init, FilesInv, Rewriting
<1> QED
  BY <1>1, <1>2, <1>3, <1>4 DEF AccountInv

\* A step that leaves the tables and the requests alone.
LEMMA TablesKept ==
  ASSUME AccountInv, UNCHANGED <<users, req, told>>
  PROVE  RequestsOK' /\ TokensUnique' /\ ToldInv'
BY DEF AccountInv, RequestsOK, TokensUnique, ToldInv, AccountKept

-----------------------------------------------------------------------------
(* main(). *)

LEMMA BootType ==
  ASSUME TypeOK, Boot
  PROVE  TypeOK'
<1> USE DEF TypeOK, From, Panic
<1>1. CASE Restart \/ CountUsers \/ SeedEntries \/ EnsureCerts \/ LoadCerts
  BY <1>1 DEF Restart, CountUsers, SeedEntries, EnsureCerts, LoadCerts
<1>2. CASE SeedBase
  BY <1>2 DEF SeedBase
<1>3. CASE SeedUser
  BY <1>3, DefaultAssumption DEF SeedUser
<1>4. CASE OpenCert \/ WriteCert \/ OpenKey \/ WriteKey
  BY <1>4 DEF OpenCert, WriteCert, OpenKey, WriteKey
<1> QED
  BY <1>1, <1>2, <1>3, <1>4 DEF Boot

LEMMA BootSeeds ==
  ASSUME AccountInv, Boot
  PROVE  SeedInv' /\ HalfInv'
<1> USE DEF AccountInv, SeedInv, HalfInv, NoUsers, From, Panic, Seeded
<1>1. CASE Restart \/ CountUsers \/ SeedEntries \/ EnsureCerts \/ LoadCerts
  BY <1>1, DefaultAssumption, NoneAssumption
     DEF Restart, CountUsers, SeedEntries, EnsureCerts, LoadCerts
<1>2. CASE SeedBase
  BY <1>2, DefaultAssumption, NoneAssumption DEF SeedBase
<1>3. CASE SeedUser
  BY <1>3, DefaultAssumption, NoneAssumption DEF SeedUser, TypeOK
<1>4. CASE OpenCert \/ WriteCert \/ OpenKey \/ WriteKey
  BY <1>4, DefaultAssumption, NoneAssumption DEF OpenCert, WriteCert, OpenKey, WriteKey
<1> QED
  BY <1>1, <1>2, <1>3, <1>4 DEF Boot

LEMMA BootFiles ==
  ASSUME AccountInv, Boot
  PROVE  FilesInv'
<1> USE DEF AccountInv, FilesInv, From, Panic, Rewriting
<1>1. CASE Restart \/ CountUsers \/ SeedBase \/ SeedUser \/ SeedEntries
  BY <1>1 DEF Restart, CountUsers, SeedBase, SeedUser, SeedEntries
<1>2. CASE EnsureCerts \/ LoadCerts
  BY <1>2 DEF EnsureCerts, LoadCerts, Usable
<1>3. CASE OpenCert \/ WriteCert \/ OpenKey \/ WriteKey
  BY <1>3 DEF OpenCert, WriteCert, OpenKey, WriteKey
<1> QED
  BY <1>1, <1>2, <1>3 DEF Boot

LEMMA BootTables ==
  ASSUME AccountInv, Boot
  PROVE  RequestsOK' /\ TokensUnique' /\ ToldInv'
<1>1. CASE SeedUser
  <2>1. NoUsers /\ told' = told /\ req' = req
    BY <1>1 DEF SeedUser, From, AccountInv, SeedInv
  <2>2. \A r \in Requests : req[r].pc # "created"
    BY <2>1, NoneAssumption DEF AccountInv, RequestsOK, ToldInv, NoUsers
  <2>3. told = {}
    BY <2>1, NoneAssumption DEF AccountInv, ToldInv, AccountKept, TypeOK, NoUsers
  <2>4. TokensUnique'
    <3>1. \A n \in Names \ {Default} : users'[n] = None
      BY <1>1, <2>1 DEF SeedUser, NoUsers, AccountInv, TypeOK
    <3> QED
      BY <3>1 DEF TokensUnique
  <2> QED
    BY <2>1, <2>2, <2>3, <2>4 DEF AccountInv, RequestsOK, ToldInv, AccountKept
<1>2. CASE ~SeedUser
  <2>1. UNCHANGED <<users, req, told>>
    BY <1>2 DEF Boot, Restart, CountUsers, SeedBase, SeedEntries, EnsureCerts, OpenCert, WriteCert,
                OpenKey, WriteKey, LoadCerts
  <2> QED
    BY <2>1, TablesKept
<1> QED
  BY <1>1, <1>2

-----------------------------------------------------------------------------
(* The process dies, or a file is lost while it does not run. *)

LEMMA CrashKeeps ==
  ASSUME AccountInv, Crash
  PROVE  AccountInv'
<1>1. /\ UNCHANGED <<seedOk, users, bases, seeded, cert, key, stale, told, losses>>
      /\ life' = "down" /\ cut' = cut \cup ({life} \cap Fragile)
      /\ req' = [r \in Requests |-> Idle]
  BY DEF Crash
<1>2. TypeOK'
  <2>1. crashes' \in 0 .. MaxCrashes
    BY BoundsAssumption DEF Crash, AccountInv, TypeOK
  <2>2. DOMAIN req' = Requests /\ cut' \subseteq Fragile
    BY <1>1 DEF AccountInv, TypeOK
  <2> QED
    BY <1>1, <2>1, <2>2 DEF AccountInv, TypeOK
<1>3. RequestsOK' /\ TokensUnique' /\ ToldInv'
  BY <1>1 DEF AccountInv, RequestsOK, TokensUnique, ToldInv, AccountKept, Idle
<1>4. SeedInv' /\ HalfInv'
  BY <1>1 DEF AccountInv, SeedInv, HalfInv, NoUsers, Seeded, Fragile
<1>5. FilesInv'
  BY <1>1 DEF AccountInv, FilesInv, Rewriting, Fragile
<1> QED
  BY <1>2, <1>3, <1>4, <1>5 DEF AccountInv

LEMMA LossKeeps ==
  ASSUME AccountInv, LoseFile
  PROVE  AccountInv'
<1>1. TypeOK'
  <2>1. losses' \in 0 .. MaxLosses
    BY BoundsAssumption DEF LoseFile, AccountInv, TypeOK
  <2>2. {cert', key'} \subseteq {"absent", "cut", "whole"} /\ stale' = FALSE
    BY DEF LoseFile, AccountInv, TypeOK
  <2>3. UNCHANGED <<life, seedOk, users, bases, seeded, req, told, cut, crashes>>
    BY DEF LoseFile
  <2> QED
    BY <2>1, <2>2, <2>3 DEF AccountInv, TypeOK
<1>2. RequestsOK' /\ TokensUnique' /\ ToldInv'
  BY TablesKept DEF LoseFile
<1>3. SeedInv' /\ HalfInv'
  BY DEF LoseFile, AccountInv, SeedInv, HalfInv, NoUsers, Seeded
<1>4. FilesInv'
  BY DEF LoseFile, AccountInv, FilesInv, Rewriting
<1> QED
  BY <1>1, <1>2, <1>3, <1>4 DEF AccountInv

-----------------------------------------------------------------------------
(* Requests. *)

\* A request that makes no account, of this module or another.
LEMMA RequestMoves ==
  ASSUME AccountInv, NEW r \in Requests, NEW to, req' = [req EXCEPT ![r] = to],
         DOMAIN to = {"pc", "name", "token", "about"},
         to.pc \in {"check", "base", "insert"} => to.name \in Names /\ to.token \in Tokens \cup {None},
         to.pc # "created",
         UNCHANGED <<bootVars, seedOk, users, bases, told>>
  PROVE  AccountInv'
<1>1. /\ \A q \in Requests \ {r} : req'[q] = req[q]
      /\ req'[r] = to /\ DOMAIN req' = Requests
  BY DEF AccountInv, TypeOK
<1>2. TypeOK'
  BY <1>1 DEF AccountInv, TypeOK, bootVars
<1>3. RequestsOK' /\ TokensUnique' /\ ToldInv'
  BY <1>1 DEF AccountInv, RequestsOK, TokensUnique, ToldInv, AccountKept
<1>4. SeedInv' /\ HalfInv' /\ FilesInv'
  BY DEF AccountInv, SeedInv, HalfInv, FilesInv, NoUsers, Seeded, Rewriting, bootVars
<1> QED
  BY <1>2, <1>3, <1>4 DEF AccountInv

LEMMA RefusedRecord ==
  DOMAIN Refused = {"pc", "name", "token", "about"} /\ Refused.pc = "idle"
BY DEF Refused, Idle

LEMMA InsertionRecord ==
  ASSUME NEW n, NEW t
  PROVE  /\ DOMAIN Insertion(n, t) = {"pc", "name", "token", "about"}
         /\ Insertion(n, t).pc = "insert" /\ Insertion(n, t).name = n /\ Insertion(n, t).token = t
BY DEF Insertion, Idle

\* A server that serves has its base module already: what a request would
\* insert is there, or the module does not parse.
LEMMA BasesKept ==
  ASSUME AccountInv, NEW r \in Requests, AdminSeed(r) \/ FindBase(r)
  PROVE  bases' = bases
<1>1. life = "serving"
  BY DEF AdminSeed, FindBase, Handle
<1>2. seedOk => bases # {}
  BY <1>1, DefaultAssumption, NoneAssumption DEF AccountInv, SeedInv, Seeded, NoUsers
<1> QED
  BY <1>2 DEF AdminSeed, FindBase, AccountInv, TypeOK

LEMMA InsertKeeps ==
  ASSUME AccountInv, NEW r \in Requests, InsertUser(r)
  PROVE  AccountInv'
<1> DEFINE n == req[r].name
<1>1. /\ life = "serving" /\ req[r].pc = "insert" /\ n \in Names
      /\ DOMAIN req[r] = {"pc", "name", "token", "about"}
      /\ UNCHANGED <<bootVars, seedOk, bases, told>>
  BY DEF InsertUser, Handle, AccountInv, RequestsOK
<1>2. PICK t \in IF req[r].token = None THEN Fresh ELSE {req[r].token} :
        IF bases # {} /\ Accepts(n, t)
        THEN /\ Handle(r, "insert", [req[r] EXCEPT !.pc = "created", !.token = t])
             /\ users' = [users EXCEPT ![n] = t]
        ELSE Handle(r, "insert", Refused) /\ UNCHANGED users
  BY DEF InsertUser
<1>3. t \in Tokens
  BY <1>1, <1>2 DEF Fresh, AccountInv, RequestsOK
<1>4. CASE bases # {} /\ Accepts(n, t)
  <2> DEFINE to == [req[r] EXCEPT !.pc = "created", !.token = t]
  <2>1. /\ DOMAIN to = {"pc", "name", "token", "about"}
        /\ to.pc = "created" /\ to.name = n /\ to.token = t
    BY <1>1
  <2>2. req' = [req EXCEPT ![r] = to] /\ users' = [users EXCEPT ![n] = t]
    BY <1>2, <1>4 DEF Handle
  <2>3. /\ users[n] = None /\ \A m \in Names : users[m] # t
        /\ \A m \in Names \ {n} : users'[m] = users[m]
        /\ users'[n] = t
    BY <1>1, <1>4, <2>2 DEF Accepts, Taken, AccountInv, TypeOK
  <2>4. /\ \A q \in Requests \ {r} : req'[q] = req[q]
        /\ req'[r] = to /\ DOMAIN req' = Requests
    BY <2>2 DEF AccountInv, TypeOK
  <2> HIDE DEF to
  <2>5. TypeOK'
    BY <1>1, <1>3, <2>2, <2>4 DEF AccountInv, TypeOK, bootVars
  <2>6. RequestsOK'
    BY <1>1, <1>3, <2>1, <2>4 DEF AccountInv, RequestsOK
  <2>7. TokensUnique'
    BY <2>3 DEF AccountInv, TokensUnique
  <2>8. users[Default] = Default /\ Default # None /\ Default \in Names
    BY <1>1, <1>4, DefaultAssumption, NoneAssumption DEF AccountInv, SeedInv, Seeded
  <2>9. SeedInv' /\ HalfInv'
    BY <1>1, <1>4, <2>3, <2>8 DEF AccountInv, SeedInv, HalfInv, NoUsers, Seeded, bootVars
  <2>10. ToldInv'
    <3>1. \A m \in Names : users[m] \in Tokens => users'[m] = users[m]
      BY <2>3, NoneAssumption
    <3>2. AccountKept'
      BY <1>1, <3>1 DEF AccountInv, ToldInv, AccountKept, TypeOK
    <3>3. ASSUME NEW q \in Requests, req'[q].pc = "created"
          PROVE  req'[q].token \in Tokens /\ users'[req'[q].name] = req'[q].token
      <4>1. CASE q = r
        BY <4>1, <1>3, <2>1, <2>3, <2>4
      <4>2. CASE q # r
        BY <4>2, <3>1, <3>3, <2>4 DEF AccountInv, ToldInv, RequestsOK
      <4> QED
        BY <4>1, <4>2
    <3> QED
      BY <3>2, <3>3 DEF ToldInv
  <2>11. FilesInv'
    BY <1>1 DEF AccountInv, FilesInv, Rewriting, bootVars
  <2> QED
    BY <2>5, <2>6, <2>7, <2>9, <2>10, <2>11 DEF AccountInv
<1>5. CASE ~(bases # {} /\ Accepts(n, t))
  <2>1. req' = [req EXCEPT ![r] = Refused] /\ UNCHANGED users
    BY <1>2, <1>5 DEF Handle
  <2> QED
    BY <1>1, <2>1, RefusedRecord, RequestMoves
<1> QED
  BY <1>4, <1>5

LEMMA AnswerKeeps ==
  ASSUME AccountInv, NEW r \in Requests, Answer(r)
  PROVE  AccountInv'
<1>1. /\ req' = [req EXCEPT ![r] = Idle] /\ req[r].pc = "created"
      /\ told' = told \cup {<<req[r].name, req[r].token>>}
      /\ UNCHANGED <<bootVars, seedOk, users, bases>>
  BY DEF Answer, Handle
<1>2. /\ req[r].name \in Names /\ req[r].token \in Tokens
      /\ users[req[r].name] = req[r].token
  BY <1>1 DEF AccountInv, RequestsOK, ToldInv
<1>3. /\ \A q \in Requests \ {r} : req'[q] = req[q]
      /\ req'[r] = Idle /\ DOMAIN req' = Requests
  BY <1>1 DEF AccountInv, TypeOK
<1>4. TypeOK'
  BY <1>1, <1>2, <1>3 DEF AccountInv, TypeOK, bootVars
<1>5. RequestsOK' /\ TokensUnique'
  BY <1>1, <1>3 DEF AccountInv, RequestsOK, TokensUnique, Idle
<1>6. ToldInv'
  BY <1>1, <1>2, <1>3 DEF AccountInv, ToldInv, AccountKept, Idle
<1>7. SeedInv' /\ HalfInv' /\ FilesInv'
  BY <1>1 DEF AccountInv, SeedInv, HalfInv, FilesInv, NoUsers, Seeded, Rewriting, bootVars
<1> QED
  BY <1>4, <1>5, <1>6, <1>7 DEF AccountInv

LEMMA RequestKeeps ==
  ASSUME AccountInv, NEW r \in Requests, Request(r)
  PROVE  AccountInv'
<1>1. ASSUME NEW n \in Names, SignUp(r, n) PROVE AccountInv'
  <2> DEFINE to == [Idle EXCEPT !.pc = "check", !.name = n]
  <2>1. /\ DOMAIN to = {"pc", "name", "token", "about"}
        /\ to.pc = "check" /\ to.name = n /\ to.token = None
    BY DEF Idle
  <2>2. req' = [req EXCEPT ![r] = to]
    BY <1>1 DEF SignUp, Handle
  <2> HIDE DEF to
  <2> QED
    BY <1>1, <2>1, <2>2, RequestMoves DEF SignUp
<1>2. ASSUME NEW n \in Names, NEW t \in Tokens, AdminCreateUser(r, n, t) PROVE AccountInv'
  <2> DEFINE to == Insertion(n, t)
  <2>1. /\ DOMAIN to = {"pc", "name", "token", "about"}
        /\ to.pc = "insert" /\ to.name = n /\ to.token = t
    BY InsertionRecord
  <2>2. req' = [req EXCEPT ![r] = to]
    BY <1>2 DEF AdminCreateUser, Handle
  <2> HIDE DEF to
  <2> QED
    BY <1>2, <2>1, <2>2, RequestMoves DEF AdminCreateUser
<1>3. CASE AdminSeed(r)
  <2>1. bases' = bases
    BY <1>3, BasesKept
  <2>2. PICK to \in {Insertion(Default, Default), Refused} : req' = [req EXCEPT ![r] = to]
    BY <1>3 DEF AdminSeed, Handle
  <2>3. /\ DOMAIN to = {"pc", "name", "token", "about"} /\ to.pc \in {"insert", "idle"}
        /\ to.pc = "insert" => to.name = Default /\ to.token = Default
    BY <2>2, InsertionRecord, RefusedRecord
  <2> QED
    BY <1>3, <2>1, <2>2, <2>3, RequestMoves, DefaultAssumption DEF AdminSeed
<1>4. CASE CheckName(r)
  <2>1. /\ DOMAIN req[r] = {"pc", "name", "token", "about"}
        /\ req[r].name \in Names /\ req[r].token \in Tokens \cup {None}
    BY <1>4 DEF CheckName, Handle, AccountInv, RequestsOK
  <2>2. PICK to \in {[req[r] EXCEPT !.pc = "base"], Refused} : req' = [req EXCEPT ![r] = to]
    BY <1>4 DEF CheckName, Handle
  <2>3. /\ DOMAIN to = {"pc", "name", "token", "about"} /\ to.pc \in {"base", "idle"}
        /\ to.pc = "base" => to.name = req[r].name /\ to.token = req[r].token
    BY <2>1, <2>2 DEF Refused, Idle
  <2> QED
    BY <1>4, <2>1, <2>2, <2>3, RequestMoves DEF CheckName
<1>5. CASE FindBase(r)
  <2>1. /\ DOMAIN req[r] = {"pc", "name", "token", "about"}
        /\ req[r].name \in Names /\ req[r].token \in Tokens \cup {None}
    BY <1>5 DEF FindBase, Handle, AccountInv, RequestsOK
  <2>2. PICK to \in {[req[r] EXCEPT !.pc = "insert"], Refused} : req' = [req EXCEPT ![r] = to]
    BY <1>5 DEF FindBase, Handle
  <2>3. /\ DOMAIN to = {"pc", "name", "token", "about"} /\ to.pc \in {"insert", "idle"}
        /\ to.pc = "insert" => to.name = req[r].name /\ to.token = req[r].token
    BY <2>1, <2>2 DEF Refused, Idle
  <2>4. bases' = bases
    BY <1>5, BasesKept
  <2> QED
    BY <1>5, <2>1, <2>2, <2>3, <2>4, RequestMoves DEF FindBase
<1> QED
  BY <1>1, <1>2, <1>3, <1>4, <1>5, InsertKeeps, AnswerKeeps DEF Request

LEMMA AccountNext ==
  ASSUME AccountInv, Next
  PROVE  AccountInv'
<1>1. CASE Boot
  BY <1>1, BootType, BootSeeds, BootFiles, BootTables DEF AccountInv
<1> QED
  BY <1>1, CrashKeeps, LossKeeps, RequestKeeps DEF Next

-----------------------------------------------------------------------------
(* What the invariant says. *)

LEMMA AccountsResolve ==
  ASSUME AccountInv
  PROVE  TokenResolves
<1> SUFFICES ASSUME NEW n \in Names, NEW t \in Tokens
             PROVE  users[n] = t <=> Resolve(t) = n
  BY DEF TokenResolves
<1>1. t # None /\ n # None
  BY NoneAssumption
<1>2. CASE t = Default /\ users[Default] # None
  <2>1. users[Default] = Default
    BY <1>2, DefaultAssumption DEF AccountInv, SeedInv, NoUsers
  <2>2. users[n] = t <=> n = Default
    BY <1>1, <1>2, <2>1, DefaultAssumption DEF AccountInv, TokensUnique
  <2> QED
    BY <1>2, <2>2 DEF Resolve
<1>3. CASE ~(t = Default /\ users[Default] # None)
  <2> DEFINE holder == CHOOSE m \in Names : users[m] = t
  <2>1. CASE Taken(t)
    <3>1. holder \in Names /\ users[holder] = t
      BY <2>1 DEF Taken
    <3>2. users[n] = t <=> holder = n
      BY <3>1, <1>1 DEF AccountInv, TokensUnique
    <3> QED
      BY <1>3, <2>1, <3>2 DEF Resolve
  <2>2. CASE ~Taken(t)
    BY <1>1, <1>3, <2>2 DEF Resolve, Taken
  <2> QED
    BY <2>1, <2>2
<1> QED
  BY <1>2, <1>3

LEMMA AccountsHold ==
  ASSUME AccountInv
  PROVE  TypeOK /\ AccountKept /\ ServesSeeded /\ WedgedOnlyByCrash
<1>1. ServesSeeded
  BY DefaultAssumption, NoneAssumption DEF AccountInv, SeedInv, ServesSeeded, Seeded, NoUsers
<1>2. HalfSeeded => "user" \in cut
  BY DEF HalfSeeded, AccountInv, HalfInv
<1>3. BrokenPair => cut \ {"user"} # {}
  <2>1. {cert, key} \subseteq {"absent", "cut", "whole"}
    BY DEF AccountInv, TypeOK
  <2> QED
    BY <2>1 DEF BrokenPair, Usable, AccountInv, FilesInv, Rewriting
<1> QED
  BY <1>1, <1>2, <1>3 DEF AccountInv, ToldInv, WedgedOnlyByCrash

\* The same for the properties of a step.
LEMMA StepBases ==
  ASSUME AccountInv, Next, bases' # bases
  PROVE  life = "base"
BY BasesKept DEF Next, Boot, Crash, LoseFile, Restart, CountUsers, SeedBase, SeedUser, SeedEntries,
     EnsureCerts, OpenCert, WriteCert, OpenKey, WriteKey, LoadCerts, Request, SignUp,
     AdminCreateUser, CheckName, InsertUser, Answer, From, Panic

LEMMA StepRepairs ==
  ASSUME AccountInv, Next
  PROVE  /\ HalfSeeded => HalfSeeded'
         /\ ~NoUsers /\ life # "entries" => seeded' = seeded
         /\ BrokenPair /\ losses' = losses => BrokenPair'
<1>1. CASE \E r \in Requests : Request(r)
  <2>1. life = "serving" /\ UNCHANGED <<bootVars, seedOk>>
    BY <1>1 DEF Request, SignUp, AdminSeed, AdminCreateUser, CheckName, FindBase, InsertUser,
                Answer, Handle
  <2>2. ~HalfSeeded
    BY <2>1, DefaultAssumption, NoneAssumption DEF HalfSeeded, NoUsers, AccountInv, SeedInv, Seeded
  <2> QED
    BY <2>1, <2>2 DEF BrokenPair, Usable, bootVars
<1>2. CASE Crash \/ LoseFile
  <2>1. UNCHANGED <<seedOk, users, bases, seeded>> /\ life' = "down"
    BY <1>2 DEF Crash, LoseFile
  <2>2. CASE Crash
    BY <2>1, <2>2 DEF Crash, HalfSeeded, NoUsers, BrokenPair, Usable
  <2>3. CASE LoseFile
    <3>1. losses' # losses
      BY <2>3 DEF LoseFile, AccountInv, TypeOK
    <3> QED
      BY <2>1, <3>1 DEF HalfSeeded, NoUsers
  <2> QED
    BY <1>2, <2>2, <2>3
<1>3. CASE Boot
  <2>1. HalfSeeded => HalfSeeded'
    <3>1. HalfSeeded => "default" \in bases /\ life \notin Seeded
      BY DefaultAssumption, NoneAssumption DEF HalfSeeded, NoUsers, AccountInv, SeedInv, TypeOK
    <3> QED
      BY <1>3, <3>1 DEF Boot, Restart, CountUsers, SeedBase, SeedUser, SeedEntries, EnsureCerts,
           OpenCert, WriteCert, OpenKey, WriteKey, LoadCerts, From, Panic, HalfSeeded, NoUsers, Seeded
  <2>2. ~NoUsers /\ life # "entries" => seeded' = seeded
    BY <1>3 DEF Boot, Restart, CountUsers, SeedBase, SeedUser, SeedEntries, EnsureCerts,
         OpenCert, WriteCert, OpenKey, WriteKey, LoadCerts, From, Panic
  <2>3. BrokenPair => BrokenPair'
    BY <1>3 DEF Boot, Restart, CountUsers, SeedBase, SeedUser, SeedEntries, EnsureCerts,
         OpenCert, WriteCert, OpenKey, WriteKey, LoadCerts, From, Panic, BrokenPair, Usable,
         AccountInv, FilesInv
  <2> QED
    BY <2>1, <2>2, <2>3
<1> QED
  BY <1>1, <1>2, <1>3 DEF Next

-----------------------------------------------------------------------------
(* Share codes. *)

ShareRecord == [owner : Names, item : Uuids]

ShareTypes ==
  /\ items \in [Uuids -> Names \cup {None}]
  /\ born \subseteq Uuids
  /\ codes \in [Codes -> ShareRecord \cup {None}]

\* What a request about a share carries.
SharersOK ==
  \A r \in Requests :
    /\ req[r].pc = "insertCode" => req[r].name \in Names /\ req[r].about \in Uuids
    /\ req[r].pc \in {"fetchItem", "copy"} =>
         req[r].name \in Names \cup {None} /\ req[r].about \in ShareRecord
    /\ req[r].pc = "copy" => req[r].name \in Names
    /\ req[r].pc = "deleteCode" => req[r].about \in Codes

\* The item of a share was there once, so no other item gets its uuid.
ItemsInv ==
  /\ \A s \in Shares : s.item \in born /\ items[s.item] \in {s.owner, None}
  /\ \A u \in Uuids : items[u] # None => u \in born

\* The code an unshare is about to delete is the account's, or was deleted
\* since the owner was looked at.
UnshareInv ==
  \A r \in Requests :
    req[r].pc = "deleteCode" =>
      \/ r \in overtaken
      \/ codes[req[r].about] # None /\ codes[req[r].about].owner = req[r].name

ShareInv == AccountInv /\ ShareTypes /\ SharersOK /\ ItemsInv /\ UnshareInv

OfShares == {"insertCode", "deleteCode", "fetchItem", "copy"}

\* Request r holds s: a share that has found its item, or a reader its code.
Holds(r, s) ==
  \/ req[r].pc = "insertCode" /\ s = [owner |-> req[r].name, item |-> req[r].about]
  \/ req[r].pc \in {"fetchItem", "copy"} /\ s = req[r].about

LEMMA SharesHeld ==
  ASSUME NEW s
  PROVE  s \in Shares <=> \/ \E c \in Codes : codes[c] # None /\ s = codes[c]
                          \/ \E r \in Requests : Holds(r, s)
BY DEF Shares, Holds

LEMMA SharesHeldNext ==
  ASSUME NEW s
  PROVE  s \in Shares' <=> \/ \E c \in Codes : codes'[c] # None /\ s = codes'[c]
                           \/ \E r \in Requests : Holds(r, s)'
BY DEF Shares, Holds

LEMMA ShareInit == SharingInit => ShareInv
<1> SUFFICES ASSUME SharingInit
             PROVE  ShareInv
  OBVIOUS
<1>1. AccountInv /\ \A r \in Requests : req[r].pc = "idle"
  BY AccountInit DEF SharingInit, Init, Idle
<1>2. ShareTypes
  BY DEF SharingInit, ShareTypes
<1>3. SharersOK /\ UnshareInv
  BY <1>1 DEF SharersOK, UnshareInv
<1>4. Shares = {}
  BY <1>1 DEF SharingInit, Shares
<1>5. ItemsInv
  BY <1>4 DEF ItemsInv, SharingInit
<1> QED
  BY <1>1, <1>2, <1>3, <1>5 DEF ShareInv

\* Items and codes stay, and a request goes on or lets go of its share.
LEMMA SharesKept ==
  ASSUME ShareInv, UNCHANGED <<items, born, codes>>,
         \A r \in Requests :
           req'[r].pc = "deleteCode" /\ r \in overtaken => r \in overtaken',
         \A r \in Requests : req'[r] = req[r] \/ req'[r].pc \notin OfShares
  PROVE  ShareTypes' /\ SharersOK' /\ ItemsInv' /\ UnshareInv'
<1>1. ShareTypes'
  BY DEF ShareInv, ShareTypes
<1>2. SharersOK'
  BY DEF ShareInv, SharersOK, OfShares
<1>3. ItemsInv'
  <2>1. \A s : s \in Shares' => s \in Shares
    BY SharesHeld, SharesHeldNext DEF Holds, OfShares
  <2> QED
    BY <2>1 DEF ShareInv, ItemsInv
<1>4. UnshareInv'
  BY DEF ShareInv, UnshareInv, OfShares
<1> QED
  BY <1>1, <1>2, <1>3, <1>4

\* A step of the accounts starts no share and ends none but by a crash.
LEMMA AccountStepShares ==
  ASSUME ShareInv, Next, NEW r \in Requests
  PROVE  req'[r] = req[r] \/ req'[r].pc \notin OfShares
<1>1. CASE Boot \/ LoseFile
  BY <1>1 DEF Boot, LoseFile, Restart, CountUsers, SeedBase, SeedUser, SeedEntries, EnsureCerts,
              OpenCert, WriteCert, OpenKey, WriteKey, LoadCerts
<1>2. CASE Crash
  BY <1>2 DEF Crash, Idle, OfShares
<1>3. ASSUME NEW q \in Requests, Request(q)
      PROVE  req'[r] = req[r] \/ req'[r].pc \notin OfShares
  <2>1. DOMAIN req = Requests /\ DOMAIN req[q] = {"pc", "name", "token", "about"}
    BY DEF ShareInv, AccountInv, TypeOK, RequestsOK
  <2>2. \E from, to : Handle(q, from, to) /\ to.pc \notin OfShares
    <3>1. ASSUME NEW n \in Names, SignUp(q, n) PROVE \E from, to : Handle(q, from, to) /\ to.pc \notin OfShares
      <4> DEFINE to == [Idle EXCEPT !.pc = "check", !.name = n]
      <4>1. to.pc = "check"
        BY DEF Idle
      <4>2. Handle(q, "idle", to)
        BY <3>1 DEF SignUp
      <4> HIDE DEF to
      <4> QED
        BY <4>1, <4>2 DEF OfShares
    <3>2. ASSUME NEW n \in Names, NEW t \in Tokens, AdminCreateUser(q, n, t) PROVE \E from, to : Handle(q, from, to) /\ to.pc \notin OfShares
      BY <3>2, InsertionRecord DEF AdminCreateUser, OfShares
    <3>3. CASE AdminSeed(q)
      BY <3>3, InsertionRecord, RefusedRecord DEF AdminSeed, OfShares
    <3>4. CASE CheckName(q) \/ FindBase(q)
      BY <3>4, <2>1, RefusedRecord DEF CheckName, FindBase, OfShares
    <3>5. CASE InsertUser(q)
      <4>1. PICK t : \/ Handle(q, "insert", [req[q] EXCEPT !.pc = "created", !.token = t])
                     \/ Handle(q, "insert", Refused)
        BY <3>5 DEF InsertUser
      <4> DEFINE to == [req[q] EXCEPT !.pc = "created", !.token = t]
      <4>2. to.pc = "created"
        BY <2>1
      <4> HIDE DEF to
      <4> QED
        BY <4>1, <4>2, RefusedRecord DEF OfShares, to
    <3>6. CASE Answer(q)
      BY <3>6 DEF Answer, Idle, OfShares
    <3> QED
      BY <1>3, <3>1, <3>2, <3>3, <3>4, <3>5, <3>6 DEF Request
  <2> QED
    BY <2>1, <2>2 DEF Handle
<1> QED
  BY <1>1, <1>2, <1>3 DEF Next

-----------------------------------------------------------------------------
(* Items. *)

LEMMA ResolveType ==
  ASSUME NEW t
  PROVE  Resolve(t) \in Names \cup {None}
BY DefaultAssumption DEF Resolve, Taken

\* A new item has a uuid no share names.
LEMMA NewItemKeeps ==
  ASSUME ShareInv, NEW n \in Names, NewItem(n), UNCHANGED <<codes, overtaken>>,
         \A s : s \in Shares' => s \in Shares
  PROVE  ShareTypes' /\ ItemsInv'
<1>1. PICK u \in Uuids \ born : items' = [items EXCEPT ![u] = n] /\ born' = born \cup {u}
  BY DEF NewItem
<1>2. ShareTypes'
  BY <1>1 DEF ShareInv, ShareTypes
<1>3. ItemsInv'
  BY <1>1 DEF ShareInv, ShareTypes, ItemsInv
<1> QED
  BY <1>2, <1>3

LEMMA ItemsKeep ==
  ASSUME ShareInv, NEW t \in Tokens, CreateItem(t) \/ DeleteItem(t)
  PROVE  ShareInv'
<1>1. UNCHANGED <<accountVars, codes, overtaken>> /\ Resolve(t) \in Names
  BY ResolveType DEF CreateItem, DeleteItem
<1>2. AccountInv'
  BY <1>1 DEF ShareInv, AccountInv, accountVars, bootVars, TypeOK, RequestsOK, SeedInv, TokensUnique,
              ToldInv, AccountKept, HalfInv, FilesInv, NoUsers
<1>3. SharersOK' /\ UnshareInv'
  BY <1>1 DEF ShareInv, SharersOK, UnshareInv, accountVars
<1>4. \A s : s \in Shares' => s \in Shares
  BY <1>1 DEF Shares, accountVars
<1>5. ShareTypes' /\ ItemsInv'
  <2>1. CASE CreateItem(t)
    BY <1>1, <1>4, <2>1, NewItemKeeps DEF CreateItem
  <2>2. CASE DeleteItem(t)
    <3>1. PICK u \in Uuids : items' = [items EXCEPT ![u] = None] /\ born' = born
      BY <2>2 DEF DeleteItem
    <3>2. ShareTypes'
      BY <1>1, <3>1 DEF ShareInv, ShareTypes
    <3>3. ItemsInv'
      BY <1>4, <3>1 DEF ShareInv, ShareTypes, ItemsInv
    <3> QED
      BY <3>2, <3>3
  <2> QED
    BY <2>1, <2>2
<1> QED
  BY <1>2, <1>3, <1>5 DEF ShareInv

-----------------------------------------------------------------------------
(* Requests about shares. *)

LEMMA AsksRecord ==
  ASSUME NEW n, NEW next, NEW about
  PROVE  /\ DOMAIN Asks(n, next, about) = {"pc", "name", "token", "about"}
         /\ Asks(n, next, about).pc = next /\ Asks(n, next, about).name = n
         /\ Asks(n, next, about).about = about
BY DEF Asks, Idle

\* A request about a share takes on a record, or lets go.
LEMMA SharerKeepsAccounts ==
  ASSUME ShareInv, NEW r \in Requests, NEW from, NEW to, Handle(r, from, to),
         DOMAIN to = {"pc", "name", "token", "about"}, to.pc \in OfShares \cup {"idle"},
         UNCHANGED <<bootVars, seedOk, users, bases, told>>
  PROVE  /\ AccountInv'
         /\ req'[r] = to /\ \A q \in Requests \ {r} : req'[q] = req[q]
<1>1. DOMAIN req = Requests /\ req' = [req EXCEPT ![r] = to]
  BY DEF ShareInv, AccountInv, TypeOK, Handle
<1>2. AccountInv'
  BY <1>1, RequestMoves DEF ShareInv, OfShares
<1> QED
  BY <1>1, <1>2

LEMMA ReleaseKeeps ==
  ASSUME ShareInv, NEW r \in Requests, NEW from, Handle(r, from, Idle) \/ Handle(r, from, Refused),
         overtaken' \in {overtaken, overtaken \ {r}},
         UNCHANGED <<bootVars, seedOk, users, bases, told, items, born, codes>>
  PROVE  ShareInv'
<1>1. Handle(r, from, Refused)
  BY DEF Refused
<1>2. /\ AccountInv'
      /\ req'[r] = Refused /\ \A q \in Requests \ {r} : req'[q] = req[q]
  BY <1>1, RefusedRecord, SharerKeepsAccounts
<1>3. \A q \in Requests : req'[q] = req[q] \/ req'[q].pc \notin OfShares
  BY <1>2, RefusedRecord DEF OfShares
<1>4. \A q \in Requests :
        req'[q].pc = "deleteCode" /\ q \in overtaken => q \in overtaken'
  BY <1>2, RefusedRecord
<1> QED
  BY <1>2, <1>3, <1>4, SharesKept DEF ShareInv

\* What a request takes on is what it needs: the item it shares is its own,
\* the code it deletes its own, the share it reads in the table.
LEMMA TakesOn ==
  ASSUME ShareInv, NEW r \in Requests, NEW from, NEW to, Handle(r, from, to),
         DOMAIN to = {"pc", "name", "token", "about"}, to.pc \in OfShares,
         to.pc = "insertCode" =>
           to.name \in Names /\ to.about \in Uuids /\ items[to.about] = to.name,
         to.pc = "deleteCode" =>
           to.about \in Codes /\ codes[to.about] # None /\ codes[to.about].owner = to.name,
         to.pc \in {"fetchItem", "copy"} =>
           to.name \in Names \cup {None} /\ to.about \in ShareRecord /\ to.about \in Shares,
         to.pc = "copy" => to.name \in Names,
         overtaken' \in {overtaken, overtaken \ {r}},
         UNCHANGED <<bootVars, seedOk, users, bases, told, items, born, codes>>
  PROVE  ShareInv'
<1>1. /\ AccountInv'
      /\ req'[r] = to /\ \A q \in Requests \ {r} : req'[q] = req[q]
  BY SharerKeepsAccounts
<1>2. ShareTypes' /\ UNCHANGED <<items, born, codes>>
  BY DEF ShareInv, ShareTypes
<1>3. SharersOK'
  BY <1>1 DEF ShareInv, SharersOK
<1>4. UnshareInv'
  BY <1>1, <1>2 DEF ShareInv, UnshareInv
<1>5. ItemsInv'
  <2> SUFFICES ASSUME NEW s \in Shares'
               PROVE  s.item \in born /\ items[s.item] \in {s.owner, None}
    BY <1>2 DEF ShareInv, ItemsInv
  <2>1. CASE s \in Shares
    BY <2>1 DEF ShareInv, ItemsInv
  <2>2. CASE s \notin Shares
    <3>1. Holds(r, s)'
      BY <1>1, <1>2, <2>2, SharesHeld, SharesHeldNext DEF Holds
    <3>2. to.pc = "insertCode" /\ s = [owner |-> to.name, item |-> to.about]
      BY <1>1, <2>2, <3>1 DEF Holds
    <3>3. s.item = to.about /\ s.owner = to.name
      BY <3>2
    <3> QED
      BY <3>2, <3>3, CodesAssumption, NoneAssumption DEF ShareInv, ItemsInv
  <2> QED
    BY <2>1, <2>2
<1> QED
  BY <1>1, <1>2, <1>3, <1>4, <1>5 DEF ShareInv

LEMMA OwnerKnown ==
  ASSUME NEW n, NEW t, n = Resolve(t), n # None
  PROVE  n \in Names
BY ResolveType

\* share_handler.
LEMMA ShareKeeps ==
  ASSUME ShareInv, NEW r \in Requests, NEW t \in Tokens, NEW u \in Uuids, Share(r, t, u)
  PROVE  ShareInv'
<1> DEFINE n == Resolve(t)
           to == Asks(n, "insertCode", u)
<1>1. UNCHANGED <<bootVars, seedOk, users, bases, told, items, born, codes, overtaken>>
  BY DEF Share, shareVars
<1>2. CASE n # None /\ Owns(n, u)
  <2>1. Handle(r, "idle", to)
    BY <1>2 DEF Share
  <2>2. /\ DOMAIN to = {"pc", "name", "token", "about"} /\ to.pc = "insertCode"
        /\ to.name = n /\ to.about = u
    BY AsksRecord
  <2>3. n \in Names /\ items[u] = n
    BY <1>2, OwnerKnown DEF Owns
  <2> HIDE DEF to, n
  <2> QED
    BY <1>1, <2>1, <2>2, <2>3, TakesOn DEF OfShares
<1>3. CASE ~(n # None /\ Owns(n, u))
  BY <1>1, <1>3, ReleaseKeeps DEF Share
<1> QED
  BY <1>2, <1>3

\* unshare_handler's look at the owner.
LEMMA UnshareKeeps ==
  ASSUME ShareInv, NEW r \in Requests, NEW t \in Tokens, NEW c \in Codes, Unshare(r, t, c)
  PROVE  ShareInv'
<1> DEFINE n == Resolve(t)
           to == Asks(n, "deleteCode", c)
<1>1. /\ UNCHANGED <<bootVars, seedOk, users, bases, told, items, born, codes>>
      /\ overtaken' \in {overtaken, overtaken \ {r}}
  BY DEF Unshare
<1>2. CASE n # None /\ MayUnshare(n, c)
  <2>1. Handle(r, "idle", to)
    BY <1>2 DEF Unshare
  <2>2. /\ DOMAIN to = {"pc", "name", "token", "about"} /\ to.pc = "deleteCode"
        /\ to.name = n /\ to.about = c
    BY AsksRecord
  <2>3. codes[c] # None /\ codes[c].owner = n
    BY <1>2 DEF MayUnshare
  <2> HIDE DEF to, n
  <2> QED
    BY <1>1, <2>1, <2>2, <2>3, TakesOn DEF OfShares
<1>3. CASE ~(n # None /\ MayUnshare(n, c))
  BY <1>1, <1>3, ReleaseKeeps DEF Unshare
<1> QED
  BY <1>2, <1>3

\* get_shared_item: the code, then the row.
LEMMA FetchCodeKeeps ==
  ASSUME ShareInv, NEW r \in Requests, NEW n \in Names \cup {None}, NEW c \in Codes,
         FetchCode(r, n, c)
  PROVE  ShareInv'
<1> DEFINE to == Asks(n, "fetchItem", codes[c])
<1>1. UNCHANGED <<bootVars, seedOk, users, bases, told, items, born, codes, overtaken>>
  BY DEF FetchCode, shareVars
<1>2. CASE codes[c] # None
  <2>1. Handle(r, "idle", to)
    BY <1>2 DEF FetchCode
  <2>2. /\ DOMAIN to = {"pc", "name", "token", "about"} /\ to.pc = "fetchItem"
        /\ to.name = n /\ to.about = codes[c]
    BY AsksRecord
  <2>3. codes[c] \in ShareRecord /\ codes[c] \in Shares
    BY <1>2, SharesHeld DEF ShareInv, ShareTypes
  <2> HIDE DEF to
  <2> QED
    BY <1>1, <2>1, <2>2, <2>3, TakesOn DEF OfShares
<1>3. CASE codes[c] = None
  BY <1>1, <1>3, ReleaseKeeps DEF FetchCode
<1> QED
  BY <1>2, <1>3

LEMMA FetchItemKeeps ==
  ASSUME ShareInv, NEW r \in Requests, FetchItem(r)
  PROVE  ShareInv'
<1> DEFINE to == [req[r] EXCEPT !.pc = "copy"]
<1>1. /\ UNCHANGED <<bootVars, seedOk, users, bases, told, items, born, codes, overtaken>>
      /\ req[r].pc = "fetchItem"
  BY DEF FetchItem, shareVars
<1>2. \/ Handle(r, "fetchItem", to) /\ req[r].name # None
      \/ Handle(r, "fetchItem", Idle) \/ Handle(r, "fetchItem", Refused)
  BY DEF FetchItem
<1>3. CASE Handle(r, "fetchItem", to) /\ req[r].name # None
  <2>1. /\ DOMAIN to = {"pc", "name", "token", "about"} /\ to.pc = "copy"
        /\ to.about = req[r].about /\ to.name = req[r].name
    BY DEF ShareInv, AccountInv, RequestsOK
  <2>2. req[r].about \in ShareRecord /\ req[r].about \in Shares
    BY <1>1, SharesHeld DEF ShareInv, SharersOK, Holds
  <2>3. req[r].name \in Names
    BY <1>1, <1>3 DEF ShareInv, SharersOK
  <2> HIDE DEF to
  <2> QED
    BY <1>1, <1>3, <2>1, <2>2, <2>3, TakesOn DEF OfShares
<1>4. CASE Handle(r, "fetchItem", Idle) \/ Handle(r, "fetchItem", Refused)
  BY <1>1, <1>4, ReleaseKeeps
<1> QED
  BY <1>2, <1>3, <1>4

\* A request is over, and the tables change with it.
LEMMA Released ==
  ASSUME ShareInv, NEW r \in Requests, NEW from, Handle(r, from, Idle) \/ Handle(r, from, Refused),
         UNCHANGED <<bootVars, seedOk, users, bases, told>>
  PROVE  /\ AccountInv' /\ SharersOK'
         /\ req'[r] = Refused /\ \A q \in Requests \ {r} : req'[q] = req[q]
<1>1. Handle(r, from, Refused)
  BY DEF Refused
<1>2. /\ AccountInv'
      /\ req'[r] = Refused /\ \A q \in Requests \ {r} : req'[q] = req[q]
  BY <1>1, RefusedRecord, SharerKeepsAccounts
<1>3. SharersOK'
  BY <1>2, RefusedRecord DEF ShareInv, SharersOK
<1> QED
  BY <1>2, <1>3

LEMMA CopyKeeps ==
  ASSUME ShareInv, NEW r \in Requests, CopyItem(r)
  PROVE  ShareInv'
<1>1. /\ AccountInv' /\ SharersOK'
      /\ req'[r] = Refused /\ \A q \in Requests \ {r} : req'[q] = req[q]
  BY Released DEF CopyItem
<1>2. NewItem(req[r].name) /\ UNCHANGED <<codes, overtaken>> /\ req[r].name \in Names
  BY DEF CopyItem, Handle, ShareInv, SharersOK
<1>3. \A s : s \in Shares' => s \in Shares
  BY <1>1, <1>2, RefusedRecord, SharesHeld, SharesHeldNext DEF Holds
<1>4. UnshareInv'
  BY <1>1, <1>2, RefusedRecord DEF ShareInv, UnshareInv
<1> QED
  BY <1>1, <1>2, <1>3, <1>4, NewItemKeeps DEF ShareInv

\* create_share_code.
LEMMA InsertCodeKeeps ==
  ASSUME ShareInv, NEW r \in Requests, InsertCode(r)
  PROVE  ShareInv'
<1>1. CASE UNCHANGED codes /\ Handle(r, "insertCode", Refused)
  BY <1>1, ReleaseKeeps DEF InsertCode, shareVars
<1>2. CASE \E c \in Drawable :
             /\ codes' = [codes EXCEPT ![c] = [owner |-> req[r].name, item |-> req[r].about]]
             /\ Handle(r, "insertCode", Idle)
  <2> DEFINE new == [owner |-> req[r].name, item |-> req[r].about]
  <2>1. PICK c \in Codes : codes[c] = None /\ codes' = [codes EXCEPT ![c] = new]
    BY <1>2 DEF Drawable
  <2>2. /\ AccountInv' /\ SharersOK'
        /\ req'[r] = Refused /\ \A q \in Requests \ {r} : req'[q] = req[q]
    BY <1>2, Released DEF InsertCode
  <2>3. UNCHANGED <<items, born, overtaken>> /\ req[r].pc = "insertCode"
    BY DEF InsertCode
  <2>4. new \in ShareRecord /\ new \in Shares
    BY <2>3, SharesHeld DEF ShareInv, SharersOK, ShareRecord, Holds
  <2>5. /\ \A d \in Codes \ {c} : codes'[d] = codes[d]
        /\ codes'[c] = new /\ codes' \in [Codes -> ShareRecord \cup {None}]
    BY <2>1, <2>4 DEF ShareInv, ShareTypes
  <2> HIDE DEF new
  <2>6. ShareTypes'
    BY <2>3, <2>5 DEF ShareInv, ShareTypes
  <2>7. \A s : s \in Shares' => s \in Shares
    BY <2>2, <2>4, <2>5, RefusedRecord, SharesHeld, SharesHeldNext DEF Holds
  <2>8. ItemsInv'
    BY <2>3, <2>7 DEF ShareInv, ItemsInv
  <2>9. UnshareInv'
    <3> SUFFICES ASSUME NEW q \in Requests, req'[q].pc = "deleteCode",
                        q \notin overtaken
                 PROVE  codes'[req'[q].about] # None /\ codes'[req'[q].about].owner = req'[q].name
      BY <2>3 DEF UnshareInv
    <3>1. req'[q] = req[q] /\ req[q].about \in Codes
      BY <2>2, RefusedRecord DEF ShareInv, SharersOK
    <3>2. codes[req[q].about] # None /\ codes[req[q].about].owner = req[q].name
      BY <3>1 DEF ShareInv, UnshareInv
    <3> QED
      BY <2>1, <2>5, <3>1, <3>2
  <2> QED
    BY <2>2, <2>6, <2>8, <2>9 DEF ShareInv
<1> QED
  BY <1>1, <1>2 DEF InsertCode

\* delete_share_code.
LEMMA DeleteCodeKeeps ==
  ASSUME ShareInv, NEW r \in Requests, DeleteCode(r)
  PROVE  ShareInv'
<1> DEFINE c == req[r].about
<1>1. /\ c \in Codes /\ codes' = [codes EXCEPT ![c] = None]
      /\ overtaken' = (overtaken \cup {q \in Requests : Deletes(q, c)}) \ {r}
      /\ UNCHANGED <<items, born>>
  BY DEF DeleteCode, Handle, ShareInv, SharersOK
<1>2. /\ AccountInv' /\ SharersOK'
      /\ req'[r] = Refused /\ \A q \in Requests \ {r} : req'[q] = req[q]
  BY Released DEF DeleteCode
<1>3. /\ \A d \in Codes \ {c} : codes'[d] = codes[d]
      /\ codes'[c] = None /\ codes' \in [Codes -> ShareRecord \cup {None}]
  BY <1>1 DEF ShareInv, ShareTypes
<1> HIDE DEF c
<1>4. ShareTypes'
  BY <1>1, <1>3 DEF ShareInv, ShareTypes
<1>5. \A s : s \in Shares' => s \in Shares
  BY <1>2, <1>3, RefusedRecord, SharesHeld, SharesHeldNext DEF Holds
<1>6. ItemsInv'
  BY <1>1, <1>5 DEF ShareInv, ItemsInv
<1>7. UnshareInv'
  <2> SUFFICES ASSUME NEW q \in Requests, req'[q].pc = "deleteCode",
                      q \notin overtaken'
               PROVE  codes'[req'[q].about] # None /\ codes'[req'[q].about].owner = req'[q].name
    BY DEF UnshareInv
  <2>1. req'[q] = req[q] /\ q # r
    BY <1>2, RefusedRecord
  <2>2. req[q].about \in Codes \ {c} /\ q \notin overtaken
    BY <1>1, <2>1 DEF ShareInv, SharersOK, Deletes
  <2>3. codes[req[q].about] # None /\ codes[req[q].about].owner = req[q].name
    BY <2>1, <2>2 DEF ShareInv, UnshareInv
  <2> QED
    BY <1>3, <2>1, <2>2, <2>3
<1> QED
  BY <1>2, <1>4, <1>6, <1>7 DEF ShareInv

LEMMA SharerKeeps ==
  ASSUME ShareInv, NEW r \in Requests, Sharer(r)
  PROVE  ShareInv'
BY ShareKeeps, UnshareKeeps, FetchCodeKeeps, FetchItemKeeps, CopyKeeps, InsertCodeKeeps,
   DeleteCodeKeeps, ResolveType DEF Sharer

LEMMA ShareNext == ShareInv /\ [SharingNext]_vars => ShareInv'
<1> SUFFICES ASSUME ShareInv, [SharingNext]_vars
             PROVE  ShareInv'
  OBVIOUS
<1>1. CASE Next /\ UNCHANGED shareVars
  <2>1. AccountInv'
    BY <1>1, AccountNext DEF ShareInv
  <2> QED
    BY <1>1, <2>1, AccountStepShares, SharesKept DEF ShareInv, shareVars
<1>2. CASE UNCHANGED vars
  <2>1. AccountInv'
    BY <1>2 DEF vars, ShareInv, AccountInv, accountVars, bootVars, TypeOK, RequestsOK, SeedInv,
                TokensUnique, ToldInv, AccountKept, HalfInv, FilesInv, NoUsers
  <2> QED
    BY <1>2, <2>1, SharesKept DEF vars, accountVars, shareVars, ShareInv
<1> QED
  BY <1>1, <1>2, ItemsKeep, SharerKeeps DEF SharingNext

-----------------------------------------------------------------------------
(* The theorems. *)

\* Every variable keeps its type.
THEOREM TypeCorrect == SharingSpec => []TypeOK
<1>1. ShareInv => TypeOK
  BY DEF ShareInv, AccountInv
<1> QED
  BY <1>1, ShareInit, ShareNext, PTL DEF SharingSpec

\* Each account is found by its own token and no other, whatever names and
\* tokens an administrator chooses (get_user_by_auth_token).
THEOREM TokensResolve == SharingSpec => []TokenResolves
<1>1. ShareInv => TokenResolves
  BY AccountsResolve DEF ShareInv
<1> QED
  BY <1>1, ShareInit, ShareNext, PTL DEF SharingSpec

\* An account that was told of is there, with the token that was told, after
\* any races of signups and any crashes (create_user and its callers).
THEOREM AccountsKept == SharingSpec => []AccountKept
<1>1. ShareInv => AccountKept
  BY AccountsHold DEF ShareInv
<1> QED
  BY <1>1, ShareInit, ShareNext, PTL DEF SharingSpec

\* Where the build's module parses, a server that serves has its default
\* account and a base module, whichever starts were cut short before
\* (seed_default_user).
THEOREM SeedServed == SharingSpec => []ServesSeeded
<1>1. ShareInv => ServesSeeded
  BY AccountsHold DEF ShareInv
<1> QED
  BY <1>1, ShareInit, ShareNext, PTL DEF SharingSpec

\* Only a death between the inserts of the seed, or while the TLS files are
\* written, makes a server that no restart brings up (main, tls.rs).
THEOREM WedgedByCrash == SharingSpec => []WedgedOnlyByCrash
<1>1. ShareInv => WedgedOnlyByCrash
  BY AccountsHold DEF ShareInv
<1> QED
  BY <1>1, ShareInit, ShareNext, PTL DEF SharingSpec

\* No share code comes to show an item of another account than its own,
\* whatever is deleted and made under it (get_shared_item).
THEOREM CodesOwnItems == SharingSpec => []CodeOwnsItem
<1>1. ShareInv => CodeOwnsItem
  BY DEF ShareInv, ItemsInv, CodeOwnsItem
<1> QED
  BY <1>1, ShareInit, ShareNext, PTL DEF SharingSpec

\* The steps that leave the tables of accounts alone.
LEMMA OtherSteps ==
  ASSUME SharingNext, ~(Next /\ UNCHANGED shareVars)
  PROVE  UNCHANGED <<bootVars, seedOk, users, bases, told>>
BY DEF SharingNext, CreateItem, DeleteItem, Sharer, Share, Unshare, FetchCode, InsertCode, DeleteCode,
       FetchItem, CopyItem, accountVars

\* Base modules are made at boot alone: the inserts of /admin/seed and of
\* signup are never reached by a server that serves.
THEOREM BasesAtBoot == SharingSpec => BaseOnlyAtBoot
<1>1. ShareInv /\ [SharingNext]_vars => [bases' # bases => life = "base"]_bases
  BY StepBases, OtherSteps DEF ShareInv, vars, accountVars
<1> QED
  BY <1>1, ShareInit, ShareNext, PTL DEF SharingSpec, BaseOnlyAtBoot

\* What a start left half done stays so: no later start repairs it.
THEOREM NothingRepairs == SharingSpec => NoSelfRepair
<1> DEFINE Kept == /\ HalfSeeded => HalfSeeded'
                   /\ ~NoUsers /\ life # "entries" => seeded' = seeded
                   /\ BrokenPair /\ losses' = losses => BrokenPair'
<1>1. ShareInv /\ [SharingNext]_vars => [Kept]_accountVars
  <2> SUFFICES ASSUME ShareInv, [SharingNext]_vars
               PROVE  [Kept]_accountVars
    OBVIOUS
  <2>1. CASE Next /\ UNCHANGED shareVars
    BY <2>1, StepRepairs DEF ShareInv
  <2>2. CASE SharingNext /\ ~(Next /\ UNCHANGED shareVars)
    BY <2>2, OtherSteps DEF HalfSeeded, BrokenPair, Usable, NoUsers, bootVars
  <2>3. CASE UNCHANGED vars
    BY <2>3 DEF vars
  <2> QED
    BY <2>1, <2>2, <2>3
<1> QED
  BY <1>1, ShareInit, ShareNext, PTL DEF SharingSpec, NoSelfRepair

\* Whatever runs at the same time and however often codes are drawn again, a
\* code is deleted by a request of its own account, or by one whose own code
\* was deleted by another after it had looked at the owner
\* (unshare_handler, delete_share_code).
THEOREM OwnersUnshare == SharingSpec => OnlyOwnerUnshares
<1> DEFINE Kept ==
      \A c \in Codes :
        codes[c] # None /\ codes'[c] # codes[c] =>
          \E r \in Requests :
            /\ Deletes(r, c) /\ ~Deletes(r, c)'
            /\ req[r].name = codes[c].owner \/ r \in overtaken
<1>1. ShareInv /\ [SharingNext]_vars => [Kept]_codes
  <2> SUFFICES ASSUME ShareInv, [SharingNext]_vars, codes' # codes
               PROVE  Kept
    OBVIOUS
  <2>1. PICK r \in Requests : InsertCode(r) \/ DeleteCode(r)
    BY DEF vars, shareVars, SharingNext, CreateItem, DeleteItem, Sharer, Share, Unshare, FetchCode,
           FetchItem, CopyItem
  <2>2. CASE InsertCode(r)
    BY <2>2 DEF InsertCode, Drawable, ShareInv, ShareTypes
  <2>3. CASE DeleteCode(r)
    <3>1. /\ req[r].pc = "deleteCode"
          /\ \A c \in Codes : codes'[c] # codes[c] => c = req[r].about
      BY <2>3 DEF DeleteCode, Handle, ShareInv, ShareTypes
    <3>2. req'[r].pc = "idle"
      BY <2>3, Released, RefusedRecord DEF DeleteCode, Refused, Idle
    <3> QED
      BY <3>1, <3>2 DEF ShareInv, UnshareInv, Deletes
  <2> QED
    BY <2>1, <2>2, <2>3
<1> QED
  BY <1>1, ShareInit, ShareNext, PTL DEF SharingSpec, OnlyOwnerUnshares

=============================================================================
