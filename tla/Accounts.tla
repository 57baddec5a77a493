------------------------------- MODULE Accounts -------------------------------
(***************************************************************************)
(* The server's life and its accounts: main() from the migrations to       *)
(* serving, with seed_default_user (main.rs) and the TLS files (tls.rs),   *)
(* and the requests that make accounts (http.rs, db.rs).  The process may  *)
(* die between any two statements and is started again; the database and   *)
(* the files stay, a request that was being served is gone.                *)
(*                                                                         *)
(* A statement is atomic and durable, and SQLite enforces the UNIQUE and   *)
(* FOREIGN KEY clauses of migrations/001_initial.sql.  The only base       *)
(* module any code inserts is "default".                                   *)
(***************************************************************************)
EXTENDS Integers, FiniteSets

CONSTANTS
  Names,       \* usernames
  Tokens,      \* auth tokens
  Default,     \* "astolfo", a username and the token DEFAULT_USER_TOKEN
  Requests,    \* HTTP requests being served
  MaxCrashes,  \* bound: how often the process dies
  MaxLosses,   \* bound: how often a TLS file is removed
  None

ASSUME DefaultAssumption == Default \in Names /\ Default \in Tokens

ASSUME NoneAssumption == None \notin Names \cup Tokens

ASSUME BoundsAssumption == MaxCrashes \in Nat /\ MaxLosses \in Nat

VARIABLES
  life,      \* where main() is; "down" when the process does not run
  seedOk,    \* whether SEED_MODULE_BIN of this build loads and parses
  users,     \* the table users: the token of each username, or None
  bases,     \* the table base_modules, by name
  seeded,    \* the default user has all entries of the seed
  cert, key, \* the TLS files: absent, cut short, or whole
  stale,     \* the key file is of an earlier pair than the certificate
  req,       \* what each request is doing
  told,      \* history: the accounts clients were told they have
  cut,       \* history: in which fragile steps of main() the process died
  crashes, losses

bootVars == <<life, seeded, cert, key, stale, cut, crashes, losses>>
accountVars == <<bootVars, seedOk, users, bases, req, told>>

\* name is the account a request is about or made by; about is its item or
\* its share code (see Sharing).
Idle == [pc |-> "idle", name |-> None, token |-> None, about |-> None]

\* An error answer; the request is over.
Refused == Idle

Insertion(n, t) == [Idle EXCEPT !.pc = "insert", !.name = n, !.token = t]

NoUsers == \A n \in Names : users[n] = None

Taken(t) == \E n \in Names : users[n] = t

Init ==
  /\ life = "down"
  /\ seedOk \in BOOLEAN
  /\ users = [n \in Names |-> None]
  /\ bases = {}
  /\ seeded = FALSE
  /\ cert = "absent" /\ key = "absent" /\ stale = FALSE
  /\ req = [r \in Requests |-> Idle]
  /\ told = {} /\ cut = {}
  /\ crashes = 0 /\ losses = 0

-----------------------------------------------------------------------------
(* main(). *)

From(here, there) == life = here /\ life' = there

\* A failed expect ends the process.
Panic(here) == From(here, "down")

Restart ==
  /\ From("down", "count")
  /\ UNCHANGED <<seedOk, users, bases, seeded, cert, key, stale, req, told, cut, crashes, losses>>

\* Mutant: nothing is seeded.
CountUsersNoSeed ==
  /\ From("count", "tls")
  /\ UNCHANGED <<seedOk, users, bases, seeded, cert, key, stale, req, told, cut, crashes, losses>>

\* Seeding is for an empty table of users, and skipped when the module of the
\* build does not parse.
CountUsers ==
  /\ From("count", IF NoUsers /\ seedOk THEN "base" ELSE "tls")
  /\ UNCHANGED <<seedOk, users, bases, seeded, cert, key, stale, req, told, cut, crashes, losses>>

\* Mutant: a base module that exists is updated.
SeedBaseUpsert ==
  /\ From("base", "user")
  /\ bases' = bases \cup {"default"}
  /\ UNCHANGED <<seedOk, users, seeded, cert, key, stale, req, told, cut, crashes, losses>>

\* Mutant: a base module that exists ends the seeding, not the process.
SeedBaseSkip ==
  /\ From("base", IF "default" \in bases THEN "tls" ELSE "user")
  /\ bases' = bases \cup {"default"}
  /\ UNCHANGED <<seedOk, users, seeded, cert, key, stale, req, told, cut, crashes, losses>>

\* insert_base_module: the name is unique.
SeedBase ==
  /\ IF "default" \in bases THEN Panic("base") ELSE From("base", "user")
  /\ bases' = bases \cup {"default"}
  /\ UNCHANGED <<seedOk, users, seeded, cert, key, stale, req, told, cut, crashes, losses>>

SeedUser ==
  /\ From("user", "entries")
  /\ users' = [users EXCEPT ![Default] = Default]
  /\ UNCHANGED <<seedOk, bases, seeded, cert, key, stale, req, told, cut, crashes, losses>>

\* The log rows and backing rows; a statement that fails is passed over.
SeedEntries ==
  /\ From("entries", "tls")
  /\ seeded' \in BOOLEAN
  /\ UNCHANGED <<seedOk, users, bases, cert, key, stale, req, told, cut, crashes, losses>>

\* Mutant: one of the two files is enough.
EnsureCertsEither ==
  /\ From("tls", IF cert # "absent" \/ key # "absent" THEN "load" ELSE "openCert")
  /\ UNCHANGED <<seedOk, users, bases, seeded, cert, key, stale, req, told, cut, crashes, losses>>

\* ensure_self_signed_certs looks at whether the files are there.
EnsureCerts ==
  /\ From("tls", IF cert # "absent" /\ key # "absent" THEN "load" ELSE "openCert")
  /\ UNCHANGED <<seedOk, users, bases, seeded, cert, key, stale, req, told, cut, crashes, losses>>

\* fs::write truncates or creates the file, then writes it.
OpenCert ==
  /\ From("openCert", "writeCert")
  /\ cert' = "cut" /\ stale' = (key # "absent")
  /\ UNCHANGED <<seedOk, users, bases, seeded, key, req, told, cut, crashes, losses>>

\* Mutant: a key that exists is kept.
WriteCertOnly ==
  /\ From("writeCert", IF key = "absent" THEN "openKey" ELSE "load")
  /\ cert' = "whole"
  /\ UNCHANGED <<seedOk, users, bases, seeded, key, stale, req, told, cut, crashes, losses>>

WriteCert ==
  /\ From("writeCert", "openKey")
  /\ cert' = "whole"
  /\ UNCHANGED <<seedOk, users, bases, seeded, key, stale, req, told, cut, crashes, losses>>

OpenKey ==
  /\ From("openKey", "writeKey")
  /\ key' = "cut" /\ stale' = FALSE
  /\ UNCHANGED <<seedOk, users, bases, seeded, cert, req, told, cut, crashes, losses>>

WriteKey ==
  /\ From("writeKey", "load")
  /\ key' = "whole"
  /\ UNCHANGED <<seedOk, users, bases, seeded, cert, stale, req, told, cut, crashes, losses>>

\* load_rustls_config: both files whole and of one pair.
Usable == cert = "whole" /\ key = "whole" /\ ~stale

LoadCerts ==
  /\ IF Usable THEN From("load", "serving") ELSE Panic("load")
  /\ UNCHANGED <<seedOk, users, bases, seeded, cert, key, stale, req, told, cut, crashes, losses>>

\* Between the inserts of seed_default_user, and between the opening of the
\* first TLS file and the end of the second.
Fragile == {"user", "writeCert", "openKey", "writeKey"}

\* The process is killed, or shut down.
Crash ==
  /\ life # "down" /\ crashes < MaxCrashes
  /\ life' = "down" /\ crashes' = crashes + 1 /\ cut' = cut \cup ({life} \cap Fragile)
  /\ req' = [r \in Requests |-> Idle]
  /\ UNCHANGED <<seedOk, users, bases, seeded, cert, key, stale, told, losses>>

\* Somebody removes a file while the server is down, to have a new pair made.
LoseFile ==
  /\ life = "down" /\ losses < MaxLosses
  /\ \/ cert # "absent" /\ cert' = "absent" /\ UNCHANGED key
     \/ key # "absent" /\ key' = "absent" /\ UNCHANGED cert
  /\ stale' = FALSE
  /\ losses' = losses + 1
  /\ UNCHANGED <<life, seedOk, users, bases, seeded, req, told, cut, crashes>>

Boot ==
  \/ Restart \/ CountUsers \/ SeedBase \/ SeedUser \/ SeedEntries \/ EnsureCerts
  \/ OpenCert \/ WriteCert \/ OpenKey \/ WriteKey \/ LoadCerts

-----------------------------------------------------------------------------
(* Requests that make accounts. *)

Handle(r, from, to) ==
  /\ life = "serving" /\ req[r].pc = from
  /\ req' = [req EXCEPT ![r] = to]

\* signup_handler; the token will be a fresh uuid.
SignUp(r, n) ==
  /\ Handle(r, "idle", [Idle EXCEPT !.pc = "check", !.name = n])
  /\ UNCHANGED <<bootVars, seedOk, users, bases, told>>

\* /admin/seed, which parses the module and inserts what boot inserts.
AdminSeed(r) ==
  /\ Handle(r, "idle", IF seedOk /\ bases = {} THEN Insertion(Default, Default)
                                                 ELSE Refused)
  /\ bases' = IF seedOk THEN bases \cup {"default"} ELSE bases
  /\ UNCHANGED <<bootVars, seedOk, users, told>>

\* POST /admin/users, with a name and a token of the caller's choice.
AdminCreateUser(r, n, t) ==
  /\ Handle(r, "idle", Insertion(n, t))
  /\ UNCHANGED <<bootVars, seedOk, users, bases, told>>

CheckName(r) ==
  /\ Handle(r, "check", IF users[req[r].name] = None THEN [req[r] EXCEPT !.pc = "base"]
                                                     ELSE Refused)
  /\ UNCHANGED <<bootVars, seedOk, users, bases, told>>

\* get_or_create_signup_base_module: the first there is, or the seed's.
FindBase(r) ==
  /\ Handle(r, "base", IF bases # {} \/ seedOk THEN [req[r] EXCEPT !.pc = "insert"]
                                               ELSE Refused)
  /\ bases' = IF bases = {} /\ seedOk THEN {"default"} ELSE bases
  /\ UNCHANGED <<bootVars, seedOk, users, told>>

\* Mutant: tokens are not unique.
AcceptsAnyToken(n, t) == users[n] = None

\* Mutant: a name that exists is given the new token.
AcceptsAnything(n, t) == TRUE

\* The UNIQUE clauses on the name and the token.
Accepts(n, t) == users[n] = None /\ ~Taken(t)

\* A uuid nobody has had before.
Fresh == {t \in Tokens \ {Default} : ~Taken(t)}

\* Mutant: the answer has the token of the request, not of the row.
InsertUserNoToken(r) ==
  LET n == req[r].name IN
  /\ req[r].pc = "insert"
  /\ \E t \in IF req[r].token = None THEN Fresh ELSE {req[r].token} :
       IF bases # {} /\ Accepts(n, t)
       THEN /\ Handle(r, "insert", [req[r] EXCEPT !.pc = "created"])
            /\ users' = [users EXCEPT ![n] = t]
       ELSE Handle(r, "insert", Refused) /\ UNCHANGED users
  /\ UNCHANGED <<bootVars, seedOk, bases, told>>

\* create_user, or create_user_with_password_hash with a fresh token; the
\* base module exists.
InsertUser(r) ==
  LET n == req[r].name IN
  /\ req[r].pc = "insert"
  /\ \E t \in IF req[r].token = None THEN Fresh ELSE {req[r].token} :
       IF bases # {} /\ Accepts(n, t)
       THEN /\ Handle(r, "insert", [req[r] EXCEPT !.pc = "created", !.token = t])
            /\ users' = [users EXCEPT ![n] = t]
       ELSE Handle(r, "insert", Refused) /\ UNCHANGED users
  /\ UNCHANGED <<bootVars, seedOk, bases, told>>

Answer(r) ==
  /\ Handle(r, "created", Idle)
  /\ told' = told \cup {<<req[r].name, req[r].token>>}
  /\ UNCHANGED <<bootVars, seedOk, users, bases>>

Request(r) ==
  \/ \E n \in Names : SignUp(r, n) \/ \E t \in Tokens : AdminCreateUser(r, n, t)
  \/ AdminSeed(r) \/ CheckName(r) \/ FindBase(r) \/ InsertUser(r) \/ Answer(r)

Next == Boot \/ Crash \/ LoseFile \/ \E r \in Requests : Request(r)

-----------------------------------------------------------------------------
(* Properties. *)

\* get_user_by_auth_token, which tries the username of the default account
\* first for the default token.
Resolve(t) ==
  IF t = Default /\ users[Default] # None THEN Default
  ELSE IF Taken(t) THEN CHOOSE n \in Names : users[n] = t ELSE None

\* Left by a start that died between the base module and the user: the next
\* start finds no users, and insert_base_module fails.
HalfSeeded == seedOk /\ NoUsers /\ bases # {} /\ life # "user"

\* ensure_self_signed_certs takes the files for good and they do not load.
BrokenPair ==
  /\ cert # "absent" /\ key # "absent" /\ ~Usable
  /\ life \notin {"writeCert", "openKey", "writeKey"}

Wedged == HalfSeeded \/ BrokenPair

TypeOK ==
  /\ life \in {"down", "count", "base", "user", "entries", "tls", "openCert", "writeCert",
               "openKey", "writeKey", "load", "serving"}
  /\ seedOk \in BOOLEAN
  /\ users \in [Names -> Tokens \cup {None}]
  /\ bases \subseteq {"default"}
  /\ seeded \in BOOLEAN
  /\ {cert, key} \subseteq {"absent", "cut", "whole"} /\ stale \in BOOLEAN
  /\ DOMAIN req = Requests
  /\ told \subseteq Names \X Tokens /\ cut \subseteq Fragile
  /\ crashes \in 0 .. MaxCrashes /\ losses \in 0 .. MaxLosses

\* Every account is found by its own token and by no other, although the
\* default token is looked up by the username of the default account and an
\* administrator chooses names and tokens freely.
TokenResolves == \A n \in Names, t \in Tokens : users[n] = t <=> Resolve(t) = n

\* Who was told of an account has it, with the token that was told: two
\* signups of one name never both succeed, and a restart loses none.
AccountKept == \A a \in told : users[a[1]] = a[2]

\* A server that serves and whose module parses has its default account and a
\* base module, whatever starts were cut short before.
ServesSeeded == life = "serving" /\ seedOk => users[Default] = Default /\ bases # {}

\* A server that no restart brings up got there by dying in a fragile step,
\* never by the loss of a file alone.
WedgedOnlyByCrash ==
  /\ HalfSeeded => "user" \in cut
  /\ BrokenPair => cut \ {"user"} # {}

\* No base module is made but at boot: the insert of /admin/seed and the
\* upsert of signup never take effect.
BaseOnlyAtBoot == [][bases' # bases => life = "base"]_bases

\* No start repairs a half-seeded database or a broken pair of files, nor
\* adds the entries that the default account was left without.
NoSelfRepair ==
  [][/\ HalfSeeded => HalfSeeded'
     /\ ~NoUsers /\ life # "entries" => seeded' = seeded
     /\ BrokenPair /\ losses' = losses => BrokenPair']_accountVars

=============================================================================
