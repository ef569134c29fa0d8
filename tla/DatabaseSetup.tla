--------------------------- MODULE DatabaseSetup ---------------------------
(* How a service gets its database connection: DatabaseManager.setup_database *)
(* and then TransactionInfo.connect_db, run by the transaction service and  *)
(* the storage service against one PostgreSQL server.  A step is one call   *)
(* to the server or to the service manager; in between anything may happen. *)
EXTENDS Naturals

CONSTANTS Procs,        \* processes that run the setup
          Names,        \* spellings of database names
          Lower,        \* [Names -> Names], the spelling in lower case
          Polls,        \* attempts to see the started server (10)
          MaxRetries,   \* attempts of connect_db (3)
          MaxStops      \* bound: how often the server goes away

ASSUME DatabaseSetupAssumption ==
  /\ Lower \in [Names -> Names] /\ \A n \in Names : Lower[Lower[n]] = Lower[n]
  /\ Polls \in Nat \ {0} /\ MaxRetries \in Nat \ {0} /\ MaxStops \in Nat

VARIABLES server,     \* "down", "starting", "up"
          stops,      \* how often it went away
          databases,  \* spellings in pg_database
          granted,    \* those with an ACL (datacl IS NOT NULL)
          denied,     \* those whose ACL keeps this user out
          host,       \* what the machine and the account allow; never changes
          sessions,   \* processes whose session with the database postgres lives
          pc, name, tries, conn    \* per process; name is db_config['database'],
                                   \* conn the database it is connected to, or {}

env  == <<server, stops, databases, granted, denied, host>>
vars == <<server, stops, databases, granted, denied, host, sessions, pc, name, tries, conn>>

Bound == IF Polls > MaxRetries THEN Polls ELSE MaxRetries

Host == [installed : BOOLEAN, startable : BOOLEAN, password : BOOLEAN, createdb : BOOLEAN]

TypeOK == /\ server \in {"down", "starting", "up"}
          /\ stops \in 0..MaxStops
          /\ databases \subseteq Names /\ granted \subseteq databases /\ denied \subseteq granted
          /\ host \in Host
          /\ sessions \subseteq Procs
          /\ pc \in [Procs -> {"check", "start", "wait", "look", "create", "grants", "probe",
                               "connect", "fallback", "ready", "failed"}]
          /\ name \in [Procs -> Names]
          /\ tries \in [Procs -> 0..Bound]
          /\ conn \in [Procs -> SUBSET databases]

\* At most one spelling of a name: CREATE DATABASE of the tool folds to lower case.
NoTwin == \A d, e \in databases : Lower[d] = Lower[e] => d = e

Init == /\ server \in {"down", "starting", "up"} /\ stops = 0
        /\ databases \in SUBSET Names /\ NoTwin
        /\ granted \in SUBSET databases /\ denied \in SUBSET granted
        /\ host \in Host
        /\ server = "up" => host.installed
        /\ sessions = {}
        /\ pc = [p \in Procs |-> "check"]
        /\ name \in [Procs -> Names]
        /\ tries = [p \in Procs |-> 0]
        /\ conn = [p \in Procs |-> {}]

----------------------------------------------------------------------------
Goto(p, l) == pc' = [pc EXCEPT ![p] = l]

\* psycopg2.connect to the database postgres, which every account may enter.
CanLogIn == server = "up" /\ host.password

\* psycopg2.connect to d: names are compared exactly.
CanConnect(d) == CanLogIn /\ d \in databases \ denied

\* check_postgres_running: any failure counts as "not running".
Check(p) == /\ pc[p] = "check"
            /\ Goto(p, IF ~host.installed THEN "failed"
                       ELSE IF CanLogIn THEN "look" ELSE "start")
            /\ UNCHANGED <<env, sessions, name, tries, conn>>

\* start_postgres_service: the service manager answers before the server
\* accepts connections.
StartServer(p) ==
  /\ pc[p] = "start"
  /\ IF host.startable
     THEN /\ Goto(p, "wait")
          /\ server' = IF server = "down" THEN "starting" ELSE server
     ELSE Goto(p, "failed") /\ UNCHANGED server
  /\ UNCHANGED <<stops, databases, granted, denied, host, sessions, name, tries, conn>>

\* Mutants: the polls are not counted; one poll too many.
Wait_Forever(p) == /\ pc[p] = "wait"
                   /\ Goto(p, IF CanLogIn THEN "look" ELSE "wait")
                   /\ UNCHANGED <<env, sessions, name, tries, conn>>

Wait_OffByOne(p) == /\ pc[p] = "wait"
                    /\ tries' = [tries EXCEPT ![p] = @ + 1]
                    /\ Goto(p, IF CanLogIn THEN "look"
                               ELSE IF tries'[p] <= Polls THEN "wait" ELSE "failed")
                    /\ UNCHANGED <<env, sessions, name, conn>>

Wait(p) == /\ pc[p] = "wait"
           /\ tries' = [tries EXCEPT ![p] = @ + 1]
           /\ Goto(p, IF CanLogIn THEN "look"
                      ELSE IF tries'[p] < Polls THEN "wait" ELSE "failed")
           /\ UNCHANGED <<env, sessions, name, conn>>

\* create_database_if_not_exists opens its session and asks whether the name is there.
LookFor(p, found) ==
  /\ pc[p] = "look"
  /\ IF CanLogIn
     THEN /\ sessions' = sessions \cup {p}
          /\ Goto(p, IF found THEN "grants" ELSE "create")
     ELSE Goto(p, "failed") /\ UNCHANGED sessions
  /\ UNCHANGED <<env, name, tries, conn>>

\* Mutant: the name is compared exactly.
Look_Exact(p) == LookFor(p, name[p] \in databases)

\* LOWER(datname) = LOWER(name).
Look(p) == LookFor(p, \E d \in databases : Lower[d] = Lower[name[p]])

\* CREATE DATABASE d; "already exists" is an error like any other.
CreateAs(p, d) ==
  /\ pc[p] = "create"
  /\ IF p \in sessions /\ host.createdb /\ d \notin databases
     THEN databases' = databases \cup {d} /\ Goto(p, "grants")
     ELSE Goto(p, "failed") /\ UNCHANGED databases
  /\ UNCHANGED <<server, stops, granted, denied, host, sessions, name, tries, conn>>

\* Mutant: the name is quoted, so its case is kept.
Create_Quoted(p) == CreateAs(p, name[p])

\* The name is not quoted: PostgreSQL folds it to lower case.
Create(p) == CreateAs(p, Lower[name[p]])

\* SELECT ... WHERE datname = 'name' AND datacl IS NOT NULL, the exact spelling.
ReadGrants(p) == /\ pc[p] = "grants"
                 /\ Goto(p, IF p \notin sessions THEN "failed"
                            ELSE IF name[p] \in granted THEN "probe" ELSE "connect")
                 /\ tries' = [tries EXCEPT ![p] = 0]
                 /\ UNCHANGED <<env, sessions, name, conn>>

\* The test connection to the target.
Probe(p) == /\ pc[p] = "probe"
            /\ Goto(p, IF CanConnect(name[p]) THEN "connect" ELSE "failed")
            /\ UNCHANGED <<env, sessions, name, tries, conn>>

\* connect_db, the way out of one attempt.
Connected(p, d) == /\ CanConnect(d)
                   /\ conn' = [conn EXCEPT ![p] = {d}]
                   /\ name' = [name EXCEPT ![p] = d]
                   /\ Goto(p, "ready")
                   /\ UNCHANGED <<env, sessions, tries>>

Connect(p) == pc[p] = "connect" /\ Connected(p, name[p])

\* "does not exist": tried at once in lower case.
ConnectMissing(p) == /\ pc[p] = "connect" /\ CanLogIn /\ name[p] \notin databases
                     /\ Goto(p, IF Lower[name[p]] # name[p] THEN "fallback" ELSE "failed")
                     /\ UNCHANGED <<env, sessions, name, tries, conn>>

\* "connection refused" raises; a server in its start-up may refuse, too.
ConnectRefused(p) == /\ pc[p] = "connect" /\ server # "up"
                     /\ Goto(p, "failed")
                     /\ UNCHANGED <<env, sessions, name, tries, conn>>

\* Any other error ("starting up", "permission denied") is tried again.
ConnectRetry(p) == /\ pc[p] = "connect"
                   /\ server = "starting" \/ (server = "up" /\ name[p] \in denied)
                   /\ tries' = [tries EXCEPT ![p] = @ + 1]
                   /\ Goto(p, IF tries'[p] < MaxRetries THEN "connect" ELSE "failed")
                   /\ UNCHANGED <<env, sessions, name, conn>>

\* Mutant: no fallback, the first error is raised.
ConnectLower_Raises(p) == /\ pc[p] = "fallback"
                          /\ Goto(p, "failed")
                          /\ UNCHANGED <<env, sessions, name, tries, conn>>

\* The lower-case name is kept in db_config; if it fails the first error is raised.
ConnectLower(p) ==
  /\ pc[p] = "fallback"
  /\ \/ Connected(p, Lower[name[p]])
     \/ /\ ~CanConnect(Lower[name[p]])
        /\ Goto(p, "failed")
        /\ UNCHANGED <<env, sessions, name, tries, conn>>

\* The server leaves its start-up, or goes away with every session.
ServerUp == /\ server = "starting"
            /\ server' = "up"
            /\ UNCHANGED <<stops, databases, granted, denied, host, sessions, pc, name, tries, conn>>

ServerStops == /\ server = "up" /\ stops < MaxStops
               /\ server' = "down" /\ stops' = stops + 1 /\ sessions' = {}
               /\ UNCHANGED <<databases, granted, denied, host, pc, name, tries, conn>>

Step(p) == \/ Check(p) \/ StartServer(p) \/ Wait(p)
           \/ Look(p) \/ Create(p) \/ ReadGrants(p) \/ Probe(p)
           \/ Connect(p) \/ ConnectMissing(p) \/ ConnectRefused(p) \/ ConnectRetry(p)
           \/ ConnectLower(p)

Next == (\E p \in Procs : Step(p)) \/ ServerUp \/ ServerStops

\* Each process runs on until it is connected or has raised.
Spec == Init /\ [][Next]_vars /\ \A p \in Procs : WF_vars(Step(p))

----------------------------------------------------------------------------
Ended(p) == pc[p] \in {"ready", "failed"}

\* NoTwin (above) as an invariant: two setups at once never leave a second
\* spelling of a name in the server, however look and create interleave.

\* Services configured with the same name, in whatever spelling, work on the
\* same database.
SameDatabase == \A p, q \in Procs :
                  pc[p] = "ready" /\ pc[q] = "ready" /\ Lower[name[p]] = Lower[name[q]]
                    => conn[p] = conn[q]

\* Every setup ends, whenever the server comes up, stops or refuses: polls and
\* retries are bounded.  A server that takes a connection and never answers is not
\* in the model; psycopg2.connect is called without a connect_timeout.
SetupEnds == \A p \in Procs : <>Ended(p)

\* On a machine that allows all it needs, with a server that stays up and holds
\* lower-case names only, a setup ends connected (README.md:182, the first run
\* creates the database).  Not every one: of two that create it at the same time
\* the second is told "already exists" and gives up.
Sound == /\ host = [installed |-> TRUE, startable |-> TRUE, password |-> TRUE, createdb |-> TRUE]
         /\ denied = {} /\ \A d \in databases : Lower[d] = d

SetupSucceeds == Sound /\ [](server = "up") => <>(\E p \in Procs : pc[p] = "ready")

=============================================================================
