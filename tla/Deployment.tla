----------------------------- MODULE Deployment ------------------------------
(***************************************************************************)
(* The stack of docker-compose.yaml: PostgreSQL with its init script, the  *)
(* four applications with the order of their starts, the probes that       *)
(* decide on it, restarts, and GET /health.                                *)
(***************************************************************************)
EXTENDS Config, FiniteSets, Sequences, TLC

CONSTANTS
    Environments,    \* the .env files there may be
    MaxFaults        \* bound: processes killed, answers too late

VARIABLES
    env,          \* the .env the stack is started with
    db,           \* the PostgreSQL server: down, init (sockets only), up
    volume,       \* its volume: empty, or initialised (perhaps not to the end)
    databases,    \* the databases in it
    cut,          \* whether the init script was cut short
    proc,         \* the container of each application
    migrated,     \* the services whose schema is in place
    healthy,      \* the containers whose probe has succeeded
    pings,        \* GET /health in the gateway: what it knows of each service
    report,       \* the latest answer of GET /health
    faults

dbVars == <<db, volume, databases, cut>>
appVars == <<proc, migrated, healthy>>
healthVars == <<pings, report>>
vars == <<env, dbVars, appVars, healthVars, faults>>

(* x-docker-network-env *)
Network ==
    [DB_HOST |-> "cinema_db", DB_PORT |-> 5432, AUTH_SERVICE_HOST |-> "auth-service",
     CATALOG_SERVICE_HOST |-> "catalog-service", ORDER_SERVICE_HOST |-> "order-service"]
Container == Network @@ env

NoPings == [s \in Services |-> "none"]

Init ==
    /\ env \in Environments
    /\ db = "down" /\ volume = "empty" /\ databases = {} /\ cut = FALSE
    /\ proc = [a \in Apps |-> "none"]
    /\ migrated = {} /\ healthy = {}
    /\ pings = NoPings /\ report = "none"
    /\ faults = 0

-----------------------------------------------------------------------------
(* PostgreSQL. *)

(* docker compose up; ${VAR:?} asks for these variables.                   *)
ComposeUp ==
    /\ db = "down"
    /\ \A var \in {"DB_USER", "DB_PASSWORD"} \union {DatabaseOf[s] : s \in Services} :
          env[var] \notin {Absent, Empty}
    /\ db' = IF volume = "empty" THEN "init" ELSE "up"
    /\ volume' = "initialised"
    /\ UNCHANGED <<env, databases, cut, appVars, healthVars, faults>>

InitOrder == <<"auth", "catalog", "order">>

(* What initdb has made before; no client may connect to template0.        *)
BuiltIn == {"postgres", "template0", "template1"}

(* The next CREATE DATABASE of the init script, which must be a new name.  *)
CreateDatabase ==
    /\ db = "init"
    /\ Cardinality(databases) < Len(InitOrder)
    /\ LET name == env[DatabaseOf[InitOrder[Cardinality(databases) + 1]]] IN
          \/ /\ name \notin databases \union BuiltIn
             /\ databases' = databases \union {name}
             /\ UNCHANGED <<db, cut>>
          \/ /\ name \in databases \union BuiltIn
             /\ db' = "down" /\ cut' = TRUE
             /\ UNCHANGED databases
    /\ UNCHANGED <<env, volume, appVars, healthVars, faults>>

(* The server is started again, now for TCP connections too. *)
InitDone ==
    /\ db = "init"
    /\ Cardinality(databases) = Len(InitOrder)
    /\ db' = "up"
    /\ UNCHANGED <<env, volume, databases, cut, appVars, healthVars, faults>>

(* Mutant: pg_isready without -h. *)
AnySocket == db \in {"init", "up"}

(* pg_isready -h 127.0.0.1 *)
DatabaseProbe == db = "up"

-----------------------------------------------------------------------------
(* The applications. *)

(* depends_on, condition: service_healthy. *)
StartContainer(a) ==
    /\ proc[a] = "none"
    /\ IF a = "gateway" THEN Services \subseteq healthy ELSE DatabaseProbe
    /\ proc' = [proc EXCEPT ![a] = "starting"]
    /\ UNCHANGED <<env, dbVars, migrated, healthy, healthVars, faults>>

HasDatabase(s) ==
    /\ db = "up"
    /\ Container[DatabaseOf[s]] \in (databases \union BuiltIn) \ {"template0"}

(* A service connects to its database and brings the schema up to date.    *)
Migrate(s) ==
    /\ proc[s] = "starting"
    /\ Valid(s, Container) /\ HasDatabase(s)
    /\ proc' = [proc EXCEPT ![s] = "connected"]
    /\ migrated' = migrated \union {s}
    /\ UNCHANGED <<env, dbVars, healthy, healthVars, faults>>

(* The bootstrap of the admin account (module Auth) queries the database   *)
(* once more before the auth service listens.                              *)
Bootstraps(s) ==
    (s = "auth" /\ Container.ADMIN_EMAIL \notin {Absent, Empty}) => HasDatabase(s)

(* From here on a service does not end for want of its database. *)
Listen(s) ==
    /\ proc[s] = "connected"
    /\ Bootstraps(s)
    /\ proc' = [proc EXCEPT ![s] = "listening"]
    /\ UNCHANGED <<env, dbVars, migrated, healthy, healthVars, faults>>

(* The gateway opens no connection before its first request. *)
ListenHttp ==
    /\ proc["gateway"] = "starting"
    /\ Valid("gateway", Container)
    /\ proc' = [proc EXCEPT !["gateway"] = "listening"]
    /\ UNCHANGED <<env, dbVars, migrated, healthy, healthVars, faults>>

(* The validation throws, or the database cannot be reached: the process   *)
(* ends after TypeORM's attempts, or when the bootstrap rejects.           *)
StartFails(a) ==
    /\ \/ proc[a] = "starting" /\ ~Valid(a, Container)
       \/ proc[a] = "starting" /\ a \in Services /\ ~HasDatabase(a)
       \/ proc[a] = "connected" /\ ~Bootstraps(a)
    /\ proc' = [proc EXCEPT ![a] = "exited"]
    /\ UNCHANGED <<env, dbVars, migrated, healthy, healthVars, faults>>

(* Mutant: no restart policy. *)
RestartNever(a) == FALSE

(* restart: unless-stopped *)
Restart(a) ==
    /\ proc[a] = "exited"
    /\ proc' = [proc EXCEPT ![a] = "starting"]
    /\ UNCHANGED <<env, dbVars, migrated, healthy, healthVars, faults>>

ListenPort(a) == Setting(a, Container, PortOf[a])

(* Mutant: a container that runs is taken for one that serves. *)
ServiceStarted(s) ==
    /\ proc[s] \in {"starting", "listening"} /\ s \notin healthy
    /\ healthy' = healthy \union {s}
    /\ UNCHANGED <<env, dbVars, proc, migrated, healthVars, faults>>

(* tcp-healthcheck.js connects to the port the variable names; it knows no *)
(* default.                                                                *)
Probe(s) ==
    /\ proc[s] = "listening" /\ s \notin healthy
    /\ Container[PortOf[s]] = ListenPort(s)
    /\ healthy' = healthy \union {s}
    /\ UNCHANGED <<env, dbVars, proc, migrated, healthVars, faults>>

-----------------------------------------------------------------------------
(* GET /health: a ping of each service, which asks its database.           *)

(* Mutant: a failed SELECT 1 is swallowed. *)
AlwaysUp(s) == proc[s] = "listening"

(* DatabaseHealthController in a service that is there. *)
AnswersPing(s) == proc[s] = "listening" /\ HasDatabase(s)

(* The client of a finds s. *)
FindsService(a, s) == Setting(a, Container, PortOf[s]) = ListenPort(s)

StartCheck ==
    /\ proc["gateway"] = "listening"
    /\ pings = NoPings
    /\ pings' = [s \in Services |-> "asked"]
    /\ UNCHANGED <<env, dbVars, appVars, report, faults>>

Ping(s) ==
    /\ pings[s] = "asked"
    /\ pings' = [pings EXCEPT ![s] =
           IF FindsService("gateway", s) /\ AnswersPing(s) THEN "up" ELSE "down"]
    /\ UNCHANGED <<env, dbVars, appVars, report, faults>>

AllUp == \A s \in Services : pings[s] = "up"

(* Promise.all has all three; 200 or 503. *)
Report ==
    /\ \A s \in Services : pings[s] \in {"up", "down"}
    /\ report' = IF AllUp THEN "ok" ELSE "error"
    /\ pings' = NoPings
    /\ UNCHANGED <<env, dbVars, appVars, faults>>

-----------------------------------------------------------------------------
(* Faults. *)

Fault == faults < MaxFaults /\ faults' = faults + 1 /\ UNCHANGED env

(* A kill of the server before the init script is through leaves a volume  *)
(* that counts as initialised: the script is not run again.                *)
KillDatabase ==
    /\ Fault
    /\ db # "down"
    /\ db' = "down"
    /\ cut' = (cut \/ db = "init")
    /\ UNCHANGED <<volume, databases, appVars, healthVars>>

Kill(a) ==
    /\ Fault
    /\ proc[a] \in {"starting", "connected", "listening"}
    /\ proc' = [proc EXCEPT ![a] = "exited"]
    /\ pings' = IF a = "gateway" THEN NoPings ELSE pings
    /\ UNCHANGED <<dbVars, migrated, healthy, report>>

(* A ping that is not answered within RPC_TIMEOUT_MS. *)
PingTimesOut(s) ==
    /\ Fault
    /\ pings[s] = "asked"
    /\ pings' = [pings EXCEPT ![s] = "down"]
    /\ UNCHANGED <<dbVars, appVars, report>>

Compose ==
    \/ CreateDatabase \/ InitDone
    \/ \E a \in Apps : StartContainer(a)
    \/ \E s \in Services : Probe(s)

Run(a) ==
    \/ a \in Services /\ (Migrate(a) \/ Listen(a))
    \/ a = "gateway" /\ ListenHttp
    \/ StartFails(a) \/ Restart(a)

Health == StartCheck \/ (\E s \in Services : Ping(s)) \/ Report

Next ==
    \/ ComposeUp \/ Compose \/ Health
    \/ \E a \in Apps : Run(a) \/ Kill(a)
    \/ \E s \in Services : PingTimesOut(s)
    \/ KillDatabase

Spec == Init /\ [][Next]_vars

(* Docker does what the compose file says, processes run, and the gateway  *)
(* is asked for its health again and again (compose itself asks every ten  *)
(* seconds, at the port that .env names).  When "docker compose up" gives  *)
(* up waiting, after ten failed probes, the operator runs it again.        *)
(* PostgreSQL has no restart policy: nobody is obliged to start it.        *)
FairSpec ==
    /\ Spec
    /\ WF_vars(Compose) /\ WF_vars(Health)
    /\ \A a \in Apps : WF_vars(Run(a))

-----------------------------------------------------------------------------
AllDatabases == \A s \in Services : env[DatabaseOf[s]] \in databases

(* No service is started against a server that is still being set up: then *)
(* its database is there, unless the script that makes it was cut short.   *)
StartedAfterInit ==
    (\E s \in Services : proc[s] # "none") => AllDatabases \/ cut

(* "The gateway starts last, once every service reports healthy" (README): *)
(* each has been up, with its migrations run, whatever died meanwhile.     *)
GatewayStartsLast == proc["gateway"] # "none" => migrated = Services

(* Who calls a service, the gateway or the order service, looks for it on  *)
(* the port it listens on, wherever the number came from: .env or one of   *)
(* the defaults written down in each application.  That goes for a gateway *)
(* too that is still to start.                                             *)
EndpointsAgree ==
    \A a \in Apps : \A s \in Uses[a] : proc[s] = "listening" => FindsService(a, s)

(* An environment that all the applications accept, and that leaves no     *)
(* port to its default, as the probes do not know the defaults.            *)
Complete == \A a \in Apps : Valid(a, Container) /\ env[PortOf[a]] # Absent

(* With such an environment, and PostgreSQL in the end running with a      *)
(* database for each service, GET /health comes to say ok, and keeps to it, whatever was   *)
(* killed, in whatever order, while the stack was coming up.               *)
EventuallyHealthy ==
    ([]Complete /\ <>[](\A s \in Services : HasDatabase(s))) => <>[](report = "ok")

(* When the database is gone for good, GET /health comes to say so: three  *)
(* pings that look at different moments do not hide it for ever.           *)
OutageReported == <>[](db = "down") => <>[](report # "ok")
=============================================================================
