-------------------------- MODULE DeploymentProofs ---------------------------
(***************************************************************************)
(* Theorems about Deployment, for every environment and any number of      *)
(* faults.                                                                 *)
(*                                                                         *)
(* What a container waits for may be gone again when it starts, so the     *)
(* invariants are about what has been: a schema that is in place, a script *)
(* that came to its end.                                                   *)
(***************************************************************************)
EXTENDS Deployment, FiniteSetTheorems, TLAPS

(* A container that is healthy, or has come past its migrations, leaves    *)
(* its schema there, whatever happens to it afterwards.                    *)
Starts ==
    /\ proc \in [Apps -> {"none", "starting", "connected", "listening", "exited"}]
    /\ healthy \subseteq migrated /\ migrated \subseteq Services
    /\ \A s \in Services : proc[s] \in {"connected", "listening"} => s \in migrated
    /\ proc["gateway"] # "none" => Services \subseteq migrated

(* The databases are those of the first lines of the init script that have *)
(* run, and all of them once the server takes connections, unless the      *)
(* script was cut short.                                                   *)
Lines(n) == {env[DatabaseOf[InitOrder[k]]] : k \in 1..n}
SetUp == AllDatabases \/ cut

Databases ==
    /\ IsFiniteSet(databases) /\ cut \in BOOLEAN
    /\ volume = "empty" => db = "down" /\ databases = {}
    /\ db = "init" => databases = Lines(Cardinality(databases))
    /\ db # "init" /\ volume # "empty" => SetUp
    /\ (\E s \in Services : proc[s] # "none") => SetUp

-----------------------------------------------------------------------------
(* The init script makes the database of every service. *)
LEMMA ScriptIsComplete ==
    ASSUME databases = Lines(Len(InitOrder))
    PROVE  AllDatabases
<1>1. Len(InitOrder) = 3
  BY DEF InitOrder
<1>2. /\ InitOrder[1] = "auth" /\ InitOrder[2] = "catalog" /\ InitOrder[3] = "order"
  BY DEF InitOrder
<1>3. \A k \in 1..3 : env[DatabaseOf[InitOrder[k]]] \in databases
  BY <1>1 DEF Lines
<1> QED
  BY <1>2, <1>3 DEF AllDatabases, Services

(* Its next line adds one. *)
LEMMA NextLine ==
    ASSUME IsFiniteSet(databases), databases = Lines(Cardinality(databases)),
           NEW name, name = env[DatabaseOf[InitOrder[Cardinality(databases) + 1]]],
           name \notin databases, databases' = databases \union {name}, env' = env
    PROVE  /\ IsFiniteSet(databases')
           /\ databases' = (Lines(Cardinality(databases)))'
<1> DEFINE n == Cardinality(databases)
<1>1. n \in Nat
  BY FS_CardinalityType
<1>2. IsFiniteSet(databases') /\ Cardinality(databases') = n + 1
  BY FS_AddElement
<1>3. 1..(n + 1) = (1..n) \union {n + 1}
  BY <1>1
<1> HIDE DEF n
<1>4. Lines(n + 1) = Lines(n) \union {env[DatabaseOf[InitOrder[n + 1]]]}
  BY <1>3 DEF Lines
<1>5. (Lines(Cardinality(databases)))' = Lines(n + 1)
  BY <1>2 DEF Lines
<1> QED
  BY <1>2, <1>4, <1>5 DEF n

-----------------------------------------------------------------------------
(* At the start nothing has happened. *)
LEMMA InitInv == ASSUME Init PROVE Starts /\ Databases
<1>1. Starts
  BY DEF Init, Starts, Apps, Services
<1>2. Databases
  BY FS_EmptySet DEF Init, Databases, Apps, Services
<1> QED
  BY <1>1, <1>2

(* What the containers do keeps Starts. *)
LEMMA NextStarts == ASSUME Starts, [Next]_vars PROVE Starts'
<1>1. CASE UNCHANGED appVars
  BY <1>1 DEF Starts, appVars
<1>2. ASSUME NEW a \in Apps, StartContainer(a)
      PROVE  Starts'
  <2>1. a = "gateway" => Services \subseteq migrated
    BY <1>2 DEF StartContainer, Starts
  <2>2. /\ proc' = [proc EXCEPT ![a] = "starting"]
        /\ healthy' = healthy /\ migrated' = migrated
    BY <1>2 DEF StartContainer
  <2> QED
    BY <2>1, <2>2 DEF Starts, Apps
<1>3. ASSUME NEW s \in Services, Migrate(s)
      PROVE  Starts'
  <2>1. /\ proc[s] = "starting" /\ proc' = [proc EXCEPT ![s] = "connected"]
        /\ healthy' = healthy /\ migrated' = migrated \union {s}
    BY <1>3 DEF Migrate
  <2> QED
    BY <2>1 DEF Starts, Apps
<1>4. ASSUME NEW a \in Apps, NEW next \in {"starting", "listening", "exited"},
             proc[a] # "none", proc' = [proc EXCEPT ![a] = next],
             next = "listening" /\ a \in Services => a \in migrated,
             healthy' = healthy, migrated' = migrated
      PROVE  Starts'
  BY <1>4 DEF Starts, Apps
<1>5. ASSUME NEW a \in Apps, StartFails(a) \/ Restart(a) \/ Kill(a)
      PROVE  Starts'
  BY <1>4, <1>5 DEF StartFails, Restart, Kill
<1>9. ASSUME NEW s \in Services, Listen(s)
      PROVE  Starts'
  <2>1. s \in Apps /\ s \in migrated
    BY <1>9 DEF Listen, Starts, Apps
  <2> QED
    BY <1>4, <1>9, <2>1 DEF Listen
<1>10. CASE ListenHttp
  <2>1. "gateway" \in Apps /\ "gateway" \notin Services
    BY DEF Apps, Services
  <2> QED
    BY <1>4, <1>10, <2>1 DEF ListenHttp
<1>6. ASSUME NEW s \in Services, Probe(s)
      PROVE  Starts'
  <2>1. proc' = proc /\ migrated' = migrated /\ healthy' = healthy \union {s} /\ s \in migrated
    BY <1>6 DEF Probe, Starts
  <2> QED
    BY <2>1 DEF Starts
<1>7. CASE \/ ComposeUp \/ CreateDatabase \/ InitDone \/ KillDatabase \/ Health
           \/ \E s \in Services : PingTimesOut(s)
  <2>1. UNCHANGED appVars
    BY <1>7 DEF ComposeUp, CreateDatabase, InitDone, KillDatabase, Health, StartCheck,
       Ping, Report, PingTimesOut
  <2> QED
    BY <1>1, <2>1
<1>8. CASE UNCHANGED vars
  BY <1>1, <1>8 DEF vars
<1> QED
  BY <1>2, <1>3, <1>5, <1>6, <1>7, <1>8, <1>9, <1>10 DEF Next, Compose, Run

(* What PostgreSQL does keeps Databases. *)
LEMMA NextDatabases == ASSUME Starts, Databases, [Next]_vars PROVE Databases'
<1>1. env' = env
  BY DEF Next, Compose, Health, Run, Fault, ComposeUp, CreateDatabase, InitDone,
     StartContainer, Migrate, Listen, ListenHttp, StartFails, Restart, Probe, StartCheck, Ping, Report,
     KillDatabase, Kill, PingTimesOut, vars
<1>2. SetUp /\ databases \subseteq databases' /\ (cut => cut') => SetUp'
  BY <1>1 DEF SetUp, AllDatabases
<1>3. CASE UNCHANGED <<dbVars, proc>>
  BY <1>1, <1>3 DEF Databases, SetUp, AllDatabases, Lines, dbVars
<1>4. CASE ComposeUp
  <2>1. /\ db = "down" /\ db' = (IF volume = "empty" THEN "init" ELSE "up")
        /\ volume' = "initialised" /\ UNCHANGED <<databases, cut, proc>>
    BY <1>4 DEF ComposeUp, appVars
  <2>2. volume = "empty" => databases = Lines(0)
    BY DEF Databases, Lines
  <2>3. volume = "empty" => databases' = (Lines(Cardinality(databases)))'
    BY <1>1, <2>1, <2>2, FS_EmptySet DEF Databases, Lines
  <2> QED
    BY <1>2, <2>1, <2>3 DEF Databases
<1>5. CASE CreateDatabase
  <2> DEFINE name == env[DatabaseOf[InitOrder[Cardinality(databases) + 1]]]
  <2>1. db = "init" /\ volume' = volume /\ proc' = proc
    BY <1>5 DEF CreateDatabase, appVars
  <2>2. CASE name \notin databases /\ databases' = databases \union {name} /\ UNCHANGED <<db, cut>>
    <3>1. IsFiniteSet(databases') /\ databases' = (Lines(Cardinality(databases)))'
      BY <1>1, <2>1, <2>2, NextLine DEF Databases
    <3> QED
      BY <1>2, <2>1, <2>2, <3>1 DEF Databases
  <2>3. CASE db' = "down" /\ cut' = TRUE /\ databases' = databases
    BY <2>1, <2>3 DEF Databases, SetUp
  <2> QED
    BY <1>5, <2>2, <2>3 DEF CreateDatabase
<1>6. CASE InitDone
  <2>1. AllDatabases
    BY <1>6, ScriptIsComplete DEF InitDone, Databases
  <2> QED
    BY <1>2, <1>6, <2>1 DEF InitDone, Databases, SetUp, appVars
<1>7. ASSUME NEW a \in Apps, proc' = [proc EXCEPT ![a] = proc'[a]], UNCHANGED dbVars,
             a \in Services /\ proc[a] = "none" => db = "up"
      PROVE  Databases'
  <2>1. (\E s \in Services : proc'[s] # "none") => SetUp
    BY <1>7 DEF Databases, Starts, Apps
  <2> QED
    BY <1>1, <1>2, <1>7, <2>1 DEF Databases, Lines, dbVars
<1>8. ASSUME NEW a \in Apps, StartContainer(a) \/ Run(a) \/ Kill(a)
      PROVE  Databases'
  <2>1. /\ \E next : proc' = [proc EXCEPT ![a] = next]
        /\ a \in Services /\ proc[a] = "none" => db = "up"
        /\ UNCHANGED dbVars
    BY <1>8 DEF StartContainer, Run, Migrate, Listen, ListenHttp, StartFails, Restart, Kill,
       DatabaseProbe, Services
  <2>2. proc' = [proc EXCEPT ![a] = proc'[a]]
    BY <2>1 DEF Starts
  <2> QED
    BY <1>7, <2>1, <2>2
<1>9. CASE KillDatabase
  <2>1. /\ db' = "down" /\ db # "down" /\ cut' = (cut \/ db = "init")
        /\ UNCHANGED <<volume, databases, proc>>
    BY <1>9 DEF KillDatabase, appVars
  <2>2. SetUp'
    BY <1>1, <2>1 DEF Databases, SetUp, AllDatabases
  <2> QED
    BY <2>1, <2>2 DEF Databases
<1>10. CASE Health \/ (\E s \in Services : Probe(s) \/ PingTimesOut(s))
  <2>1. UNCHANGED <<dbVars, proc>>
    BY <1>10 DEF Health, StartCheck, Ping, Report, Probe, PingTimesOut, appVars
  <2> QED
    BY <1>3, <2>1
<1>11. CASE UNCHANGED vars
  BY <1>3, <1>11 DEF vars, appVars
<1> QED
  BY <1>4, <1>5, <1>6, <1>8, <1>9, <1>10, <1>11 DEF Next, Compose

(* Both hold of every reachable state. *)
LEMMA AlwaysInv == Spec => [](Starts /\ Databases)
  BY InitInv, NextStarts, NextDatabases, PTL DEF Spec

-----------------------------------------------------------------------------
(* depends_on: the gateway's container is never started before the         *)
(* migrations of all three services have run, whatever is killed meanwhile.*)
THEOREM GatewayLast == Spec => []GatewayStartsLast
<1>1. Starts => GatewayStartsLast
  BY DEF Starts, GatewayStartsLast
<1> QED
  BY <1>1, AlwaysInv, PTL

(* No service's container is started while the init script still runs: its *)
(* database is there, or the script was cut short.                         *)
THEOREM StartsAfterInit == Spec => []StartedAfterInit
<1>1. Databases => StartedAfterInit
  BY DEF Databases, SetUp, StartedAfterInit
<1> QED
  BY <1>1, AlwaysInv, PTL

(* Whatever .env says or leaves out, the defaults of the applications are  *)
(* such that a client looks for a service on the port it listens on.       *)
THEOREM ClientsFindServices == Spec => []EndpointsAgree
<1>1. ASSUME NEW a \in Apps, NEW s \in Uses[a]
      PROVE  FindsService(a, s)
  <2> DEFINE var == PortOf[s]
  <2>1. s \in Services
    BY DEF Apps, Services, Uses
  <2>2. /\ var \in DOMAIN Defaults[a] /\ var \in DOMAIN Defaults[s]
        /\ Defaults[a][var] = Defaults[s][var]
    <3>1. <<a, s>> \in {<<"gateway", "auth">>, <<"gateway", "catalog">>,
                        <<"gateway", "order">>, <<"order", "catalog">>}
      BY DEF Apps, Services, Uses
    <3>2. CASE a = "gateway" /\ s = "auth"
      BY <3>2 DEF PortOf, Defaults, GatewayDefaults, AuthDefaults
    <3>3. CASE a = "gateway" /\ s = "catalog"
      BY <3>3 DEF PortOf, Defaults, GatewayDefaults, CatalogDefaults
    <3>4. CASE a = "gateway" /\ s = "order"
      BY <3>4 DEF PortOf, Defaults, GatewayDefaults, OrderDefaults
    <3>5. CASE a = "order" /\ s = "catalog"
      BY <3>5 DEF PortOf, Defaults, OrderDefaults, CatalogDefaults
    <3> QED
      BY <3>1, <3>2, <3>3, <3>4, <3>5
  <2> HIDE DEF var
  <2>3. Setting(a, Container, var) = Setting(s, Container, var)
    BY <2>2 DEF Setting
  <2> QED
    BY <2>3 DEF FindsService, ListenPort, var
<1>2. EndpointsAgree
  BY <1>1 DEF EndpointsAgree
<1> QED
  BY <1>2, PTL
=============================================================================
