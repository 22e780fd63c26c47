------------------------------- MODULE Config --------------------------------
(***************************************************************************)
(* The environment variables of the four applications: the defaults each   *)
(* falls back on, and the validation each runs before it starts.           *)
(***************************************************************************)
EXTENDS Integers

CONSTANTS
    Absent,       \* the variable is not set
    Empty,        \* set to nothing; as a number that is 0, which is no port
    Secrets,      \* texts of 32 characters and more
    Addresses,    \* well-formed email addresses
    Passwords     \* texts of 8 characters and more

Services == {"auth", "catalog", "order"}
Apps == Services \union {"gateway"}

(* SERVICE_ENDPOINTS, and what the applications' modules ask for. *)
PortOf ==
    [auth |-> "AUTH_SERVICE_PORT", catalog |-> "CATALOG_SERVICE_PORT",
     order |-> "ORDER_SERVICE_PORT", gateway |-> "API_GATEWAY_PORT"]
HostOf ==
    [auth |-> "AUTH_SERVICE_HOST", catalog |-> "CATALOG_SERVICE_HOST",
     order |-> "ORDER_SERVICE_HOST"]
UsersDatabase == "USERS_DB_NAME"
MoviesDatabase == "CATALOG_DB_NAME"
OrdersDatabase == "ORDER_DB_NAME"
DatabaseOf == [auth |-> UsersDatabase, catalog |-> MoviesDatabase, order |-> OrdersDatabase]

(* The services an application is a client of. *)
Uses == [gateway |-> Services, order |-> {"catalog"}, auth |-> {}, catalog |-> {}]

(* Field initialisers: each schema has its own copy. *)
GatewayDefaults ==
    [API_GATEWAY_PORT |-> 3000, RPC_TIMEOUT_MS |-> 5000,
     AUTH_SERVICE_HOST |-> "localhost", AUTH_SERVICE_PORT |-> 3003,
     CATALOG_SERVICE_HOST |-> "localhost", CATALOG_SERVICE_PORT |-> 3001,
     ORDER_SERVICE_HOST |-> "localhost", ORDER_SERVICE_PORT |-> 3002]
AuthDefaults == [DB_PORT |-> 5432, AUTH_SERVICE_PORT |-> 3003, JWT_EXPIRES_IN |-> "1h"]
CatalogDefaults == [DB_PORT |-> 5432, CATALOG_SERVICE_PORT |-> 3001]

(* Mutant: the order service looks for the catalog where it listens itself.*)
OrderDefaultsMixedUp ==
    [DB_PORT |-> 5432, ORDER_SERVICE_PORT |-> 3002, RPC_TIMEOUT_MS |-> 5000,
     CATALOG_SERVICE_HOST |-> "localhost", CATALOG_SERVICE_PORT |-> 3002]

OrderDefaults ==
    [DB_PORT |-> 5432, ORDER_SERVICE_PORT |-> 3002, RPC_TIMEOUT_MS |-> 5000,
     CATALOG_SERVICE_HOST |-> "localhost", CATALOG_SERVICE_PORT |-> 3001]

Defaults ==
    [gateway |-> GatewayDefaults, auth |-> AuthDefaults,
     catalog |-> CatalogDefaults, order |-> OrderDefaults]

(* What the application finds under the name of the variable. *)
Setting(app, env, var) ==
    IF env[var] = Absent /\ var \in DOMAIN Defaults[app]
    THEN Defaults[app][var] ELSE env[var]

(* @IsInt @Min(1) @Max(65535) *)
Ports(app) ==
    {PortOf[s] : s \in Uses[app] \union {app}}
        \union (IF app \in Services THEN {"DB_PORT"} ELSE {})

(* @IsString @IsNotEmpty *)
Filled(app) ==
    {HostOf[s] : s \in Uses[app]}
        \union (IF app \in Services
                THEN {"DB_HOST", "DB_USER", "DB_PASSWORD", DatabaseOf[app]} ELSE {})
        \union (IF app = "auth" THEN {"JWT_EXPIRES_IN"} ELSE {})

(* createEnvValidator lets the application start. *)
Valid(app, env) ==
    /\ \A var \in Ports(app) : Setting(app, env, var) \in 1..65535
    /\ \A var \in Filled(app) : Setting(app, env, var) \notin {Absent, Empty}
    /\ app \in {"auth", "gateway"} => env.JWT_SECRET \in Secrets
    /\ Uses[app] # {} => Setting(app, env, "RPC_TIMEOUT_MS") \in Nat \ 0..99
    /\ (app = "auth" /\ env.ADMIN_EMAIL \notin {Absent, Empty}) =>
          env.ADMIN_EMAIL \in Addresses /\ env.ADMIN_PASSWORD \in Passwords
=============================================================================
