----------------------------- MODULE MCDeployment -----------------------------
(***************************************************************************)
(* The stack with five environments: that of .env.example, one that relies *)
(* on the defaults, one with a short secret, one that names a database     *)
(* twice, and one that names a database the server comes with.             *)
(***************************************************************************)
EXTENDS Deployment

Example ==
    [DB_HOST |-> "localhost", DB_PORT |-> 5432, DB_USER |-> "cinema",
     DB_PASSWORD |-> "change-me", USERS_DB_NAME |-> "users_db",
     CATALOG_DB_NAME |-> "catalog_db", ORDER_DB_NAME |-> "order_db",
     API_GATEWAY_PORT |-> 3000, RPC_TIMEOUT_MS |-> 5000,
     AUTH_SERVICE_HOST |-> "localhost", AUTH_SERVICE_PORT |-> 3003,
     CATALOG_SERVICE_HOST |-> "localhost", CATALOG_SERVICE_PORT |-> 3001,
     ORDER_SERVICE_HOST |-> "localhost", ORDER_SERVICE_PORT |-> 3002,
     JWT_SECRET |-> "long", JWT_EXPIRES_IN |-> "1h",
     ADMIN_EMAIL |-> "admin@cinema.local", ADMIN_PASSWORD |-> "change-me-admin"]

Defaulted ==
    [Example EXCEPT !.AUTH_SERVICE_PORT = 4003, !.CATALOG_SERVICE_PORT = Absent,
                    !.RPC_TIMEOUT_MS = Absent, !.ADMIN_EMAIL = Empty]
ShortSecret == [Example EXCEPT !.JWT_SECRET = "short"]
SameName == [Example EXCEPT !.CATALOG_DB_NAME = "users_db"]

NotNew == [Example EXCEPT !.ORDER_DB_NAME = "postgres"]

MCEnvironments == {Example, Defaulted, ShortSecret, SameName, NotNew}
MCSecrets == {"long"}
MCAddresses == {"admin@cinema.local"}
MCPasswords == {"change-me-admin"}
=============================================================================
