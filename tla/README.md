# Cinema microservices, specified and verified

This directory holds TLA+ modules that model the services of this repository,
the TLC configurations that check them on small instances, and theorems that
TLAPS proves for every instance. Every definition is translated from the
source; `PROJECT.json` names, for each, the lines it stands for.

    tlc -config MCCatalogRaces.cfg MCCatalog      # check an instance
    tlapm CatalogProofs.tla                       # check the proofs

## 1. The system

An API gateway speaks HTTP to the world and RPC over TCP to three services,
each with a PostgreSQL database of its own. The order service is itself a
client of the catalog. There are no events, queues or distributed
transactions: all interaction is request and reply, with a timeout.

| Component | State | Operations | Hard behaviour | Must hold |
|---|---|---|---|---|
| Catalog service (`apps/catalog-service`) | `movies` table, id sequence; per call: the entity read | find all, find one, create, update, remove | each handler is several statements without a transaction around them; calls interleave between them; `save()` reads again and may INSERT | unique keys, ids never reused, acknowledged writes stay, no value out of nowhere |
| Order service (`apps/order-service`) | `orders` table, id sequence; per call: the order built or read | create (asks the catalog first), list, find, cancel | the catalog may be late, dead or gone; the movie may change meanwhile; cancels overlap; the confirmation of a COMMIT may be lost | only owners reach an order, the snapshot is a movie that was, orders agree with answers, every call ends |
| Auth service (`apps/auth-service`) | `users` table, id sequence; process life | register, login, profile; bootstrap of the admin at every start | check, slow hash, INSERT; starts cut short and repeated; one address in several spellings | one account per address, admins only from the environment, tokens tell the truth |
| RPC layer (`libs/shared/src/rpc`) | a connection to each service; the pending calls with their timers | connect lazily, send with timeout, map errors | late answers, messages acted on after their caller gave up, a connection that closes under several calls | one outcome per call, with the status of the contract |
| API gateway (`apps/api-gateway`) | none of its own: a token alone says who calls | guards, validation, forwarding | 504 while the effect still happens; tokens that stay good over restarts; a gateway that dies with calls in flight | what happens in the services, some account with the right to it has asked for; refusals are final |
| Health (`apps/api-gateway/src/health`) | none | ping all services | three pings that see different moments and may time out | an outage is reported, a healthy stack too |
| Deployment (`docker-compose.yaml`, `docker/`) | containers, the volume and its databases | start in order, probe, restart | kills during the start, an init script that runs once | services start after the init script, the gateway last; the stack recovers |
| Configuration (`*/config/*.env.ts`, `env.validation.ts`) | the environment of each process | validate, fall back on defaults | defaults written down once per application | who calls a service finds it |
| Money (`decimal.transformer.ts`) | amounts as NUMERIC and as numbers | round to cents, multiply, divide | binary fractions | totals exact to the cent |

## 2. The modules

| Module | What it is |
|---|---|
| `RpcErrors` | what a handler throws and the status its caller sees (`toRpcErrorPayload`, `RpcClient.toHttpException`) |
| `Movies` | rows, requests and replies of the catalog; `Merge` is `movies.merge`, `WantedKey` the `??` expressions of `update` |
| `Catalog` | `MoviesService`, one action per query |
| `AtomicCatalog` | what a caller may expect: each call takes effect at one instant |
| `Orders` | `OrdersService`, one action per query, composed with `Catalog` (`INSTANCE`) for the lookup |
| `CatalogAtomic` | the mapping of `Catalog` to `AtomicCatalog`, and `OneWriterPerMovie`, under which it is one |
| `OrderBook` | what a caller of the order service may expect: a create is one look at the catalog and one placement, every other call one instant |
| `OrdersBook` | the mapping of `Orders` to `OrderBook` |
| `OrdersHistory` | `Orders` with two history variables, for properties about the past |
| `Auth` | `AuthService` with the life of its process |
| `RpcClient` | connections, timers and outcomes of calls over Nest's TCP client |
| `Gateway` | the routes and guards, composed with `RpcClient` (`EXTENDS`), `Auth`, `AtomicCatalog` and `OrderBook` (`INSTANCE`) |
| `Config` | the variables of the four applications: defaults and validation |
| `Deployment` | PostgreSQL, the containers, probes, restarts, `GET /health`; extends `Config` |
| `Money` | a price from the request to the total of an order |
| `CatalogProofs`, `AuthProofs`, `OrdersProofs`, `OrdersHistoryProofs`, `OrdersBookProofs`, `GatewayProofs`, `DeploymentProofs`, `MoneyProofs` | theorems |
| `MC...` | instances for TLC: which calls may be made, in which environments |

### How state and actions correspond to the code

A Node process runs one handler until it awaits. So an action is one query
together with the code before the next `await`, and the label of a call (`pc`,
`stage`) is the query it is about to make. Statements are atomic, as they are
in PostgreSQL under READ COMMITTED when a statement touches one row by its key;
nothing spans two of them.

*Catalog.* `Receive` is the arrival with `ValidationPipe`'s test of the id.
`FindOne`, `FindAll` and `Remove` are one query each, `MissingMovie` is how
they and the first query of `update` end without a row. `CreateCheck` and
`InsertRow` are `create`. `UpdateRead`, `UpdateCheck`, `UpdateLoad`,
`UpdateWrite` and `Reinsert` are `update`: `findOne`, `assertTitleIsFree`, and
the statements of TypeORM's `save()`, which selects the row again, writes the
columns that differ from the entity, and inserts the entity if the row is gone.
`Taken`, `Storable` and `NewId`/`AfterInsert` are the constraints and the
sequence of the migration. A sequence moves on also when its INSERT fails.

*Orders.* `Lookup` sends the request, `CatalogReceives` is its arrival at the
catalog, `LookupReply`, `LookupTimeout` and `LookupFails` are the three ways
`RpcClient.send` ends; the catalog goes on with a lookup nobody waits for.
`StartTransaction` fixes `created_at` (PostgreSQL's `now()`), `InsertOrder`
draws the id. `CancelRead`, `CancelLoad` and `CancelWrite` are `cancel`.

*Auth.* `Start`, `AdminCheck` and `AdminCreate` are the bootstrap, before
`listen`. `RegisterCheck` and `RegisterInsert` are `register`, with the hash
between them. `Login` and `GetProfile` read one row; as rows never change
afterwards, comparing the hash and signing need no step of their own.

*The order book.* `OrdersBook` maps `Orders` to `OrderBook`: a call in
progress is pending, the quote of a create is the catalog's answer while that
waits to be read and then the snapshot in the order being built, the ids given
out are those below the sequence, and `createdAt` is left out (`NewestFirst`
speaks of it). `LookUp` is where the catalog reads its row, `Place` the
INSERT, `Decline` every way the lookup fails.

*RPC client.* `Send` writes the message if there is a connection and otherwise
leaves it to `Connect`; `Settle`, `TimeOut`, `ConnectFails` and `Close` are the
ways a call ends, of which the first one counts. `sent` holds messages that are
on their way. They may arrive in any order and after any delay, also when the
connection they were written to is gone; a single TCP stream would keep them in
order, so this allows more than the network does. Nest rejects the calls of a
connection that closes with an error without a code, which `toHttpException`
makes 502; a reset is 503. A call with a connection still being made ends at
its timer too, and is then never sent.

*Gateway.* `Arrive` is a request with everything decided before the message:
guards, then pipes, then `Send`, in that order, for the routes of all three
controllers. `Deliver` is the message
arriving at its handler; `Respond`, `GiveUp`, `CannotOpen` and `Break` end the
request. `Payload` is the message of a request: the pattern of its route, what
parameters and body carry, and on the routes of one's own the user's id from
the token. The credentials are what an earlier login of the instance returned, a
token signed with another secret, or nothing. `AuthRuns`, `CatalogRuns` and
`OrdersRun` are the steps of the services' own modules. The catalog and the
order service appear as the abstract specifications their detailed modules are
shown to implement (`catalog_atomic`, `orders_book`), the first of them for
menus with at most one writer per movie, which the instance keeps to.

*Configuration and deployment.* `Setting` is the value an application finds
(with the default of its own schema), `Valid` whether it starts; the probes use
the raw variable, as `docker-compose.yaml` does. `ComposeUp`, `CreateDatabase`
and `InitDone` are PostgreSQL with its init script, `StartContainer` the
`depends_on` conditions. A service starts in two steps: `Migrate` (validation,
connection, migrations) and `Listen`, with the query of the admin account
before it in the auth service (`Bootstraps`), so that it can be killed, or lose
its database, in between; `ListenHttp` is the start of the gateway, `StartFails`
the other end of each. The names in `BuiltIn` are taken when the init script
begins. `Probe` the health check of a service.
`StartCheck`, `Ping` and `Report` are `HealthController.check`.

*Money.* A number is a multiple of a unit so small that a cent has all of its
bits above it; `Nearest` rounds a quotient half to even to a significand of
`Precision` bits. `Read` is a decimal text that becomes a number (JSON,
`decimalTransformer.from`), `Stored` a number that goes into a column with two
decimals, `ToCents`, `FromCents` and `Total` are the code's.

*Failures.* A query may fail before it has any effect (`QueryFails`), the
confirmation of a statement may be lost after its commit (`Confirm`: the caller
gets a 500 for something that happened), and a process may die at any moment
(`Crash`): handlers in progress are lost, the database is not.

### What is abstracted

Columns no decision depends on (duration, `updated_at`); the wording of
messages; the field rules of class-validator except those that matter for a
property (positive ids, nulls, quantities, passwords that match, addresses
normalised). To the gateway a body is valid or not. A title or a price is a
member of a small set of values, a password hash is the password it accepts, a
token is its claims. A price knows its cents (`Cents`) except in `Money`, which
is about the conversion. `AtomicCatalog` and `OrderBook` are promises and not
translations, so they have no source lines.

## 3. What the runs show

| Run | Question | Bounds |
|---|---|---|
| `catalog_races` | do the table's promises survive all interleavings, failures and crashes? | 4 calls, 2 movies at the start, 4 ids |
| `catalog_atomic` | does the catalog implement `AtomicCatalog`? | 4 calls, 3 ids (one left), at most one writer per movie |
| `catalog_delete`, `catalog_patches`, `catalog_null` | disagreements, section 5 | 2 calls |
| `orders_buy` | do orders agree with answers, with the catalog of their time, and with the list? | 2 buyers, 1 reader, 1 PATCH or DELETE, 2 order ids, both services may fail |
| `orders_book` | does the order service implement `OrderBook`? who reaches an order, what stays of it, does every call end? | 3 calls (buy, look, list, cancel; owner or not), 1 DELETE of the movie, 1 order id |
| `orders_twice` | disagreement, section 5 | 2 cancels |
| `auth_accounts` | accounts, admins and tokens; does the service come to listen? | 3 calls, 2 addresses in 2 spellings, 3 environments, 2 crashes, 3 ids |
| `gateway` | what do requests bring about in the services, and with which answers? | 2 register/login requests, 1 on movies, 1 on orders, 1 fault |
| `deployment` | does the stack come up in order, and come back? | 5 environments, 2 faults |
| `money` | are totals exact? | prices 0.00 to 2.04, quantities 1 to 10, 12 bits |

Why these bounds are enough to be interesting: every race in this code is
between two handlers over one row or one key, sometimes with a third that
moves the row away or takes the key; so three or four calls over two movies
meet all of them. The id ranges are chosen so that the sequence runs out in
some behaviours. The menus give each call several requests to choose from, so
an instance covers many combinations. Runs end in states where every call was
made and answered or lost; those are the `Quiescent` stutter. Deadlock is
checked everywhere but in `deployment`, where the stack may really stop for
good: without PostgreSQL, which nothing restarts, or with a probe that cannot
succeed (section 5).

`gateway` has a login that may be the admin's, an account that is registered
and logs in while it is, and one request to each of the two other services
that may carry either token: every chain from the environment's admin account
over login, token and guards to a table is in it. One fault is a broken
connection, the death of any of the four processes or a token that expires;
timeouts and late messages are not faults and happen without a bound.

`money` scales the significand down along with the prices, as far as
`MoneyAssumption` allows: a cent is 20 units in the last place of the highest
price and 2.5 of the highest total, where the code's 53 bits leave room for
thousands of millions with prices up to 10000.00. `Math.floor` in place of
`Math.round` fails in this range, as it does in the code's. For the code's own
precision there are the theorems of `MoneyProofs`.

`catalog_atomic` restricts the menu so that no two calls update or delete one
movie (creates, reads and updates of other movies still race it; one of the
updates has a null for a title). The restriction is necessary: the findings
show what happens otherwise. The theorem `AtomicCalls` has it as a hypothesis
on behaviours, `OneWriterPerMovie`, for menus of any kind. `RemovedOnce`
speaks of movies that no update can put back, for the same reason.

*Fairness.* `FairSpec` of `Orders` assumes that the event loop runs what is
ready and that the RPC timer fires (`WF` of a call's own steps), and that the
orders database answers or fails. It assumes nothing of the catalog, of
clients or of crashes: `EveryCallEnds` is about the timeout. `FairSpec` of
`Auth` assumes `restart: unless-stopped` and a start that runs to its end
unless killed; the number of kills is bounded by `MaxCrashes`. A query of the
bootstrap that throws over and over (an exhausted sequence) would restart for
ever, which is why `EventuallyListening` asks for ids to spare. `FairSpec` of
`Gateway` assumes only that the timers of the gateway fire
(`EveryRequestAnswered` needs nothing of any service). `FairSpec` of
`Deployment` assumes that Docker carries out the compose file, that processes
run, that `GET /health` is asked again and again, and that the operator repeats
`docker compose up` when it has given up waiting; not that PostgreSQL is
started again after a kill, for which there is no policy. Kills and late pings
are bounded (`MaxFaults`); `EventuallyHealthy` is about the time after the last.

Each property was also tried against a mutant of the code it is about
(`PROJECT.json`, "mutants"; in the modules the definitions introduced by
"Mutant:"), and TLC finds it violated there.

## 4. What is proved

For all values of the constants that satisfy the named assumptions (any number
of calls, any menus, any values, any size of the tables):

* `CatalogProofs`: `TypeCorrect`, `TitleYearUnique`, `SequenceAhead`,
  `IdsNeverReused`. The invariants are not inductive alone. What `save()` writes
  depends on the id and the entity an update carries between its queries, so
  `Control` says what each handler knows at each query; in particular the id of
  an update in progress was in the table once and is therefore below the
  sequence, which is what makes the INSERT of a lost row harmless for later
  creates. For the ids of creates, `Handed` adds that every id in an answer has
  left the sequence.

  `CreatesAreKept`, `NothingInvented` and `OneDeleteSucceeds` are about the
  past, and the argument is that the past stays: a call that was answered
  changes no more and a request is what it was (`Past`), and a step that changes
  the table is a DELETE, an INSERT under a new id or a `save()`. `AnswersInv`
  adds to the three properties where values come from when they are in the
  memory of a handler (`Provenance`), and that a movie with an acknowledged
  delete is gone if nothing updates it (`RemovedStays`), without which a second
  delete could find it.

  `AtomicCalls`: in every behaviour in which no two calls update or delete one
  movie at the same time, the catalog implements `AtomicCatalog`. In such a
  behaviour `Current` always holds: the entity that `save()` read is still the
  row. So the UPDATE of the columns that differ makes the row what merging the
  request into it makes of it (`WritesMerged`), whatever creates, reads and
  updates of other movies ran between the four queries. The hypothesis is about
  the callers; the code does not enforce it, and without it the theorem is false
  (`catalog_delete`, `catalog_patches`).
* `AuthProofs`: `TypeCorrect`, `AddressUnique`, `AdminsConfigured`,
  `AdminBeforeListening`, `TokensTruthful`, `RegisteredLogIn`. The argument is
  that the table only grows (`Grows`): what a call has seen of an account
  stays true, and the one thing that does not, that an address is free, is
  decided by the constraint. `Fresh` says the ids not yet given out are
  unused, so an INSERT overwrites nothing; `Names` ties answers to rows.

* `OrdersProofs`: `TypeCorrect`, `OnlyOwner`, `AcknowledgedStays`,
  `ConflictJustified`, `AnswersCountOrders`, about the order service composed
  with the whole of `Catalog`. A row of the orders table changes in one way only,
  from CONFIRMED to CANCELLED (`Kept`), so what a handler has read and what a
  client was told stays true but for that. `Inv` has six parts: the types;
  `CatalogKnows`, the little of the catalog an order is built from (a lookup is
  answered with rows, and a row has its title, year and price); `Calling`, which
  is for each call what its handler has in memory at each query (`Knows`) and
  what its answer says of the table (`Promised`); `CancelledByOwner`, a cancelled
  row has a cancel of its owner behind it that was answered OK or 500;
  `Gapless`, a row for every id the sequence has given out and no other; and
  `Counted`, which ties the sequence to the numbers of creates answered OK and
  500. The last three are what the published invariants lack: a 409 is justified
  by `CancelledByOwner`, the counting by `Gapless` and `Counted`. A step of one
  call is reduced to that call (`OthersKeep`, `QuietKeeps`); only the INSERT and
  the UPDATE of a cancel need an argument of their own.
* `OrdersHistoryProofs`: `SnapshotsAreCurrent`, `ListedNewestFirst`. What an order
  has of the movie passes through the catalog's row, its reply, the order in
  memory and the table; `Quoting` says at each of them that it is a version
  that existed while the call ran. `Dating` puts the time of an order between the
  clock at the arrival of its call and that at its INSERT, which draws the id:
  therefore an order made after another was answered has the greater id and no
  smaller time, although `created_at` and id alone are drawn at different
  moments.
* `OrdersBookProofs`: `ImplementsBook`, `Orders` implements `OrderBook`, with no
  restriction on calls, crashes or the catalog. Each end of a handler is the
  step of `OrderBook` with that answer. Beyond `Inv` it takes that the order in a
  handler's memory is the one `OrderBook` would make: of the quote for a create,
  of the row as it now is for a cancel (`Draft`). The latter holds for
  overlapping cancels too, as both write the same row; that is why two 200s for
  one order are what `OrderBook` allows and `CancelledOnce` does not.
* `GatewayProofs`: `GatewayTypes`, `OrdersHaveAccounts`, `ResponsesCount`,
  `OnlyAdmins`, about the gateway composed with the three services. The accounts
  are those of `Auth`, so the module takes `AuthProofs` over by `INSTANCE` and
  shows none of it again. `Requested` follows a request: what the guards let
  through to a route that is not public carries the token of somebody who has
  logged in, with the role it takes (`Admitted`), the
  service works on the message of that request and no other (`Faithful`), and a
  success at the client was one in the service (`Truthful`). `Owned` ties the
  rows to requests, `Counted` their number to the answers: a lost answer leaves
  one order more than 201s, and never one less.
* `MoneyProofs`: `TotalsAreExact`, `BuyersAreToldTheTotal`, for every precision,
  the code's 53 bits included, where `MoneyAssumption` holds for all prices the
  validation lets through (a total is at most 10^7 cents, far below 2^52). A
  rounding is off by one part in `2 * Least` at most (`NearestClose`), so fewer
  than `Least` cents are read back to the cent (`StoredAsRead`), and with a
  third of that for a price also after the multiplication by 100
  (`CentsAsRead`). `Carried` takes the price through the handlers. That 2^n
  doubles is shown by counting subsets, and that a set of numbers has a least
  one by the library's theorem that finite sets are well-founded: neither needs
  the induction that the provers cannot do.
* `DeploymentProofs`: `GatewayLast`, `StartsAfterInit`, `ClientsFindServices`,
  for every environment and any number of kills. Compose waits on conditions
  that may no longer hold when the container starts, so the invariants speak of
  what has been: `Starts`, who is healthy has migrated; `Databases`, the
  databases are those of the first lines of the init script, and of all of them
  once the server is reachable, unless the script was cut short. That clients
  find services is a fact about the copies of the defaults, for every `.env`.

The assumptions: `TableAssumption` (a table that satisfies its own constraints
at the start), `MenuAssumption`, `NullAssumption`, `NoRowAssumption`,
`IntMaxAssumption`, `PlainAssumption` (no order is mistaken for none),
`MoneyAssumption` (totals in cents fit into a significand, with room for a
rounding of the price), `AuthAssumption` (normalisation is idempotent; environments
name addresses and passwords) and `OrderAssumption` (finitely many calls to the
order service, whose lookups are the catalog's calls of the same name; a typed
table of movies at the start; a price in cents for every value). Those of
`Gateway` say the same of its services' constants (`AccountsAssumption`,
`MoviesAssumption`, `OrdersAssumption`) and that a request is for one service
and has one of its routes (`CallsAssumption`). TLC evaluates them in every run.

Every invariant above, and each strengthening of it, was an invariant of a TLC
run before it was proved. What the proofs showed of the models: `Rename` of
`AtomicCatalog` looked for a collision under the merged title, where the code
looks under `title ?? movie.title`, which differs for a null; the menu of
`catalog_atomic` now has such a PATCH.

Only model-checked: the liveness properties `EveryCallEnds`,
`EventuallyListening`, `EveryRequestAnswered`, `EventuallyHealthy` and
`OutageReported`, which rest on fairness and ENABLED and are out of the prover's
reach. Every other property of a passing run is a theorem. The runs of
section 5 show counterexamples, which need no proof.

## 5. Where code and documents disagree

Four runs end in a counterexample (`PROJECT.json`, "findings"): a PATCH that
overlaps a DELETE puts the movie back (`DeleteIsFinal`); a PATCH sets back
fields it does not name (`UpdatesOnlyProvidedFields`); two overlapping cancels
both succeed (`CancelledOnce`); an explicit null in a PATCH is a 500
(`NullIsAValidationError`). Besides, an id beyond the INTEGER range is answered
with a 500 (`MissingMovie`, `MissingOrder`), which no run singles out.

About configuration, found while modelling `Deployment` and reproduced by its
states, without a run of their own:

* The README's table gives defaults for `AUTH_SERVICE_PORT` and the other two
  (`README.md:286`), and the applications have them, but the probes of
  `docker-compose.yaml:57` pass the bare variable: leave it out and the service
  listens while its probe fails for ever, and the gateway never starts. This is
  the conjunct on ports in `Complete`.
* `DB_PORT` defaults to 5432 in the applications and the README's table
  (`README.md:279`), to 5434 in `docker-compose.yaml:35`.
* A kill of PostgreSQL while its init script runs, or a database name that is
  used twice or built in (`postgres`), leave databases missing for good, as the script runs on an empty volume only:
  the services restart for ever. This is why `EventuallyHealthy` asks for
  a database for each service, and `StartedAfterInit` allows for `cut`.

## 6. Not modelled

* Logging: output only, no decision depends on it.
* Build, CI and tests: no behaviour at run time.
* The stateless field rules of class-validator and the texts of messages.
* The hosts the services bind to (`*_LISTEN_HOST`): one value in every
  deployment there is.
* The branch of `toRpcErrorPayload` for an `RpcException` with a status of its
  own: no handler throws one.
* What Node makes of a timer beyond 2^31 - 1 milliseconds (it fires at once):
  `RPC_TIMEOUT_MS` has no upper bound, so such a value passes the validation.
* The steps inside a login: the row is read once and rows do not change, so the
  comparison of the hash and the signature may be taken together with the read.
* The internals of TypeORM, PostgreSQL, NestJS and Docker beyond what the code
  relies on; the definitions marked external in the map say what that is.

What could still be done: a `Gateway` over the detailed `Orders` and `Catalog`
(its state space is out of TLC's reach at sizes where anything happens, which is
what the two abstract specifications are for); more about `Deployment` than
its order, such as that a service that listens has all of its tables; what two
overlapping writers of one movie may do at most, between `AtomicCatalog` and
the findings.
