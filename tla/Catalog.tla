------------------------------- MODULE Catalog -------------------------------
(***************************************************************************)
(* The catalog service: MoviesService over the movies table.               *)
(*                                                                         *)
(* A handler runs until it awaits a query, so one step of a call is one    *)
(* query with the code around it, and the steps of different calls         *)
(* interleave.  Every query is a statement (for save: a transaction) of    *)
(* its own: nothing spans two of them.                                     *)
(***************************************************************************)
EXTENDS Movies

CONSTANTS
    InitialMovies,    \* the table at the start
    FirstFreeId,      \* the first value the id sequence will give out
    DatabaseCanFail   \* whether a query may fail for want of a connection

VARIABLES
    movies,    \* the movies table: the row of each id, or NoRow
    nextId,    \* the sequence behind movies.id; IntMax + 1 once exhausted
    pc,        \* the query each call's handler is about to make
    request,   \* what each call asked
    entity,    \* the Movie an update has read
    diff,      \* the columns save() has found to differ from the row
    reply      \* the answer of each call

vars == <<movies, nextId, pc, request, entity, diff, reply>>

Waiting == {"received", "insert", "check", "load", "write", "reinsert"}
Stopped == {"done", "lost"}
Labels == {"idle"} \union Waiting \union Stopped

ASSUME TableAssumption ==
    /\ InitialMovies \in [MovieIds -> Row \union {NoRow}]
    /\ FirstFreeId \in 1..(IntMax + 1)
    /\ \A i \in MovieIds : InitialMovies[i] # NoRow => i < FirstFreeId
    /\ \A i, j \in MovieIds :
          /\ InitialMovies[i] # NoRow
          /\ InitialMovies[j] # NoRow
          /\ SameKey(InitialMovies[i], InitialMovies[j])
          => i = j

Init ==
    /\ movies = InitialMovies
    /\ nextId = FirstFreeId
    /\ pc = [c \in Calls |-> "idle"]
    /\ request = [c \in Calls |-> NoRequest]
    /\ entity = [c \in Calls |-> NoRow]
    /\ diff = [c \in Calls |-> {}]
    /\ reply = [c \in Calls |-> NoReply]

-----------------------------------------------------------------------------
(* How a handler ends.  Its local variables go with it. *)

Finish(c, status, body) ==
    /\ pc' = [pc EXCEPT ![c] = "done"]
    /\ reply' = [reply EXCEPT ![c] = [status |-> status, body |-> body]]
    /\ entity' = [entity EXCEPT ![c] = NoRow]
    /\ diff' = [diff EXCEPT ![c] = {}]
    /\ UNCHANGED request

Throw(c, exception) == Finish(c, StatusOf(exception), {})

(* A statement that changed the table: its confirmation may be lost with   *)
(* the connection although it has been committed.                          *)
Confirm(c, body) ==
    \/ Finish(c, OK, body)
    \/ DatabaseCanFail /\ Throw(c, "OtherQueryFailure")

At(c, label, op) == pc[c] = label /\ request[c].op = op
Goto(c, label) == pc' = [pc EXCEPT ![c] = label]

RowOf(c) == movies[request[c].id]
Merged(c) == Merge(entity[c], request[c].changes)

(* Mutant: the title alone is looked up. *)
TitleExists(movie, excludeId) ==
    \E i \in MovieIds \ {excludeId} :
        movies[i] # NoRow /\ movies[i].title = movie.title

(* assertTitleIsFree finds the key in use; 0 excludes no row, as every id  *)
(* is positive.                                                            *)
ExistsBy(movie, excludeId) ==
    \E i \in MovieIds \ {excludeId} :
        movies[i] # NoRow /\ SameKey(movies[i], movie)

(* Mutant: the table without its unique constraint. *)
Unconstrained(movie, id) == FALSE

(* A row with this id and this movie would break UNIQUE (title,            *)
(* release_year).                                                          *)
Taken(movie, id) ==
    \E i \in MovieIds \ {id} :
        movies[i] # NoRow /\ SameKey(movies[i], movie)

(* Mutant: columns created without NOT NULL. *)
StorableWithNull(movie) == movie \in Movie

(* The NOT NULL constraints let the statement pass. *)
Storable(movie) == movie \in Row

-----------------------------------------------------------------------------
(* A message arrives; the payload's validation turns away an id that is    *)
(* not positive before the handler runs.                                   *)
Receive(c) ==
    /\ pc[c] = "idle"
    /\ \E req \in Menu[c] :
          /\ request' = [request EXCEPT ![c] = req]
          /\ IF HasId(req) /\ req.id < 1
             THEN /\ pc' = [pc EXCEPT ![c] = "done"]
                  /\ reply' = [reply EXCEPT ![c] =
                        [status |-> StatusOf("BadRequestException"),
                         body |-> {}]]
             ELSE pc' = [pc EXCEPT ![c] = "received"] /\ UNCHANGED reply
    /\ UNCHANGED <<movies, nextId, entity, diff>>

(* findOne, and the reads and deletes by id of update and remove, when     *)
(* they find nothing: the id is not an INTEGER, or no row has it.          *)
MissingMovie(c) ==
    /\ pc[c] = "received"
    /\ HasId(request[c])
    /\ \/ request[c].id \notin MovieIds /\ Throw(c, "OtherQueryFailure")
       \/ /\ request[c].id \in MovieIds
          /\ RowOf(c) = NoRow
          /\ Throw(c, "NotFoundException")
    /\ UNCHANGED <<movies, nextId>>

FindsItsRow(c, op) ==
    At(c, "received", op) /\ request[c].id \in MovieIds /\ RowOf(c) # NoRow

FindOne(c) ==
    /\ FindsItsRow(c, "findOne")
    /\ Finish(c, OK, {<<request[c].id, RowOf(c)>>})
    /\ UNCHANGED <<movies, nextId>>

FindAll(c) ==
    /\ At(c, "received", "findAll")
    /\ Finish(c, OK, {<<i, movies[i]>> : i \in {j \in MovieIds : movies[j] # NoRow}})
    /\ UNCHANGED <<movies, nextId>>

(* Mutant: `affected` is not looked at. *)
RemoveUnchecked(c) ==
    /\ At(c, "received", "remove") /\ request[c].id \in MovieIds
    /\ movies' = [movies EXCEPT ![request[c].id] = NoRow]
    /\ Confirm(c, {})
    /\ UNCHANGED nextId

(* One DELETE decides both what is removed and what is answered. *)
Remove(c) ==
    /\ FindsItsRow(c, "remove")
    /\ movies' = [movies EXCEPT ![request[c].id] = NoRow]
    /\ Confirm(c, {})
    /\ UNCHANGED nextId

-----------------------------------------------------------------------------
(* create: assertTitleIsFree, then an INSERT. *)

CreateCheck(c) ==
    /\ At(c, "received", "create")
    /\ IF ExistsBy(request[c].movie, 0)
       THEN Throw(c, "ConflictException")
       ELSE Goto(c, "insert") /\ UNCHANGED <<request, entity, diff, reply>>
    /\ UNCHANGED <<movies, nextId>>

(* Mutant: the lowest id that is free, in place of the sequence. *)
LowestFree == CHOOSE i \in MovieIds : movies[i] = NoRow /\ \A j \in 1..(i - 1) : movies[j] # NoRow

(* The default of the id column, nextval(). *)
NewId == nextId

(* Mutant: ids given without the default, behind the back of the sequence. *)
SequenceStuck == nextId

AfterInsert == nextId + 1

(* The sequence moves on even when the INSERT then fails. *)
InsertRow(c) ==
    /\ pc[c] = "insert"
    /\ \/ /\ nextId > IntMax
          /\ Throw(c, "OtherQueryFailure")
          /\ UNCHANGED <<movies, nextId>>
       \/ /\ nextId <= IntMax
          /\ nextId' = AfterInsert
          /\ \/ /\ movies[NewId] # NoRow \/ Taken(request[c].movie, NewId)
                /\ Throw(c, "UniqueViolation")
                /\ UNCHANGED movies
             \/ /\ movies[NewId] = NoRow
                /\ ~Taken(request[c].movie, NewId)
                /\ movies' = [movies EXCEPT ![NewId] = request[c].movie]
                /\ Confirm(c, {<<NewId, request[c].movie>>})

-----------------------------------------------------------------------------
(* update: findOne, assertTitleIsFree if the key is to change, then save() *)
(* of the merged entity, which reads the row again and writes the columns  *)
(* that differ from it.                                                    *)

UpdateRead(c) ==
    /\ FindsItsRow(c, "update")
    /\ entity' = [entity EXCEPT ![c] = RowOf(c)]
    /\ Goto(c, IF SameKey(WantedKey(RowOf(c), request[c].changes), RowOf(c))
               THEN "load" ELSE "check")
    /\ UNCHANGED <<movies, nextId, request, diff, reply>>

UpdateCheck(c) ==
    /\ pc[c] = "check"
    /\ IF ExistsBy(WantedKey(entity[c], request[c].changes), request[c].id)
       THEN Throw(c, "ConflictException")
       ELSE Goto(c, "load") /\ UNCHANGED <<request, entity, diff, reply>>
    /\ UNCHANGED <<movies, nextId>>

(* save()'s own SELECT.  An entity whose row is gone is taken for a new    *)
(* one; an entity equal to its row needs no statement.                     *)
UpdateLoad(c) ==
    /\ pc[c] = "load"
    /\ \/ /\ RowOf(c) = NoRow
          /\ Goto(c, "reinsert")
          /\ UNCHANGED <<request, entity, diff, reply>>
       \/ /\ RowOf(c) = Merged(c)
          /\ Finish(c, OK, {<<request[c].id, Merged(c)>>})
       \/ /\ RowOf(c) \notin {NoRow, Merged(c)}
          /\ diff' = [diff EXCEPT ![c] =
                         {col \in Columns : RowOf(c)[col] # Merged(c)[col]}]
          /\ Goto(c, "write")
          /\ UNCHANGED <<request, entity, reply>>
    /\ UNCHANGED <<movies, nextId>>

(* The row as the UPDATE of the differing columns leaves it. *)
Written(c) ==
    [col \in Columns |->
        IF col \in diff[c] THEN Merged(c)[col] ELSE RowOf(c)[col]]

(* UPDATE ... WHERE id: no row to update is no error. *)
UpdateWrite(c) ==
    /\ pc[c] = "write"
    /\ \/ /\ RowOf(c) = NoRow
          /\ Finish(c, OK, {<<request[c].id, Merged(c)>>})
          /\ UNCHANGED movies
       \/ /\ RowOf(c) # NoRow
          /\ ~Storable(Written(c))
          /\ Throw(c, "OtherQueryFailure")
          /\ UNCHANGED movies
       \/ /\ RowOf(c) # NoRow
          /\ Storable(Written(c))
          /\ Taken(Written(c), request[c].id)
          /\ Throw(c, "UniqueViolation")
          /\ UNCHANGED movies
       \/ /\ RowOf(c) # NoRow
          /\ Storable(Written(c))
          /\ ~Taken(Written(c), request[c].id)
          /\ movies' = [movies EXCEPT ![request[c].id] = Written(c)]
          /\ Confirm(c, {<<request[c].id, Merged(c)>>})
    /\ UNCHANGED nextId

(* INSERT of the entity under the id it was read with. *)
Reinsert(c) ==
    /\ pc[c] = "reinsert"
    /\ \/ /\ ~Storable(Merged(c))
          /\ Throw(c, "OtherQueryFailure")
          /\ UNCHANGED movies
       \/ /\ Storable(Merged(c))
          /\ RowOf(c) # NoRow \/ Taken(Merged(c), request[c].id)
          /\ Throw(c, "UniqueViolation")
          /\ UNCHANGED movies
       \/ /\ Storable(Merged(c))
          /\ RowOf(c) = NoRow
          /\ ~Taken(Merged(c), request[c].id)
          /\ movies' = [movies EXCEPT ![request[c].id] = Merged(c)]
          /\ Confirm(c, {<<request[c].id, Merged(c)>>})
    /\ UNCHANGED nextId

-----------------------------------------------------------------------------
(* The query a call waits for fails before it has had any effect. *)
QueryFails(c) ==
    /\ DatabaseCanFail
    /\ pc[c] \in Waiting
    /\ Throw(c, "OtherQueryFailure")
    /\ UNCHANGED <<movies, nextId>>

(* Mutant: the schema is dropped and built again at every start. *)
SchemaDropped == InitialMovies

(* The table after a start: the migrations that are pending run, and those *)
(* that have run before, which made the table, do not run again.           *)
Migrated == movies

(* The process dies and is restarted by Docker.  Its handlers are lost,    *)
(* the database is not.  (A call whose statement was committed before its  *)
(* answer could be sent is one that is done and whose answer is lost.)     *)
Crash ==
    LET running == {c \in Calls : pc[c] \in Waiting} IN
    /\ running # {}
    /\ pc' = [c \in Calls |-> IF c \in running THEN "lost" ELSE pc[c]]
    /\ entity' = [c \in Calls |-> NoRow]
    /\ diff' = [c \in Calls |-> {}]
    /\ movies' = Migrated
    /\ UNCHANGED <<nextId, request, reply>>

Step(c) ==
    \/ Receive(c)     \/ MissingMovie(c)
    \/ FindOne(c)     \/ FindAll(c)      \/ Remove(c)
    \/ CreateCheck(c) \/ InsertRow(c)
    \/ UpdateRead(c)  \/ UpdateCheck(c)  \/ UpdateLoad(c)
    \/ UpdateWrite(c) \/ Reinsert(c)
    \/ QueryFails(c)

(* Every call has been made and none is in progress. *)
Quiescent ==
    /\ \A c \in Calls : pc[c] \in Stopped
    /\ UNCHANGED vars

Next == (\E c \in Calls : Step(c)) \/ Crash \/ Quiescent

Spec == Init /\ [][Next]_vars

-----------------------------------------------------------------------------
(* What must hold of the table, and of the answers against the table. *)

Answered(c, op, status) ==
    request[c].op = op /\ pc[c] = "done" /\ reply[c].status = status

IdsIn(c) == {pair[1] : pair \in reply[c].body}

(* The values of the variables: rows are of the entity Movie, with the     *)
(* NULLs the columns of the migration allow.                               *)
TypeOK ==
    /\ movies \in [MovieIds -> Row \union {NoRow}]
    /\ nextId \in 1..(IntMax + 1)
    /\ pc \in [Calls -> Labels]
    /\ request \in [Calls -> Requests \union {NoRequest}]
    /\ entity \in [Calls -> Row \union {NoRow}]
    /\ diff \in [Calls -> SUBSET Columns]
    /\ reply \in [Calls -> Replies \union {NoReply}]

(* No two movies share title and release year, although assertTitleIsFree  *)
(* looks before save() writes and another call may write in between.       *)
UniqueTitleYear ==
    \A i, j \in MovieIds :
        /\ movies[i] # NoRow
        /\ movies[j] # NoRow
        /\ SameKey(movies[i], movies[j])
        => i = j

(* The sequence is ahead of every id in use, so the INSERT of a create     *)
(* never meets a row under its new id, not even one that the save() of an  *)
(* update has put back after a delete.                                     *)
IdsBelowSequence == \A i \in MovieIds : movies[i] # NoRow => i < nextId

(* Two acknowledged creates never hand out the same id, whatever has been  *)
(* deleted in between: an id a client or an order keeps means one movie.   *)
CreatedIdsDistinct ==
    \A c, d \in Calls :
        /\ Answered(c, "create", OK)
        /\ Answered(d, "create", OK)
        /\ IdsIn(c) \intersect IdsIn(d) # {}
        => c = d

(* A movie whose create was acknowledged is in the table until a delete of *)
(* its id is executed: no crash, failed call or update loses it.           *)
AcknowledgedCreateStays ==
    \A c \in Calls : Answered(c, "create", OK) =>
        \A i \in IdsIn(c) : movies[i] = NoRow =>
            \E d \in Calls :
                /\ Answered(d, "remove", OK) \/ Answered(d, "remove", ServerError)
                /\ request[d].id = i

(* A column holds a value the row had at the start, or one that a create,  *)
(* or an update of this very id, asked for.  Updates racing on stale       *)
(* entities may mix what was asked, but they invent nothing.               *)
OnlyAskedValues ==
    \A i \in MovieIds : movies[i] # NoRow => \A col \in Columns :
        \/ InitialMovies[i] # NoRow /\ movies[i][col] = InitialMovies[i][col]
        \/ \E c \in Calls :
              /\ request[c].op = "create"
              /\ movies[i][col] = request[c].movie[col]
        \/ \E c \in Calls :
              /\ request[c].op = "update"
              /\ request[c].id = i
              /\ col \in DOMAIN request[c].changes
              /\ movies[i][col] = request[c].changes[col]

(* Of the calls that delete one movie at most one is told it did; the      *)
(* others are told there is no such movie.  (Unless an update may have put *)
(* the movie back: see DeleteIsFinal.)                                     *)
RemovedOnce ==
    \A c, d \in Calls :
        /\ Answered(c, "remove", OK)
        /\ Answered(d, "remove", OK)
        /\ request[c].id = request[d].id
        /\ \A u \in Calls :
              request[u].op = "update" => request[u].id # request[c].id
        => c = d

(* "lets an admin delete a movie": once a delete is acknowledged the movie *)
(* is gone, as no id is given out twice (test/app.e2e-spec.ts).            *)
DeleteIsFinal ==
    \A c \in Calls :
        Answered(c, "remove", OK) => movies[request[c].id] = NoRow

(* "updates only the provided fields" (movies.service.spec.ts): a step of  *)
(* an update leaves every column alone that its request does not name.     *)
ChangesOnlyProvided(c) ==
    (pc[c] # pc'[c] /\ request[c].op = "update") =>
        \A i \in MovieIds :
            (movies[i] # NoRow /\ movies'[i] # NoRow) =>
                \A col \in Columns \ DOMAIN request[c].changes :
                    movies'[i][col] = movies[i][col]

UpdatesOnlyProvidedFields == [][\A c \in Calls : ChangesOnlyProvided(c)]_vars

(* A request the table cannot store is a validation error, 400, and no     *)
(* internal error of the service (README.md, "Common error responses").    *)
NullIsAValidationError ==
    \A c \in Calls :
        (request[c].op = "update" /\ Null \in {request[c].changes[col] :
            col \in DOMAIN request[c].changes \ Nullable})
        => ~Answered(c, "update", ServerError)
=============================================================================
