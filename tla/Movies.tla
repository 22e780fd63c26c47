------------------------------- MODULE Movies --------------------------------
(***************************************************************************)
(* The data of the catalog service: the rows of the movies table, the      *)
(* requests of its five message patterns and the replies.                  *)
(***************************************************************************)
EXTENDS Integers, FiniteSets, RpcErrors

CONSTANTS
    Calls,      \* the RPC calls the service receives; each is made once
    Menu,       \* Menu[c]: the requests call c may carry
    Values,     \* what a column may hold, NULL apart
    Null,       \* SQL NULL, and null in a request
    NoRow,      \* there is no row with this id
    IntMax      \* the largest INTEGER of the database (2^31 - 1, scaled down)

(* releaseYear and durationMinutes are both smallints; duration_minutes,   *)
(* created_at and updated_at take no part in any decision and are left out.*)
Columns == {"title", "releaseYear", "ticketPrice", "description"}
KeyColumns == {"title", "releaseYear"}
Nullable == {"description"}

MovieIds == 1..IntMax

(* A movie in the memory of the service may hold a null in any column; a   *)
(* row of the table only where the column is nullable.                     *)
Movie == [Columns -> Values \union {Null}]
HasNoNull(movie) == \A col \in Columns \ Nullable : movie[col] # Null
Row == {movie \in Movie : HasNoNull(movie)}

Changes == UNION {[cols -> Values \union {Null}] : cols \in SUBSET Columns}

IdRequests == [op : {"findOne", "remove"}, id : Int]
UpdateRequests == [op : {"update"}, id : Int, changes : Changes]
CreateRequests == [op : {"create"}, movie : Row]
FindAllRequests == [op : {"findAll"}]
Requests == IdRequests \union UpdateRequests \union CreateRequests
                \union FindAllRequests

HasId(req) == req.op \in {"findOne", "update", "remove"}

NoRequest == [op |-> "none"]

(* body: the movies a reply carries, each with its id. *)
Replies == [status : Statuses, body : SUBSET (MovieIds \X Movie)]
NoReply == [status |-> 0, body |-> {}]

SameKey(a, b) == \A col \in KeyColumns : a[col] = b[col]

(* Mutant: a PATCH that replaces the movie, as a PUT would. *)
MergeReplacing(movie, changes) ==
    [col \in Columns |->
        IF col \in DOMAIN changes THEN changes[col]
        ELSE IF col \in Nullable THEN Null ELSE movie[col]]

(* movies.merge: a key of the request overwrites the column, null included.*)
Merge(movie, changes) ==
    [col \in Columns |->
        IF col \in DOMAIN changes THEN changes[col] ELSE movie[col]]

(* changes.title ?? movie.title: here null stands for "not given". *)
WantedKey(movie, changes) ==
    [col \in KeyColumns |->
        IF col \in DOMAIN changes /\ changes[col] # Null
        THEN changes[col] ELSE movie[col]]

ASSUME IntMaxAssumption == IntMax \in Nat \ {0}
ASSUME NullAssumption == Null \notin Values
ASSUME NoRowAssumption == NoRow \notin Movie
ASSUME MenuAssumption == \A c \in Calls : Menu[c] \subseteq Requests
=============================================================================
