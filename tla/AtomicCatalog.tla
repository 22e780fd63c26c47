---------------------------- MODULE AtomicCatalog ----------------------------
(***************************************************************************)
(* What the catalog promises its callers: every call takes effect at one   *)
(* instant between its request and its answer, on the table as it is at    *)
(* that instant.  No queries, entities or sequences are visible here.      *)
(***************************************************************************)
EXTENDS Movies

CONSTANTS InitialMovies, FirstFreeId

VARIABLES movies, spent, state, request, reply

vars == <<movies, spent, state, request, reply>>

Init ==
    /\ movies = InitialMovies
    /\ spent = 1..(FirstFreeId - 1)
    /\ state = [c \in Calls |-> "idle"]
    /\ request = [c \in Calls |-> NoRequest]
    /\ reply = [c \in Calls |-> NoReply]

Answer(c, status, body) ==
    /\ state[c] = "pending"
    /\ state' = [state EXCEPT ![c] = "done"]
    /\ reply' = [reply EXCEPT ![c] = [status |-> status, body |-> body]]
    /\ UNCHANGED request

Exists(i) == i \in MovieIds /\ movies[i] # NoRow

Clash(movie, i) ==
    \E j \in MovieIds \ {i} : movies[j] # NoRow /\ SameKey(movies[j], movie)

Ask(c) ==
    /\ state[c] = "idle"
    /\ \E req \in Menu[c] : request' = [request EXCEPT ![c] = req]
    /\ state' = [state EXCEPT ![c] = "pending"]
    /\ UNCHANGED <<movies, spent, reply>>

(* An id that is not positive is refused on arrival. *)
Refuse(c) ==
    /\ state[c] = "idle"
    /\ \E req \in Menu[c] :
          HasId(req) /\ req.id < 1 /\ request' = [request EXCEPT ![c] = req]
    /\ state' = [state EXCEPT ![c] = "done"]
    /\ reply' = [reply EXCEPT ![c] = [status |-> BadRequest, body |-> {}]]
    /\ UNCHANGED <<movies, spent>>

Missing(c) ==
    /\ HasId(request[c])
    /\ ~Exists(request[c].id)
    /\ Answer(c, NotFound, {})
    /\ UNCHANGED <<movies, spent>>

Find(c) ==
    /\ request[c].op = "findOne"
    /\ Exists(request[c].id)
    /\ Answer(c, OK, {<<request[c].id, movies[request[c].id]>>})
    /\ UNCHANGED <<movies, spent>>

List(c) ==
    /\ request[c].op = "findAll"
    /\ Answer(c, OK, {<<i, movies[i]>> : i \in {j \in MovieIds : Exists(j)}})
    /\ UNCHANGED <<movies, spent>>

(* A change of the table is answered OK, or not confirmed at all. *)
Confirm(c, body) == Answer(c, OK, body) \/ Answer(c, ServerError, {})

Remove(c) ==
    /\ request[c].op = "remove"
    /\ Exists(request[c].id)
    /\ movies' = [movies EXCEPT ![request[c].id] = NoRow]
    /\ Confirm(c, {})
    /\ UNCHANGED spent

(* A new movie gets an id that nobody was given before. *)
Create(c) ==
    /\ request[c].op = "create"
    /\ ~Clash(request[c].movie, 0)
    /\ \E i \in MovieIds \ spent :
          /\ spent' = spent \union {i}
          /\ movies' = [movies EXCEPT ![i] = request[c].movie]
          /\ Confirm(c, {<<i, request[c].movie>>})

(* The only reason to refuse a new movie; its id may have been spent. *)
Duplicate(c) ==
    /\ request[c].op = "create"
    /\ Clash(request[c].movie, 0)
    /\ Answer(c, Conflict, {})
    /\ \E burnt \in {{}} \union {{i} : i \in MovieIds} : spent' = spent \union burnt
    /\ UNCHANGED movies

(* All the changes asked for, and nothing else, on the current row, unless *)
(* they would leave a column empty that must not be.                       *)
Update(c) ==
    /\ request[c].op = "update"
    /\ Exists(request[c].id)
    /\ LET new == Merge(movies[request[c].id], request[c].changes) IN
          /\ HasNoNull(new)
          /\ ~Clash(new, request[c].id)
          /\ movies' = [movies EXCEPT ![request[c].id] = new]
          /\ Confirm(c, {<<request[c].id, new>>})
    /\ UNCHANGED spent

(* The only reason to refuse the update of a movie there is: its new key,  *)
(* for which a null is no wish, belongs to another one.                    *)
Rename(c) ==
    /\ request[c].op = "update"
    /\ Exists(request[c].id)
    /\ Clash(WantedKey(movies[request[c].id], request[c].changes), request[c].id)
    /\ Answer(c, Conflict, {})
    /\ UNCHANGED <<movies, spent>>

(* An internal error without effect. *)
Fail(c) == Answer(c, ServerError, {}) /\ UNCHANGED <<movies, spent>>

(* Calls in progress may stay without an answer, and without effect. *)
Lose ==
    /\ state' = [c \in Calls |-> IF state[c] = "pending" THEN "lost" ELSE state[c]]
    /\ UNCHANGED <<movies, spent, request, reply>>

Step(c) ==
    \/ Ask(c)    \/ Refuse(c)    \/ Missing(c) \/ Find(c)   \/ List(c)
    \/ Remove(c) \/ Create(c)    \/ Duplicate(c)
    \/ Update(c) \/ Rename(c)    \/ Fail(c)

Next == (\E c \in Calls : Step(c)) \/ Lose

Spec == Init /\ [][Next]_vars
=============================================================================
