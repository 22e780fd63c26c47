---------------------------- MODULE CatalogProofs ----------------------------
(***************************************************************************)
(* Theorems about Catalog, for any calls, menus, values and table size.    *)
(*                                                                         *)
(* The invariants of Catalog are not inductive by themselves: what save()  *)
(* writes depends on the entity and the id an update carries between its   *)
(* queries.  Control says what those are at each query; Handed ties the    *)
(* answers of creates to the sequence.                                     *)
(*                                                                         *)
(* What the table owes to the requests made of the service and to the      *)
(* answers it has given rests on two things more.  A call that has been    *)
(* answered is over, and its request is what it asked when it arrived, so  *)
(* whatever was asked or answered once stays so.  And the table changes in *)
(* three ways only: by a DELETE, by the INSERT of a create under a new id, *)
(* and by save().                                                          *)
(***************************************************************************)
EXTENDS CatalogAtomic, TLAPS

Updating == {"check", "load", "write", "reinsert"}

(* What a handler knows when it is about to make each of its queries. *)
Control ==
    \A c \in Calls :
        /\ pc[c] # "idle" => request[c] \in Requests
        /\ pc[c] = "received" /\ HasId(request[c]) => request[c].id \in Nat \ {0}
        /\ pc[c] = "insert" => request[c].op = "create"
        /\ pc[c] \in Updating =>
              /\ request[c].op = "update"
              /\ request[c].id \in MovieIds
              /\ request[c].id < nextId
              /\ entity[c] \in Row

(* An id in the answer of a create has left the sequence. *)
Handed ==
    \A c \in Calls :
        Answered(c, "create", OK) => \A i \in IdsIn(c) : i < nextId

Inv == TypeOK /\ Control /\ UniqueTitleYear /\ IdsBelowSequence

-----------------------------------------------------------------------------
(* The data. *)

(* What the messages carry, once ValidationPipe has let them through.      *)
LEMMA RequestTypes ==
    ASSUME NEW req \in Requests
    PROVE  /\ HasId(req) => req.id \in Int
           /\ req.op = "update" => req.changes \in Changes
           /\ req.op = "create" => req.movie \in Row
  BY DEF Requests, IdRequests, UpdateRequests, CreateRequests,
         FindAllRequests, HasId

(* movies.merge keeps an entity within Movie: a null may come in, a column *)
(* cannot get lost.                                                        *)
LEMMA MergeType ==
    ASSUME NEW movie \in Movie, NEW changes \in Changes
    PROVE  Merge(movie, changes) \in Movie
<1>1. PICK cols \in SUBSET Columns : changes \in [cols -> Values \union {Null}]
  BY DEF Changes
<1> QED
  BY <1>1 DEF Merge, Movie

(* A row of the table is a movie, and the absence of one is not.           *)
LEMMA RowIsMovie == Row \subseteq Movie /\ NoRow \notin Row
  BY NoRowAssumption DEF Row

(* toRpcErrorPayload answers every exception with a status of the          *)
(* contract.                                                               *)
LEMMA StatusType == \A exception : StatusOf(exception) \in Statuses
  BY DEF StatusOf, HttpStatus, Statuses, BadRequest, Unauthorized, NotFound, Conflict,
         ServerError

-----------------------------------------------------------------------------
(* A handler that ends leaves nothing ill-typed behind. *)

LocalTypes ==
    /\ pc \in [Calls -> Labels]
    /\ request \in [Calls -> Requests \union {NoRequest}]
    /\ entity \in [Calls -> Row \union {NoRow}]
    /\ diff \in [Calls -> SUBSET Columns]
    /\ reply \in [Calls -> Replies \union {NoReply}]

(* The answer of a handler, and what it forgets, keep their types.         *)
LEMMA FinishTypes ==
    ASSUME LocalTypes, NEW c \in Calls, NEW status \in Statuses,
           NEW body \in SUBSET (MovieIds \X Movie), Finish(c, status, body)
    PROVE  LocalTypes'
<1>1. [status |-> status, body |-> body] \in Replies
  BY DEF Replies
<1>2. "done" \in Labels
  BY DEF Labels, Stopped
<1> QED
  BY <1>1, <1>2 DEF LocalTypes, Finish

(* An exception leaves a handler as an answer of the contract.             *)
LEMMA ThrowTypes ==
    ASSUME LocalTypes, NEW c \in Calls, NEW exception, Throw(c, exception)
    PROVE  LocalTypes'
  BY FinishTypes, StatusType DEF Throw

(* So does a change of the table, confirmed or not.                        *)
LEMMA ConfirmTypes ==
    ASSUME LocalTypes, NEW c \in Calls,
           NEW body \in SUBSET (MovieIds \X Movie), Confirm(c, body)
    PROVE  LocalTypes'
  BY FinishTypes, ThrowTypes DEF Confirm, Statuses, OK

(* After the step of call c that ended it, Control holds if the sequence   *)
(* has not moved back.                                                     *)
Ends(c) ==
    /\ pc' = [pc EXCEPT ![c] = "done"]
    /\ request' = request
    /\ \A d \in Calls \ {c} : entity'[d] = entity[d]

(* A throwing handler touches no other call.                               *)
LEMMA ThrowEnds ==
    ASSUME LocalTypes, NEW c \in Calls, NEW exception, Throw(c, exception)
    PROVE  Ends(c)
  BY DEF Ends, Throw, Finish, LocalTypes

(* Nor does one that confirms.                                             *)
LEMMA ConfirmEnds ==
    ASSUME LocalTypes, NEW c \in Calls, NEW body, Confirm(c, body)
    PROVE  Ends(c)
  BY ThrowEnds DEF Ends, Confirm, Finish, LocalTypes

(* A handler that ends leaves what the others know as it was.              *)
LEMMA EndsControl ==
    ASSUME LocalTypes, Control, NEW c \in Calls, Ends(c), pc[c] # "idle",
           nextId \in Int, nextId' \in Int, nextId <= nextId'
    PROVE  Control'
<1> SUFFICES ASSUME NEW d \in Calls
             PROVE  /\ pc'[d] # "idle" => request[d] \in Requests
                    /\ pc'[d] = "received" /\ HasId(request[d])
                          => request[d].id \in Nat \ {0}
                    /\ pc'[d] = "insert" => request[d].op = "create"
                    /\ pc'[d] \in Updating =>
                          /\ request[d].op = "update"
                          /\ request[d].id \in MovieIds
                          /\ request[d].id < nextId'
                          /\ entity'[d] \in Row
  BY DEF Control, Ends, HasId
<1>1. CASE d = c
  BY <1>1 DEF Control, Ends, LocalTypes, Updating
<1>2. CASE d # c
  <2>1. pc'[d] = pc[d] /\ entity'[d] = entity[d]
    BY <1>2 DEF Ends, LocalTypes
  <2>2. request[d].id \in MovieIds => request[d].id \in Int
    BY DEF MovieIds
  <2> QED
    BY <2>1, <2>2 DEF Control
<1> QED
  BY <1>1, <1>2

-----------------------------------------------------------------------------
(* The table. *)

TableInv ==
    /\ movies \in [MovieIds -> Row \union {NoRow}]
    /\ nextId \in 1..(IntMax + 1)
    /\ UniqueTitleYear
    /\ IdsBelowSequence

(* Inv, taken apart as the steps disturb it.                               *)
LEMMA InvParts == Inv <=> LocalTypes /\ TableInv /\ Control
  BY DEF Inv, TypeOK, LocalTypes, TableInv

(* What holds of the table holds while it stays the same.                  *)
LEMMA SameTable ==
    ASSUME TableInv, UNCHANGED <<movies, nextId>>
    PROVE  TableInv'
  BY DEF TableInv, UniqueTitleYear, IdsBelowSequence

(* An id drawn in vain leaves the sequence ahead of the table.             *)
LEMMA SequenceMoves ==
    ASSUME TableInv, UNCHANGED movies, nextId <= IntMax, nextId' = nextId + 1
    PROVE  TableInv'
<1>1. \A i \in MovieIds : i < nextId => i < nextId'
  BY IntMaxAssumption DEF TableInv, MovieIds
<1>2. nextId' \in 1..(IntMax + 1)
  BY IntMaxAssumption DEF TableInv
<1> QED
  BY <1>1, <1>2 DEF TableInv, UniqueTitleYear, IdsBelowSequence

(* A DELETE breaks nothing that holds of the table.                        *)
LEMMA TakeRow ==
    ASSUME TableInv, NEW i \in MovieIds, UNCHANGED nextId,
           movies' = [movies EXCEPT ![i] = NoRow]
    PROVE  TableInv'
<1>1. \A j \in MovieIds : movies'[j] # NoRow => movies'[j] = movies[j] /\ movies[j] # NoRow
  BY DEF TableInv
<1>2. movies' \in [MovieIds -> Row \union {NoRow}]
  BY DEF TableInv
<1> QED
  BY <1>1, <1>2 DEF TableInv, UniqueTitleYear, IdsBelowSequence

(* A row whose key no other row has may be written under any id that the   *)
(* sequence has passed.                                                    *)
LEMMA PutRow ==
    ASSUME TableInv, NEW i \in MovieIds, NEW row \in Row, ~Taken(row, i),
           movies' = [movies EXCEPT ![i] = row],
           nextId' \in 1..(IntMax + 1), nextId <= nextId', i < nextId'
    PROVE  TableInv'
<1>1. /\ movies' \in [MovieIds -> Row \union {NoRow}]
      /\ movies'[i] = row
      /\ \A j \in MovieIds \ {i} : movies'[j] = movies[j]
  BY DEF TableInv
<1>2. UniqueTitleYear'
  <2> SUFFICES ASSUME NEW j \in MovieIds, NEW k \in MovieIds,
                      movies'[j] # NoRow, movies'[k] # NoRow,
                      SameKey(movies'[j], movies'[k])
               PROVE  j = k
    BY DEF UniqueTitleYear, SameKey
  <2>1. CASE j # i /\ k # i
    BY <1>1, <2>1 DEF TableInv, UniqueTitleYear
  <2>2. CASE j = i /\ k # i
    <3>1. SameKey(movies[k], row)
      BY <1>1, <2>2 DEF SameKey
    <3> QED
      BY <1>1, <2>2, <3>1 DEF Taken
  <2>3. CASE j # i /\ k = i
    BY <1>1, <2>3 DEF Taken, SameKey
  <2> QED
    BY <2>1, <2>2, <2>3
<1>3. IdsBelowSequence'
  <2> SUFFICES ASSUME NEW j \in MovieIds, movies'[j] # NoRow
               PROVE  j < nextId'
    BY DEF IdsBelowSequence
  <2>1. CASE j # i
    BY <1>1, <2>1, IntMaxAssumption DEF TableInv, IdsBelowSequence, MovieIds
  <2> QED
    BY <2>1
<1> QED
  BY <1>1, <1>2, <1>3 DEF TableInv

-----------------------------------------------------------------------------
(* The steps. *)

(* A call that throws and leaves the table alone. *)
LEMMA ThrowInv ==
    ASSUME Inv, NEW c \in Calls, pc[c] # "idle", NEW exception,
           Throw(c, exception), UNCHANGED <<movies, nextId>>
    PROVE  Inv'
<1>1. LocalTypes' /\ Ends(c)
  BY InvParts, ThrowTypes, ThrowEnds
<1>2. TableInv'
  BY InvParts, SameTable
<1>3. Control'
  BY <1>1, InvParts, EndsControl DEF TableInv
<1> QED
  BY <1>1, <1>2, <1>3, InvParts DEF Inv, TypeOK, LocalTypes, TableInv

(* A call that answers or confirms, given what becomes of the table. *)
LEMMA ConfirmInv ==
    ASSUME Inv, NEW c \in Calls, pc[c] # "idle",
           NEW body \in SUBSET (MovieIds \X Movie), Confirm(c, body),
           TableInv', nextId <= nextId'
    PROVE  Inv'
<1>1. LocalTypes' /\ Ends(c)
  BY InvParts, ConfirmTypes, ConfirmEnds
<1>2. Control'
  BY <1>1, InvParts, EndsControl DEF TableInv
<1> QED
  BY <1>1, <1>2 DEF Inv, TypeOK, LocalTypes, TableInv

(* A read ends like a change that is confirmed.                            *)
LEMMA FinishIsConfirm == \A c, body : Finish(c, OK, body) => Confirm(c, body)
  BY DEF Confirm

(* A call that goes on to another query with its request as it is. *)
LEMMA GotoInv ==
    ASSUME Inv, NEW c \in Calls, pc[c] # "idle", NEW label \in Labels \ {"idle", "received"},
           Goto(c, label), LocalTypes', UNCHANGED <<movies, nextId, request>>,
           \A d \in Calls \ {c} : entity'[d] = entity[d],
           label = "insert" => request[c].op = "create",
           label \in Updating =>
               /\ request[c].op = "update"
               /\ request[c].id \in MovieIds
               /\ request[c].id < nextId
               /\ entity'[c] \in Row
    PROVE  Inv'
<1>1. TableInv'
  BY InvParts, SameTable
<1>2. pc'[c] = label /\ \A d \in Calls \ {c} : pc'[d] = pc[d]
  BY DEF Goto, Inv, TypeOK
<1>3. Control'
  BY <1>2 DEF Inv, Control, HasId
<1> QED
  BY <1>1, <1>3 DEF Inv, TypeOK, LocalTypes, TableInv

(* The migrated table with no call made yet satisfies the invariant.       *)
LEMMA InitInv == Init => Inv
<1> SUFFICES ASSUME Init PROVE Inv
  OBVIOUS
<1>1. TypeOK
  BY TableAssumption DEF Init, TypeOK, Labels
<1>2. Control
  BY DEF Init, Control, Updating
<1>3. UniqueTitleYear /\ IdsBelowSequence
  BY TableAssumption DEF Init, UniqueTitleYear, IdsBelowSequence
<1> QED
  BY <1>1, <1>2, <1>3 DEF Inv

(* The arrival of a message preserves it.                                  *)
LEMMA ReceiveInv ==
    ASSUME Inv, NEW c \in Calls, Receive(c)
    PROVE  Inv'
<1>1. PICK req \in Menu[c] :
          /\ request' = [request EXCEPT ![c] = req]
          /\ \/ /\ pc' = [pc EXCEPT ![c] = "done"]
                /\ reply' = [reply EXCEPT ![c] =
                      [status |-> StatusOf("BadRequestException"), body |-> {}]]
             \/ /\ ~(HasId(req) /\ req.id < 1)
                /\ pc' = [pc EXCEPT ![c] = "received"]
                /\ UNCHANGED reply
  BY DEF Receive
<1>2. UNCHANGED <<movies, nextId, entity, diff>>
  BY DEF Receive
<1>3. req \in Requests /\ (HasId(req) => req.id \in Int)
  BY MenuAssumption, RequestTypes
<1>4. [status |-> StatusOf("BadRequestException"), body |-> {}] \in Replies
  BY StatusType DEF Replies
<1>5. LocalTypes'
  BY <1>1, <1>2, <1>3, <1>4 DEF Inv, TypeOK, LocalTypes, Labels, Waiting, Stopped
<1>6. Control'
  <2> SUFFICES ASSUME NEW d \in Calls
               PROVE  /\ pc'[d] # "idle" => request'[d] \in Requests
                      /\ pc'[d] = "received" /\ HasId(request'[d])
                            => request'[d].id \in Nat \ {0}
                      /\ pc'[d] = "insert" => request'[d].op = "create"
                      /\ pc'[d] \in Updating =>
                            /\ request'[d].op = "update"
                            /\ request'[d].id \in MovieIds
                            /\ request'[d].id < nextId'
                            /\ entity'[d] \in Row
    BY DEF Control, HasId
  <2>1. CASE d = c
    BY <1>1, <1>3, <2>1 DEF Inv, TypeOK, Updating
  <2>2. CASE d # c
    <3>1. pc'[d] = pc[d] /\ request'[d] = request[d]
      BY <1>1, <2>2 DEF Inv, TypeOK
    <3> QED
      BY <1>2, <3>1 DEF Inv, Control
  <2> QED
    BY <2>1, <2>2
<1> QED
  BY <1>2, <1>5, <1>6, SameTable, InvParts DEF Inv, TypeOK, LocalTypes, TableInv

(* The calls that answer in their first query. *)
LEMMA ReadsInv ==
    ASSUME Inv, NEW c \in Calls,
           MissingMovie(c) \/ FindOne(c) \/ FindAll(c) \/ Remove(c)
    PROVE  Inv'
<1>1. TableInv /\ Row \subseteq Movie
  BY InvParts, RowIsMovie
<1>2. CASE MissingMovie(c)
  BY <1>2, ThrowInv DEF MissingMovie
<1>3. CASE FindOne(c)
  <2>1. {<<request[c].id, RowOf(c)>>} \in SUBSET (MovieIds \X Movie)
    BY <1>1, <1>3 DEF FindOne, FindsItsRow, RowOf, TableInv
  <2>2. TableInv' /\ nextId <= nextId'
    BY <1>1, <1>3, SameTable DEF FindOne, TableInv
  <2> QED
    BY <1>3, <2>1, <2>2, ConfirmInv, FinishIsConfirm DEF FindOne, FindsItsRow, At
<1>4. CASE FindAll(c)
  <2> DEFINE all == {<<i, movies[i]>> : i \in {j \in MovieIds : movies[j] # NoRow}}
  <2>1. all \in SUBSET (MovieIds \X Movie)
    BY <1>1 DEF TableInv
  <2>2. TableInv' /\ nextId <= nextId'
    BY <1>1, <1>4, SameTable DEF FindAll, TableInv
  <2> QED
    BY <1>4, <2>1, <2>2, ConfirmInv, FinishIsConfirm DEF FindAll, At
<1>5. CASE Remove(c)
  <2>1. TableInv'
    BY <1>1, <1>5, TakeRow DEF Remove, FindsItsRow
  <2>2. nextId <= nextId'
    BY <1>1, <1>5 DEF Remove, TableInv
  <2> QED
    BY <1>5, <2>1, <2>2, ConfirmInv DEF Remove, FindsItsRow, At
<1> QED
  BY <1>2, <1>3, <1>4, <1>5

(* create: a check and an INSERT, of which the constraint decides.         *)
LEMMA CreateInv ==
    ASSUME Inv, NEW c \in Calls, CreateCheck(c) \/ InsertRow(c)
    PROVE  Inv'
<1>1. TableInv /\ LocalTypes /\ Row \subseteq Movie
  BY InvParts, RowIsMovie
<1>2. CASE CreateCheck(c)
  <2>1. CASE ExistsBy(request[c].movie, 0)
    BY <1>2, <2>1, ThrowInv DEF CreateCheck, At
  <2>2. CASE ~ExistsBy(request[c].movie, 0)
    <3>1. Goto(c, "insert") /\ UNCHANGED <<movies, nextId, request, entity, diff, reply>>
      BY <1>2, <2>2 DEF CreateCheck
    <3>2. LocalTypes'
      BY <1>1, <3>1 DEF LocalTypes, Goto, Labels, Waiting
    <3> QED
      BY <1>2, <3>1, <3>2, GotoInv DEF CreateCheck, At, Labels, Waiting, Updating
  <2> QED
    BY <2>1, <2>2
<1>3. CASE InsertRow(c)
  <2> DEFINE movie == request[c].movie
  <2>1. movie \in Row /\ pc[c] # "idle"
    BY <1>3, RequestTypes DEF InsertRow, Inv, Control
  <2>2. CASE nextId > IntMax
    BY <1>1, <1>3, <2>1, <2>2, ThrowInv, IntMaxAssumption DEF InsertRow, TableInv
  <2>3. CASE nextId <= IntMax /\ Throw(c, "UniqueViolation") /\ UNCHANGED movies
                 /\ nextId' = nextId + 1
    <3>1. TableInv' /\ nextId <= nextId'
      BY <1>1, <2>3, SequenceMoves DEF TableInv
    <3>2. LocalTypes' /\ Ends(c)
      BY <1>1, <2>3, ThrowTypes, ThrowEnds
    <3>3. Control'
      BY <1>1, <2>1, <3>1, <3>2, InvParts, EndsControl DEF TableInv
    <3> QED
      BY <3>1, <3>2, <3>3 DEF Inv, TypeOK, LocalTypes, TableInv
  <2>4. CASE /\ nextId <= IntMax
             /\ nextId' = nextId + 1
             /\ ~Taken(movie, nextId)
             /\ movies' = [movies EXCEPT ![nextId] = movie]
             /\ Confirm(c, {<<nextId, movie>>})
    <3>1. nextId \in MovieIds /\ nextId' \in 1..(IntMax + 1) /\ nextId <= nextId' /\ nextId < nextId'
      BY <1>1, <2>4, IntMaxAssumption DEF TableInv, MovieIds
    <3>2. ~Taken(movie, nextId)
      BY <2>4
    <3>3. TableInv'
      BY <1>1, <2>1, <2>4, <3>1, <3>2, PutRow
    <3>4. {<<nextId, movie>>} \in SUBSET (MovieIds \X Movie)
      BY <1>1, <2>1, <3>1
    <3> QED
      BY <2>1, <2>4, <3>1, <3>3, <3>4, ConfirmInv
  <2> QED
    BY <1>3, <2>2, <2>3, <2>4 DEF InsertRow, NewId, AfterInsert
<1> QED
  BY <1>2, <1>3

(* update: the reads, which hand an entity and an id on to save().         *)
LEMMA UpdateInv ==
    ASSUME Inv, NEW c \in Calls,
           UpdateRead(c) \/ UpdateCheck(c) \/ UpdateLoad(c)
    PROVE  Inv'
<1>1. TableInv /\ LocalTypes /\ Row \subseteq Movie /\ NoRow \notin Row
  BY InvParts, RowIsMovie
<1>2. CASE UpdateRead(c)
  <2> DEFINE label == IF SameKey(WantedKey(RowOf(c), request[c].changes), RowOf(c))
                      THEN "load" ELSE "check"
  <2>1. /\ pc[c] = "received"
        /\ request[c].op = "update"
        /\ request[c].id \in MovieIds
        /\ RowOf(c) \in Row
        /\ request[c].id < nextId
    BY <1>1, <1>2 DEF UpdateRead, FindsItsRow, At, RowOf, TableInv, IdsBelowSequence
  <2>2. /\ entity' = [entity EXCEPT ![c] = RowOf(c)]
        /\ Goto(c, label)
        /\ UNCHANGED <<movies, nextId, request, diff, reply>>
    BY <1>2 DEF UpdateRead
  <2>3. label \in Labels \ {"idle", "received"} /\ label # "insert"
    BY DEF Labels, Waiting
  <2> HIDE DEF label
  <2>4. LocalTypes'
    BY <1>1, <2>1, <2>2, <2>3 DEF LocalTypes, Goto
  <2>5. entity'[c] = RowOf(c) /\ \A d \in Calls \ {c} : entity'[d] = entity[d]
    BY <1>1, <2>2 DEF LocalTypes
  <2> QED
    BY <2>1, <2>2, <2>3, <2>4, <2>5, GotoInv
<1>3. CASE UpdateCheck(c)
  <2>1. CASE ExistsBy(WantedKey(entity[c], request[c].changes), request[c].id)
    BY <1>3, <2>1, ThrowInv DEF UpdateCheck
  <2>2. CASE ~ExistsBy(WantedKey(entity[c], request[c].changes), request[c].id)
    <3>1. Goto(c, "load") /\ UNCHANGED <<movies, nextId, request, entity, diff, reply>>
      BY <1>3, <2>2 DEF UpdateCheck
    <3>2. LocalTypes'
      BY <1>1, <3>1 DEF LocalTypes, Goto, Labels, Waiting
    <3>3. /\ pc[c] \in Updating
          /\ request[c].op = "update"
          /\ request[c].id \in MovieIds
          /\ request[c].id < nextId
          /\ entity'[c] \in Row
      BY <1>3, <3>1 DEF UpdateCheck, Inv, Control, Updating
    <3>4. "load" \in Labels \ {"idle", "received"}
      BY DEF Labels, Waiting
    <3> QED
      BY <3>1, <3>2, <3>3, <3>4, GotoInv DEF Updating
  <2> QED
    BY <2>1, <2>2
<1>4. CASE UpdateLoad(c)
  <2>1. /\ pc[c] = "load"
        /\ request[c].op = "update"
        /\ request[c].id \in MovieIds
        /\ request[c].id < nextId
        /\ entity[c] \in Row
        /\ UNCHANGED <<movies, nextId>>
    BY <1>4 DEF UpdateLoad, Inv, Control, Updating
  <2>2. CASE Goto(c, "reinsert") /\ UNCHANGED <<request, entity, diff, reply>>
    <3>1. LocalTypes'
      BY <1>1, <2>2 DEF LocalTypes, Goto, Labels, Waiting
    <3>2. "reinsert" \in Labels \ {"idle", "received"}
      BY DEF Labels, Waiting
    <3> QED
      BY <2>1, <2>2, <3>1, <3>2, GotoInv DEF Updating
  <2>3. CASE Finish(c, OK, {<<request[c].id, Merged(c)>>}) /\ RowOf(c) = Merged(c)
    <3>1. Merged(c) \in Movie
      BY <1>1, <2>1, RequestTypes, MergeType DEF Merged, Inv, Control
    <3>2. TableInv' /\ nextId <= nextId'
      BY <1>1, <2>1, SameTable DEF TableInv
    <3> QED
      BY <2>1, <2>3, <3>1, <3>2, ConfirmInv, FinishIsConfirm
  <2>4. CASE /\ diff' = [diff EXCEPT ![c] =
                            {col \in Columns : RowOf(c)[col] # Merged(c)[col]}]
             /\ Goto(c, "write")
             /\ UNCHANGED <<request, entity, reply>>
    <3>1. LocalTypes'
      BY <1>1, <2>4 DEF LocalTypes, Goto, Labels, Waiting
    <3>2. "write" \in Labels \ {"idle", "received"}
      BY DEF Labels, Waiting
    <3> QED
      BY <2>1, <2>4, <3>1, <3>2, GotoInv DEF Updating
  <2> QED
    BY <1>4, <2>2, <2>3, <2>4 DEF UpdateLoad
<1> QED
  BY <1>2, <1>3, <1>4

(* update: what save() writes, a stale UPDATE or an INSERT of a lost row.  *)
LEMMA SaveInv ==
    ASSUME Inv, NEW c \in Calls, UpdateWrite(c) \/ Reinsert(c)
    PROVE  Inv'
<1> DEFINE id == request[c].id
<1>1. TableInv /\ LocalTypes /\ Row \subseteq Movie /\ NoRow \notin Row
  BY InvParts, RowIsMovie
<1>2. /\ pc[c] # "idle"
      /\ id \in MovieIds
      /\ id < nextId
      /\ Merged(c) \in Movie
      /\ UNCHANGED nextId
      /\ nextId \in 1..(IntMax + 1)
      /\ nextId <= nextId'
  <2>1. pc[c] \in Updating /\ UNCHANGED nextId
    BY DEF UpdateWrite, Reinsert, Updating
  <2>2. entity[c] \in Row /\ request[c].op = "update" /\ request[c] \in Requests
    BY <2>1 DEF Inv, Control, Updating
  <2>3. Merged(c) \in Movie
    BY <1>1, <2>2, RequestTypes, MergeType DEF Merged
  <2> QED
    BY <2>1, <2>3, IntMaxAssumption DEF Inv, Control, Updating, TypeOK
<1>3. {<<id, Merged(c)>>} \in SUBSET (MovieIds \X Movie)
  BY <1>2
<1>4. CASE UNCHANGED movies /\ \E e : Throw(c, e)
  BY <1>2, <1>4, ThrowInv
<1>5. CASE UNCHANGED movies /\ Finish(c, OK, {<<id, Merged(c)>>})
  <2>1. TableInv'
    BY <1>1, <1>2, <1>5, SameTable
  <2> QED
    BY <1>2, <1>3, <1>5, <2>1, ConfirmInv, FinishIsConfirm
<1>6. ASSUME NEW row \in Row, ~Taken(row, id),
             movies' = [movies EXCEPT ![id] = row],
             Confirm(c, {<<id, Merged(c)>>})
      PROVE  Inv'
  <2>1. id < nextId' /\ nextId' \in 1..(IntMax + 1)
    BY <1>2
  <2>2. TableInv'
    BY <1>1, <1>2, <1>6, <2>1, PutRow
  <2> QED
    BY <1>2, <1>3, <1>6, <2>2, ConfirmInv
<1>7. CASE UpdateWrite(c)
  BY <1>4, <1>5, <1>6, <1>7 DEF UpdateWrite, Storable
<1>8. CASE Reinsert(c)
  BY <1>4, <1>6, <1>8 DEF Reinsert, Storable
<1> QED
  BY <1>7, <1>8

(* A restart keeps the table and ends the handlers.                        *)
LEMMA CrashInv ==
    ASSUME Inv, Crash
    PROVE  Inv'
<1>1. /\ pc' \in [Calls -> Labels]
      /\ \A c \in Calls : pc'[c] \notin Waiting
      /\ \A c \in Calls : pc'[c] # "idle" => pc[c] # "idle"
  BY DEF Crash, Inv, TypeOK, Labels, Stopped, Waiting
<1>2. LocalTypes'
  BY <1>1 DEF Crash, Inv, TypeOK, LocalTypes
<1>3. TableInv'
  BY InvParts, SameTable DEF Crash, Migrated
<1>4. Control'
  BY <1>1 DEF Crash, Inv, Control, Waiting, Updating, HasId
<1> QED
  BY <1>2, <1>3, <1>4 DEF Inv, TypeOK, LocalTypes, TableInv

(* Inv is inductive.                                                       *)
LEMMA NextInv == Inv /\ [Next]_vars => Inv'
<1> SUFFICES ASSUME Inv, [Next]_vars PROVE Inv'
  OBVIOUS
<1>1. ASSUME NEW c \in Calls, Step(c) PROVE Inv'
  <2>1. CASE QueryFails(c)
    BY <2>1, ThrowInv DEF QueryFails, Waiting
  <2> QED
    BY <1>1, <2>1, ReceiveInv, ReadsInv, CreateInv, UpdateInv, SaveInv DEF Step
<1>2. CASE UNCHANGED vars
  BY <1>2 DEF vars, Inv, TypeOK, Control, UniqueTitleYear, IdsBelowSequence, HasId
<1> QED
  BY <1>1, <1>2, CrashInv DEF Next, Quiescent

(* The inductive invariant holds in every reachable state.                 *)
THEOREM Invariance == Spec => []Inv
  BY InitInv, NextInv, PTL DEF Spec

(* Every variable of the service and its table keeps to its type, in       *)
(* particular no row ever has a NULL in a column that forbids it.          *)
THEOREM TypeCorrect == Spec => []TypeOK
  BY Invariance, PTL DEF Inv

(* Title and release year identify a movie in every reachable state,       *)
(* however creates and updates interleave, fail or crash.                  *)
THEOREM TitleYearUnique == Spec => []UniqueTitleYear
  BY Invariance, PTL DEF Inv

(* The id sequence stays ahead of the table, also when save() puts back a  *)
(* movie deleted under an update.                                          *)
THEOREM SequenceAhead == Spec => []IdsBelowSequence
  BY Invariance, PTL DEF Inv

-----------------------------------------------------------------------------
(* Ids in answers. *)

(* No exception is answered with a success.                                *)
LEMMA ThrowNotOK ==
    ASSUME Inv, NEW c \in Calls, NEW exception, Throw(c, exception)
    PROVE  reply'[c].status # OK
  BY DEF Throw, Finish, Inv, TypeOK, StatusOf, HttpStatus, OK, BadRequest,
         Unauthorized, NotFound, Conflict, ServerError

(* The step of a call leaves request and answer of the others alone.       *)
LEMMA OthersKeep ==
    ASSUME Inv, NEW c \in Calls, Step(c), NEW d \in Calls \ {c}
    PROVE  pc'[d] = pc[d] /\ request'[d] = request[d] /\ reply'[d] = reply[d]
  BY DEF Inv, TypeOK, Step, Receive, MissingMovie, FindOne, FindAll, Remove,
         CreateCheck, InsertRow, UpdateRead, UpdateCheck, UpdateLoad,
         UpdateWrite, Reinsert, QueryFails, Finish, Throw, Confirm, Goto

(* A create is answered OK by its INSERT, with the id the sequence gave it.*)
LEMMA OnlyInsertAnswers ==
    ASSUME Inv, NEW c \in Calls, Step(c), Answered(c, "create", OK)'
    PROVE  /\ nextId' = nextId + 1
           /\ reply'[c].body = {<<nextId, request[c].movie>>}
<1>1. /\ request'[c].op = "create"
      /\ pc'[c] = "done"
      /\ reply'[c].status = OK
  BY DEF Answered
<1>2. \A e : ~Throw(c, e)
  BY <1>1, ThrowNotOK
<1>3. CASE Receive(c)
  BY <1>1, <1>3 DEF Receive, Inv, TypeOK, StatusOf, HttpStatus, OK, BadRequest
<1>4. CASE MissingMovie(c) \/ QueryFails(c)
  BY <1>2, <1>4 DEF MissingMovie, QueryFails
<1>5. CASE FindOne(c) \/ FindAll(c) \/ Remove(c) \/ UpdateRead(c)
  BY <1>1, <1>5 DEF FindOne, FindAll, Remove, UpdateRead, FindsItsRow, At,
                    Finish, Confirm, Throw
<1>6. CASE CreateCheck(c)
  BY <1>1, <1>2, <1>6 DEF CreateCheck, Goto, Inv, TypeOK
<1>7. CASE UpdateCheck(c) \/ UpdateLoad(c) \/ UpdateWrite(c) \/ Reinsert(c)
  <2>1. request[c].op = "update"
    BY <1>7 DEF UpdateCheck, UpdateLoad, UpdateWrite, Reinsert, Inv, Control, Updating
  <2>2. request' = request
    BY <1>7 DEF UpdateCheck, UpdateLoad, UpdateWrite, Reinsert, Finish, Throw, Confirm
  <2> QED
    BY <1>1, <2>1, <2>2
<1>8. CASE InsertRow(c)
  <2>1. /\ nextId' = nextId + 1
        /\ Finish(c, OK, {<<nextId, request[c].movie>>})
    BY <1>2, <1>8 DEF InsertRow, Confirm, NewId, AfterInsert
  <2> QED
    BY <2>1 DEF Finish, Inv, TypeOK
<1> QED
  BY <1>3, <1>4, <1>5, <1>6, <1>7, <1>8 DEF Step

(* The sequence never goes back.                                           *)
LEMMA SequenceGrows ==
    ASSUME Inv, NEW c \in Calls, Step(c)
    PROVE  nextId \in Int /\ nextId' \in Int /\ nextId <= nextId'
<1>1. nextId \in Int
  BY DEF Inv, TypeOK
<1> QED
  BY <1>1 DEF Step, Receive, MissingMovie, FindOne, FindAll, Remove,
       CreateCheck, InsertRow, UpdateRead, UpdateCheck, UpdateLoad,
       UpdateWrite, Reinsert, QueryFails, AfterInsert

Given == Handed /\ CreatedIdsDistinct

(* An INSERT hands out an id above all that were handed out before.        *)
LEMMA GivenStep ==
    ASSUME Inv, Given, NEW c \in Calls, Step(c)
    PROVE  Given'
<1>1. nextId \in Int /\ nextId' \in Int /\ nextId <= nextId'
  BY SequenceGrows
<1>2. \A d \in Calls \ {c} :
          /\ Answered(d, "create", OK)' <=> Answered(d, "create", OK)
          /\ IdsIn(d)' = IdsIn(d)
  BY OthersKeep DEF Answered, IdsIn
<1>3. Answered(c, "create", OK)' => IdsIn(c)' = {nextId} /\ nextId' = nextId + 1
  <2> SUFFICES ASSUME Answered(c, "create", OK)'
               PROVE  IdsIn(c)' = {nextId} /\ nextId' = nextId + 1
    OBVIOUS
  <2>1. nextId' = nextId + 1 /\ reply'[c].body = {<<nextId, request[c].movie>>}
    BY OnlyInsertAnswers
  <2>2. IdsIn(c)' = {pair[1] : pair \in reply'[c].body}
    BY DEF IdsIn
  <2>3. {pair[1] : pair \in {<<nextId, request[c].movie>>}} = {nextId}
    OBVIOUS
  <2> QED
    BY <2>1, <2>2, <2>3
<1>4. \A d \in Calls \ {c} : Answered(d, "create", OK) => \A i \in IdsIn(d) : i \in Int /\ i < nextId
  <2>1. \A d \in Calls : reply[d] \in Replies \union {NoReply}
    BY DEF Inv, TypeOK
  <2>2. \A d \in Calls : \A i \in IdsIn(d) : i \in Int
    BY <2>1 DEF IdsIn, Replies, NoReply, MovieIds
  <2> QED
    BY <2>2 DEF Given, Handed
<1>5. Handed'
  <2> SUFFICES ASSUME NEW d \in Calls, Answered(d, "create", OK)', NEW i \in IdsIn(d)'
               PROVE  i < nextId'
    BY DEF Handed
  <2>1. CASE d = c
    BY <1>1, <1>3, <2>1
  <2>2. CASE d # c
    BY <1>1, <1>2, <1>4, <2>2
  <2> QED
    BY <2>1, <2>2
<1>6. CreatedIdsDistinct'
  <2> SUFFICES ASSUME NEW d \in Calls, NEW e \in Calls,
                      Answered(d, "create", OK)', Answered(e, "create", OK)',
                      (IdsIn(d) \intersect IdsIn(e))' # {}
               PROVE  d = e
    BY DEF CreatedIdsDistinct
  <2>1. CASE d # c /\ e # c
    BY <1>2, <2>1 DEF Given, CreatedIdsDistinct
  <2>2. CASE d = c /\ e # c
    BY <1>1, <1>2, <1>3, <1>4, <2>2
  <2>3. CASE d # c /\ e = c
    BY <1>1, <1>2, <1>3, <1>4, <2>3
  <2> QED
    BY <2>1, <2>2, <2>3
<1> QED
  BY <1>5, <1>6 DEF Given

(* No two acknowledged creates hand out one id, with any deletes, updates  *)
(* that put movies back, and crashes in between.                           *)
THEOREM IdsNeverReused == Spec => []CreatedIdsDistinct
<1>1. Init => Given
  BY DEF Init, Given, Handed, CreatedIdsDistinct, Answered
<1>2. Inv /\ Given /\ [Next]_vars => Given'
  <2> SUFFICES ASSUME Inv, Given, [Next]_vars PROVE Given'
    OBVIOUS
  <2>1. CASE Crash
    <3>1. \A c \in Calls :
              /\ Answered(c, "create", OK)' => Answered(c, "create", OK)
              /\ IdsIn(c)' = IdsIn(c)
      BY <2>1 DEF Crash, Answered, IdsIn, Waiting
    <3> QED
      BY <2>1, <3>1 DEF Crash, Given, Handed, CreatedIdsDistinct
  <2>2. CASE UNCHANGED vars
    BY <2>2 DEF vars, Given, Handed, CreatedIdsDistinct, Answered, IdsIn
  <2> QED
    BY <2>1, <2>2, GivenStep DEF Next, Quiescent
<1> QED
  BY <1>1, <1>2, Invariance, PTL DEF Spec, Given

-----------------------------------------------------------------------------
(* Requests, answers and rows. *)

Unasked == \A c \in Calls : pc[c] = "idle" => request[c] = NoRequest

(* Where the value v of column col of movie i may come from.               *)
AskedFor(i, col, v) ==
    \/ InitialMovies[i] # NoRow /\ v = InitialMovies[i][col]
    \/ \E c \in Calls : request[c].op = "create" /\ v = request[c].movie[col]
    \/ \E c \in Calls :
          /\ request[c].op = "update" /\ request[c].id = i
          /\ col \in DOMAIN request[c].changes /\ v = request[c].changes[col]

AskedMovie(i, movie) == \A col \in Columns : AskedFor(i, col, movie[col])

(* The rows are as asked, and so is the entity an update has read, however *)
(* old it may be.                                                          *)
Provenance ==
    /\ \A i \in MovieIds : movies[i] # NoRow => AskedMovie(i, movies[i])
    /\ \A c \in Calls : pc[c] \in Updating => AskedMovie(request[c].id, entity[c])

NeverUpdated(i) == \A u \in Calls : request[u].op = "update" => request[u].id # i

(* A movie that no update names is gone once its delete is acknowledged.   *)
RemovedStays ==
    \A c \in Calls : (Answered(c, "remove", OK) /\ NeverUpdated(request[c].id)) =>
        /\ request[c].id \in MovieIds
        /\ request[c].id < nextId
        /\ movies[request[c].id] = NoRow

AnswersInv ==
    /\ Unasked
    /\ Provenance
    /\ AcknowledgedCreateStays
    /\ RemovedStays
    /\ RemovedOnce


-----------------------------------------------------------------------------
(* What is over and what was asked. *)

Past ==
    \A d \in Calls :
        /\ pc[d] = "done" => pc'[d] = "done" /\ reply'[d] = reply[d]
        /\ pc[d] # "idle" => pc'[d] # "idle" /\ request'[d] = request[d]

(* A handler's step is that of a call which has not ended, and only the    *)
(* arrival of the message sets a request.                                  *)
LEMMA StepOfLive ==
    ASSUME Inv, NEW c \in Calls, Step(c)
    PROVE  /\ pc[c] \in {"idle"} \union Waiting
           /\ pc[c] # "idle" => request' = request
           /\ pc'[c] # "idle"
<1>1. pc[c] \in {"idle"} \union Waiting
  BY DEF Step, Receive, MissingMovie, FindOne, FindAll, Remove, CreateCheck, InsertRow,
     UpdateRead, UpdateCheck, UpdateLoad, UpdateWrite, Reinsert, QueryFails,
     FindsItsRow, At, Waiting
<1>2. pc[c] # "idle" => request' = request
  BY DEF Step, Receive, MissingMovie, FindOne, FindAll, Remove, CreateCheck, InsertRow,
     UpdateRead, UpdateCheck, UpdateLoad, UpdateWrite, Reinsert, QueryFails,
     Throw, Confirm, Finish, Goto
<1>3. pc'[c] # "idle"
  BY DEF Inv, TypeOK, Step, Receive, MissingMovie, FindOne, FindAll, Remove, CreateCheck,
     InsertRow, UpdateRead, UpdateCheck, UpdateLoad, UpdateWrite, Reinsert, QueryFails,
     Throw, Confirm, Finish, Goto
<1> QED
  BY <1>1, <1>2, <1>3

(* No step of the service, a crash included, changes an answer it has      *)
(* given or a request it has taken.                                        *)
LEMMA PastStays == ASSUME Inv, [Next]_vars PROVE Past
<1>1. ASSUME NEW c \in Calls, Step(c), NEW d \in Calls
      PROVE  /\ pc[d] = "done" => pc'[d] = "done" /\ reply'[d] = reply[d]
             /\ pc[d] # "idle" => pc'[d] # "idle" /\ request'[d] = request[d]
  <2>1. CASE d = c
    BY <1>1, <2>1, StepOfLive DEF Waiting
  <2>2. CASE d # c
    BY <1>1, <2>2, OthersKeep
  <2> QED
    BY <2>1, <2>2
<1>2. CASE Crash
  BY <1>2 DEF Crash, Past, Waiting
<1>3. CASE UNCHANGED vars
  BY <1>3 DEF vars, Past
<1> QED
  BY <1>1, <1>2, <1>3 DEF Past, Next, Quiescent

(* An answer stands.                                                       *)
LEMMA AnswersStay ==
    ASSUME Past, NEW d \in Calls, NEW op, NEW status, Answered(d, op, status)
    PROVE  /\ Answered(d, op, status)' /\ pc[d] = "done"
           /\ request'[d] = request[d] /\ IdsIn(d)' = IdsIn(d)
  BY DEF Past, Answered, IdsIn

(* So what has been asked for has been asked for ever after.               *)
LEMMA AskedStays ==
    ASSUME Past, Unasked, NEW i, NEW col, NEW v, AskedFor(i, col, v)
    PROVE  AskedFor(i, col, v)'
<1>1. \A c \in Calls : request[c].op \in {"create", "update"} => request'[c] = request[c]
  BY DEF Past, Unasked, NoRequest
<1> QED
  BY <1>1 DEF AskedFor

(* The calls that have arrived are those with a request.                   *)
LEMMA UnaskedStays == ASSUME Inv, Unasked, [Next]_vars PROVE Unasked'
<1>1. ASSUME NEW c \in Calls, Step(c), NEW d \in Calls, pc'[d] = "idle"
      PROVE  request'[d] = NoRequest
  <2>1. d # c
    BY <1>1, StepOfLive
  <2> QED
    BY <1>1, <2>1, OthersKeep DEF Unasked
<1>2. CASE Crash
  BY <1>2 DEF Crash, Unasked
<1>3. CASE UNCHANGED vars
  BY <1>3 DEF vars, Unasked
<1> QED
  BY <1>1, <1>2, <1>3 DEF Unasked, Next, Quiescent

-----------------------------------------------------------------------------
(* The three changes of the table. *)

Deletes(c) ==
    /\ FindsItsRow(c, "remove")
    /\ movies' = [movies EXCEPT ![request[c].id] = NoRow]
    /\ Confirm(c, {})

Inserts(c) ==
    /\ request[c].op = "create" /\ request[c].movie \in Row
    /\ nextId \in MovieIds /\ nextId' = nextId + 1
    /\ movies' = [movies EXCEPT ![nextId] = request[c].movie]

Saves(c) ==
    /\ pc[c] \in {"write", "reinsert"}
    /\ \E row \in Row :
          /\ row = Merged(c) \/ (RowOf(c) # NoRow /\ row = Written(c))
          /\ movies' = [movies EXCEPT ![request[c].id] = row]

(* Every step of a handler makes one of them or leaves the table alone,    *)
(* and it is a DELETE that makes a row vanish.                             *)
LEMMA TableChanges ==
    ASSUME Inv, NEW c \in Calls, Step(c)
    PROVE  movies' = movies \/ Deletes(c) \/ Inserts(c) \/ Saves(c)
<1>1. CASE \/ Receive(c) \/ MissingMovie(c) \/ FindOne(c) \/ FindAll(c) \/ CreateCheck(c)
           \/ UpdateRead(c) \/ UpdateCheck(c) \/ UpdateLoad(c) \/ QueryFails(c)
  BY <1>1 DEF Receive, MissingMovie, FindOne, FindAll, CreateCheck, UpdateRead,
     UpdateCheck, UpdateLoad, QueryFails
<1>2. CASE Remove(c)
  BY <1>2 DEF Remove, Deletes
<1>3. CASE InsertRow(c)
  <2>1. request[c].op = "create" /\ request[c].movie \in Row
    BY <1>3, RequestTypes DEF InsertRow, Inv, Control
  <2>2. nextId <= IntMax => nextId \in MovieIds
    BY IntMaxAssumption DEF Inv, TypeOK, MovieIds
  <2> QED
    BY <1>3, <2>1, <2>2 DEF InsertRow, Inserts, NewId, AfterInsert
<1>4. CASE UpdateWrite(c)
  BY <1>4 DEF UpdateWrite, Saves, Storable
<1>5. CASE Reinsert(c)
  <2>1. CASE Merged(c) \in Row /\ movies' = [movies EXCEPT ![request[c].id] = Merged(c)]
    BY <1>5, <2>1 DEF Reinsert, Saves
  <2>2. CASE movies' = movies
    BY <2>2
  <2> QED
    BY <1>5, <2>1, <2>2 DEF Reinsert, Storable
<1> QED
  BY <1>1, <1>2, <1>3, <1>4, <1>5 DEF Step


-----------------------------------------------------------------------------
(* Where the values come from. *)

(* movies.merge takes each column from the request or from the entity, and *)
(* the UPDATE each from the merged movie or from the row: of two movies as *)
(* asked for it makes another.                                             *)
LEMMA SavedAsAsked ==
    ASSUME Provenance, NEW c \in Calls, pc[c] \in Updating,
           request[c].op = "update", request[c].id \in MovieIds
    PROVE  /\ AskedMovie(request[c].id, Merged(c))
           /\ RowOf(c) # NoRow => AskedMovie(request[c].id, Written(c))
<1> DEFINE i == request[c].id
<1>1. AskedMovie(i, entity[c])
  BY DEF Provenance
<1>2. AskedMovie(i, Merged(c))
  <2> SUFFICES ASSUME NEW col \in Columns
               PROVE  AskedFor(i, col, Merged(c)[col])
    BY DEF AskedMovie
  <2>1. CASE col \in DOMAIN request[c].changes
    <3>1. Merged(c)[col] = request[c].changes[col]
      BY <2>1 DEF Merged, Merge
    <3> QED
      BY <2>1, <3>1 DEF AskedFor
  <2>2. CASE col \notin DOMAIN request[c].changes
    <3>1. Merged(c)[col] = entity[c][col]
      BY <2>2 DEF Merged, Merge
    <3> QED
      BY <1>1, <3>1 DEF AskedMovie
  <2> QED
    BY <2>1, <2>2
<1>3. ASSUME RowOf(c) # NoRow
      PROVE  AskedMovie(i, Written(c))
  <2>1. AskedMovie(i, RowOf(c))
    BY <1>3 DEF Provenance, RowOf
  <2>2. \A col \in Columns : Written(c)[col] \in {Merged(c)[col], RowOf(c)[col]}
    BY DEF Written
  <2> QED
    BY <1>2, <2>1, <2>2 DEF AskedMovie
<1> QED
  BY <1>2, <1>3

(* The row a step leaves under an id was there before, or is as asked.     *)
LEMMA RowsAsAsked ==
    ASSUME Inv, Provenance, NEW c \in Calls, Step(c),
           NEW i \in MovieIds, movies'[i] # NoRow
    PROVE  movies'[i] = movies[i] \/ AskedMovie(i, movies'[i])
<1>1. movies \in [MovieIds -> Row \union {NoRow}]
  BY DEF Inv, TypeOK
<1>2. CASE Deletes(c)
  BY <1>1, <1>2 DEF Deletes
<1>3. CASE Inserts(c)
  <2>1. \A col \in Columns : AskedFor(i, col, request[c].movie[col])
    BY <1>3 DEF Inserts, AskedFor
  <2> QED
    BY <1>1, <1>3, <2>1 DEF Inserts, AskedMovie
<1>4. CASE Saves(c)
  <2>1. pc[c] \in Updating /\ request[c].op = "update" /\ request[c].id \in MovieIds
    BY <1>4 DEF Saves, Inv, Control, Updating
  <2>2. PICK row \in Row : /\ row = Merged(c) \/ (RowOf(c) # NoRow /\ row = Written(c))
                           /\ movies' = [movies EXCEPT ![request[c].id] = row]
    BY <1>4 DEF Saves
  <2>3. AskedMovie(request[c].id, row)
    BY <2>1, <2>2, SavedAsAsked
  <2> QED
    BY <1>1, <2>2, <2>3
<1> QED
  BY <1>2, <1>3, <1>4, TableChanges

(* An entity was read from the row of its id, or has been kept.            *)
LEMMA EntitiesRead ==
    ASSUME Inv, NEW c \in Calls, Step(c), pc'[c] \in Updating
    PROVE  /\ request'[c] = request[c] /\ request[c].id \in MovieIds
           /\ \/ pc[c] \in Updating /\ entity'[c] = entity[c]
              \/ movies[request[c].id] # NoRow /\ entity'[c] = movies[request[c].id]
<1>1. pc \in [Calls -> Labels] /\ entity \in [Calls -> Row \union {NoRow}]
  BY DEF Inv, TypeOK
<1>2. CASE UpdateRead(c)
  BY <1>1, <1>2 DEF UpdateRead, FindsItsRow, RowOf
<1>3. \A label : Goto(c, label) => pc'[c] = label
  BY <1>1 DEF Goto
<1>4. \A status, body : ~Finish(c, status, body)
  BY <1>1 DEF Finish, Updating
<1>5. CASE UpdateCheck(c) \/ UpdateLoad(c)
  <2>1. pc[c] \in Updating
    BY <1>5 DEF UpdateCheck, UpdateLoad, Updating
  <2>2. UNCHANGED <<request, entity>>
    BY <1>4, <1>5 DEF UpdateCheck, UpdateLoad, Throw
  <2> QED
    BY <2>1, <2>2 DEF Inv, Control
<1>6. ~UpdateWrite(c) /\ ~Reinsert(c) /\ ~InsertRow(c) /\ ~Remove(c)
  BY <1>4 DEF UpdateWrite, Reinsert, InsertRow, Remove, Confirm, Throw
<1>7. ~FindOne(c) /\ ~FindAll(c) /\ ~MissingMovie(c) /\ ~QueryFails(c)
  BY <1>4 DEF FindOne, FindAll, MissingMovie, QueryFails, Throw
<1>8. ~CreateCheck(c)
  BY <1>3, <1>4 DEF CreateCheck, Throw, Updating
<1>9. ~Receive(c)
  BY <1>1 DEF Receive, Updating
<1> QED
  BY <1>2, <1>5, <1>6, <1>7, <1>8, <1>9 DEF Step

(* An asked-for movie stays one.                                           *)
LEMMA AskedMovieStays ==
    ASSUME Past, Unasked, NEW i, NEW movie, AskedMovie(i, movie)
    PROVE  AskedMovie(i, movie)'
  BY AskedStays DEF AskedMovie


(* The step of a call leaves the entities of the others alone.             *)
LEMMA EntityOfOthers ==
    ASSUME Inv, NEW c \in Calls, Step(c), NEW d \in Calls \ {c}
    PROVE  entity'[d] = entity[d]
  BY DEF Inv, TypeOK, Step, Receive, MissingMovie, FindOne, FindAll, Remove,
         CreateCheck, InsertRow, UpdateRead, UpdateCheck, UpdateLoad,
         UpdateWrite, Reinsert, QueryFails, Finish, Throw, Confirm, Goto

(* Rows and entities stay as asked for.                                    *)
LEMMA ProvenanceStep ==
    ASSUME Inv, Past, Unasked, Provenance, NEW c \in Calls, Step(c)
    PROVE  Provenance'
<1>1. ASSUME NEW i \in MovieIds, movies'[i] # NoRow
      PROVE  AskedMovie(i, movies[i])'
  <2>1. AskedMovie(i, movies'[i])
    BY <1>1, RowsAsAsked DEF Provenance
  <2> QED
    BY <2>1, AskedStays DEF AskedMovie
<1>2. ASSUME NEW d \in Calls, pc'[d] \in Updating
      PROVE  AskedMovie(request[d].id, entity[d])'
  <2>1. request'[d] = request[d] /\ AskedMovie(request[d].id, entity'[d])
    <3>1. CASE d = c
      BY <1>2, <3>1, EntitiesRead DEF Provenance
    <3>2. CASE d # c
      BY <1>2, <3>2, OthersKeep, EntityOfOthers DEF Provenance
    <3> QED
      BY <3>1, <3>2
  <2> QED
    BY <2>1, AskedStays DEF AskedMovie
<1> QED
  BY <1>1, <1>2 DEF Provenance

-----------------------------------------------------------------------------
(* What an answer says of the table. *)

(* A create, and a delete, is answered OK by its one statement.            *)
LEMMA StatementAnswers ==
    ASSUME Inv, NEW c \in Calls, Step(c), pc'[c] = "done", reply'[c].status = OK
    PROVE  /\ request' = request
           /\ request[c].op = "create" => Inserts(c)
           /\ request[c].op = "remove" => Deletes(c)
<1>1. \A e : ~Throw(c, e)
  BY ThrowNotOK
<1>2. pc \in [Calls -> Labels]
  BY DEF Inv, TypeOK
<1>3. ~Receive(c)
  BY DEF Receive, Inv, TypeOK, StatusOf, HttpStatus, OK, BadRequest
<1>4. pc[c] # "idle" /\ request' = request
  BY <1>3, StepOfLive, <1>2 DEF Step, MissingMovie, FindOne, FindAll, Remove, CreateCheck,
     InsertRow, UpdateRead, UpdateCheck, UpdateLoad, UpdateWrite, Reinsert, QueryFails,
     FindsItsRow, At, Waiting
<1>5. ~MissingMovie(c) /\ ~QueryFails(c)
  BY <1>1 DEF MissingMovie, QueryFails
<1>6. ~CreateCheck(c) /\ ~UpdateRead(c)
  BY <1>1, <1>2 DEF CreateCheck, UpdateRead, Goto
<1>7. CASE FindOne(c) \/ FindAll(c)
  BY <1>4, <1>7 DEF FindOne, FindAll, FindsItsRow, At
<1>8. CASE Remove(c)
  BY <1>4, <1>8 DEF Remove, Deletes, FindsItsRow, At
<1>9. CASE InsertRow(c)
  <2>1. request[c].op = "create" /\ request[c].movie \in Row
    BY <1>9, RequestTypes DEF InsertRow, Inv, Control
  <2>2. nextId <= IntMax => nextId \in MovieIds
    BY IntMaxAssumption DEF Inv, TypeOK, MovieIds
  <2> QED
    BY <1>1, <1>4, <1>9, <2>1, <2>2 DEF InsertRow, Inserts, NewId, AfterInsert
<1>10. CASE UpdateCheck(c) \/ UpdateLoad(c) \/ UpdateWrite(c) \/ Reinsert(c)
  BY <1>4, <1>10 DEF UpdateCheck, UpdateLoad, UpdateWrite, Reinsert, Inv, Control, Updating
<1> QED
  BY <1>3, <1>5, <1>6, <1>7, <1>8, <1>9, <1>10 DEF Step

(* An answer that was not there before is that of the call which moved.    *)
LEMMA NewAnswer ==
    ASSUME Inv, Past, NEW c \in Calls, Step(c), NEW d \in Calls, NEW op,
           Answered(d, op, OK)', ~Answered(d, op, OK)
    PROVE  d = c /\ request[c].op = op /\ request' = request
<1>1. d = c
  BY OthersKeep DEF Answered
<1> QED
  BY <1>1, StatementAnswers DEF Answered

(* The rows of acknowledged creates outlive every step but their delete.   *)
LEMMA CreatesStay ==
    ASSUME Inv, Past, AcknowledgedCreateStays, NEW c \in Calls, Step(c)
    PROVE  AcknowledgedCreateStays'
<1> SUFFICES ASSUME NEW d \in Calls, Answered(d, "create", OK)',
                    NEW i \in IdsIn(d)', movies'[i] = NoRow
             PROVE  \E e \in Calls :
                        /\ \/ Answered(e, "remove", OK)'
                           \/ Answered(e, "remove", ServerError)'
                        /\ request'[e].id = i
  BY DEF AcknowledgedCreateStays
<1>1. movies \in [MovieIds -> Row \union {NoRow}] /\ NoRow \notin Row
  BY RowIsMovie DEF Inv, TypeOK
<1>2. Answered(d, "create", OK)
  <2> SUFFICES ASSUME ~Answered(d, "create", OK)
               PROVE  FALSE
    OBVIOUS
  <2>1. d = c /\ Inserts(c)
    BY NewAnswer, StatementAnswers DEF Answered
  <2>2. reply'[c].body = {<<nextId, request[c].movie>>}
    BY <2>1, OnlyInsertAnswers
  <2>3. i = nextId
    BY <2>1, <2>2 DEF IdsIn
  <2> QED
    BY <1>1, <2>1, <2>3 DEF Inserts
<1>3. i \in IdsIn(d) /\ i \in MovieIds
  <2>1. i \in IdsIn(d) /\ reply[d] \in Replies \union {NoReply}
    BY <1>2, AnswersStay DEF Inv, TypeOK
  <2> QED
    BY <2>1 DEF IdsIn, Replies, NoReply
<1>4. CASE movies[i] = NoRow
  <2>1. PICK e \in Calls : /\ Answered(e, "remove", OK) \/ Answered(e, "remove", ServerError)
                           /\ request[e].id = i
    BY <1>2, <1>3, <1>4 DEF AcknowledgedCreateStays
  <2> QED
    BY <2>1, AnswersStay
<1>5. CASE movies[i] # NoRow
  <2>1. Deletes(c) /\ request[c].id = i
    BY <1>1, <1>3, <1>5, TableChanges DEF Deletes, Inserts, Saves
  <2>2. Answered(c, "remove", OK)' \/ Answered(c, "remove", ServerError)'
    BY <2>1 DEF Deletes, FindsItsRow, At, Confirm, Throw, Finish, Answered, Inv, TypeOK,
       StatusOf, HttpStatus, BadRequest, Unauthorized, NotFound, Conflict, ServerError
  <2>3. request'[c].id = i
    BY <2>1 DEF Deletes, Confirm, Throw, Finish
  <2> QED
    BY <2>2, <2>3
<1> QED
  BY <1>4, <1>5

(* Requests that are there already are what a call may be judged by.       *)
LEMMA NeverUpdatedBefore ==
    ASSUME Past, Unasked, NEW i, NeverUpdated(i)'
    PROVE  NeverUpdated(i)
<1>1. \A u \in Calls : request[u].op = "update" => request'[u] = request[u]
  BY DEF Past, Unasked, NoRequest
<1> QED
  BY <1>1 DEF NeverUpdated

(* A deleted movie that no update names stays deleted.                     *)
LEMMA RemovedStaysStep ==
    ASSUME Inv, Past, Unasked, RemovedStays, NEW c \in Calls, Step(c)
    PROVE  RemovedStays'
<1> SUFFICES ASSUME NEW d \in Calls, Answered(d, "remove", OK)',
                    NeverUpdated(request[d].id)'
             PROVE  /\ request'[d].id \in MovieIds
                    /\ request'[d].id < nextId'
                    /\ movies'[request'[d].id] = NoRow
  BY DEF RemovedStays
<1>1. movies \in [MovieIds -> Row \union {NoRow}] /\ MovieIds \subseteq Int
  BY DEF Inv, TypeOK, MovieIds
<1>2. nextId \in Int /\ nextId' \in Int /\ nextId <= nextId'
  BY SequenceGrows
<1>3. CASE ~Answered(d, "remove", OK)
  <2>1. d = c /\ Deletes(c) /\ request' = request
    BY <1>3, NewAnswer, StatementAnswers DEF Answered
  <2>2. /\ request[c].id \in MovieIds /\ movies[request[c].id] # NoRow
        /\ movies'[request[c].id] = NoRow
    BY <1>1, <2>1 DEF Deletes, FindsItsRow, RowOf
  <2>3. request[c].id < nextId
    BY <2>2 DEF Inv, IdsBelowSequence
  <2> QED
    BY <1>1, <1>2, <2>1, <2>2, <2>3
<1>4. CASE Answered(d, "remove", OK)
  <2> DEFINE i == request[d].id
  <2>1. request'[d] = request[d]
    BY <1>4, AnswersStay
  <2>2. NeverUpdated(i)
    BY <2>1, NeverUpdatedBefore DEF NeverUpdated
  <2>3. i \in MovieIds /\ i < nextId /\ movies[i] = NoRow
    BY <1>4, <2>2 DEF RemovedStays
  <2>4. ~(Saves(c) /\ request[c].id = i)
    BY <2>2 DEF Saves, NeverUpdated, Inv, Control, Updating
  <2>5. movies'[i] = NoRow
    <3> HIDE DEF i
    <3>1. CASE Deletes(c)
      BY <1>1, <2>3, <3>1 DEF Deletes
    <3>2. CASE Inserts(c)
      BY <1>1, <1>2, <2>3, <3>2 DEF Inserts
    <3>3. CASE Saves(c)
      BY <1>1, <2>3, <2>4, <3>3 DEF Saves
    <3> QED
      BY <2>3, <3>1, <3>2, <3>3, TableChanges
  <2>6. i < nextId'
    <3> HIDE DEF i
    <3> QED
      BY <1>1, <1>2, <2>3
  <2> QED
    BY <2>1, <2>3, <2>5, <2>6
<1> QED
  BY <1>3, <1>4

(* A delete that finds its row is the first of its movie, if no update may *)
(* have put the movie back.                                                *)
LEMMA RemovedOnceStep ==
    ASSUME Inv, Past, Unasked, RemovedStays, RemovedOnce, NEW c \in Calls, Step(c)
    PROVE  RemovedOnce'
<1>1. ASSUME NEW d \in Calls, NEW e \in Calls,
             Answered(d, "remove", OK)', ~Answered(d, "remove", OK),
             Answered(e, "remove", OK)', request'[d].id = request'[e].id,
             NeverUpdated(request[d].id)'
      PROVE  d = e
  <2>1. d = c /\ Deletes(c) /\ request' = request
    BY <1>1, NewAnswer, StatementAnswers DEF Answered
  <2>2. movies[request[c].id] # NoRow
    BY <2>1 DEF Deletes, FindsItsRow, RowOf
  <2>3. NeverUpdated(request[e].id)
    BY <1>1, <2>1 DEF NeverUpdated
  <2>4. ~Answered(e, "remove", OK)
    BY <1>1, <2>1, <2>2, <2>3 DEF RemovedStays
  <2> QED
    BY <1>1, <2>1, <2>4, NewAnswer
<1> SUFFICES ASSUME NEW d \in Calls, NEW e \in Calls,
                    Answered(d, "remove", OK)', Answered(e, "remove", OK)',
                    request'[d].id = request'[e].id,
                    NeverUpdated(request[d].id)'
             PROVE  d = e
  BY DEF RemovedOnce, NeverUpdated
<1>2. CASE Answered(d, "remove", OK) /\ Answered(e, "remove", OK)
  <2>1. request'[d] = request[d] /\ request'[e] = request[e]
    BY <1>2, AnswersStay
  <2>2. NeverUpdated(request[d].id)
    BY <2>1, NeverUpdatedBefore DEF NeverUpdated
  <2> QED
    BY <1>2, <2>1, <2>2 DEF RemovedOnce, NeverUpdated
<1>3. CASE ~Answered(d, "remove", OK)
  BY <1>1, <1>3
<1>4. CASE ~Answered(e, "remove", OK)
  <2>1. NeverUpdated(request[e].id)'
    BY DEF NeverUpdated
  <2> QED
    BY <1>1, <1>4, <2>1
<1> QED
  BY <1>2, <1>3, <1>4

-----------------------------------------------------------------------------
(* The invariant. *)

(* At the start nothing has been asked or answered.                        *)
LEMMA AnswersInit == ASSUME Init PROVE AnswersInv
<1>1. \A c \in Calls : pc[c] = "idle" /\ request[c] = NoRequest
  BY DEF Init
<1>2. Unasked
  BY <1>1 DEF Unasked
<1>3. Provenance
  BY <1>1 DEF Provenance, AskedMovie, AskedFor, Init, Updating
<1>4. AcknowledgedCreateStays /\ RemovedStays /\ RemovedOnce
  BY <1>1 DEF AcknowledgedCreateStays, RemovedStays, RemovedOnce, Answered
<1> QED
  BY <1>2, <1>3, <1>4 DEF AnswersInv

(* A step that ends no call and leaves the table and the requests alone.   *)
LEMMA AnswersStand ==
    ASSUME Inv, AnswersInv, UNCHANGED <<movies, nextId, request, reply>>,
           \A c \in Calls :
               /\ pc'[c] \in Updating => pc[c] \in Updating /\ entity'[c] = entity[c]
               /\ pc'[c] = "idle" => pc[c] = "idle"
               /\ pc'[c] = "done" <=> pc[c] = "done"
    PROVE  AnswersInv'
<1>1. Unasked'
  BY DEF AnswersInv, Unasked
<1>2. \A c \in Calls : \A op, status :
          /\ Answered(c, op, status)' <=> Answered(c, op, status)
          /\ IdsIn(c)' = IdsIn(c)
  BY DEF Answered, IdsIn
<1>3. AcknowledgedCreateStays'
  BY <1>2 DEF AnswersInv, AcknowledgedCreateStays
<1>4. RemovedStays' /\ RemovedOnce'
  BY <1>2 DEF AnswersInv, RemovedStays, RemovedOnce, NeverUpdated
<1>5. Provenance'
  BY DEF AnswersInv, Provenance, AskedMovie, AskedFor
<1> QED
  BY <1>1, <1>3, <1>4, <1>5 DEF AnswersInv

(* AnswersInv is inductive, relative to Inv.                               *)
LEMMA AnswersStep == ASSUME Inv, AnswersInv, [Next]_vars PROVE AnswersInv'
<1>1. ASSUME NEW c \in Calls, Step(c)
      PROVE  AnswersInv'
  BY <1>1, PastStays, UnaskedStays, ProvenanceStep, CreatesStay, RemovedStaysStep,
     RemovedOnceStep DEF AnswersInv
<1>2. CASE Crash
  <2>1. UNCHANGED <<movies, nextId, request, reply>>
    BY <1>2 DEF Crash, Migrated
  <2>2. \A c \in Calls : pc'[c] = IF pc[c] \in Waiting THEN "lost" ELSE pc[c]
    BY <1>2 DEF Crash
  <2>3. \A c \in Calls :
            /\ pc'[c] \notin Updating
            /\ pc'[c] = "idle" => pc[c] = "idle"
            /\ pc'[c] = "done" <=> pc[c] = "done"
    BY <2>2 DEF Waiting, Updating
  <2> QED
    BY <2>1, <2>3, AnswersStand
<1>3. CASE UNCHANGED vars
  BY <1>3, AnswersStand DEF vars
<1> QED
  BY <1>1, <1>2, <1>3 DEF Next, Quiescent

(* So it holds always.                                                     *)
THEOREM AnswersAlways == Spec => []AnswersInv
  BY AnswersInit, AnswersStep, Invariance, PTL DEF Spec

(* A movie whose create was acknowledged is in the table until a delete of *)
(* its id was executed, whatever fails, crashes or updates meanwhile.      *)
THEOREM CreatesAreKept == Spec => []AcknowledgedCreateStays
  BY AnswersAlways, PTL DEF AnswersInv

(* Updates that race on stale entities may mix what was asked for, column  *)
(* by column, but no column ever holds a value nobody asked for.           *)
THEOREM NothingInvented == Spec => []OnlyAskedValues
<1>1. AnswersInv => OnlyAskedValues
  BY DEF AnswersInv, Provenance, AskedMovie, AskedFor, OnlyAskedValues
<1> QED
  BY <1>1, AnswersAlways, PTL

(* Of the deletes of a movie that no update can have put back, one at most *)
(* is told that it removed it.                                             *)
THEOREM OneDeleteSucceeds == Spec => []RemovedOnce
  BY AnswersAlways, PTL DEF AnswersInv

-----------------------------------------------------------------------------
(* Answers of one instant. *)

(* What an update knows while no other call writes its movie: its row is   *)
(* still the one it has read.                                              *)
Current ==
    \A c \in Calls : pc[c] \in Updating =>
        /\ pc[c] # "reinsert"
        /\ movies[request[c].id] = entity[c]
        /\ pc[c] = "write" =>
              diff[c] = {col \in Columns : entity[c][col] # Merged(c)[col]}

(* The UPDATE of the columns that differ from the row makes the merged     *)
(* movie of it.                                                            *)
LEMMA WritesMerged ==
    ASSUME Inv, Current, NEW c \in Calls, pc[c] = "write"
    PROVE  RowOf(c) = entity[c] /\ entity[c] \in Row /\ Written(c) = Merged(c)
<1>1. /\ request[c].op = "update" /\ request[c].changes \in Changes
      /\ entity[c] \in Row /\ RowOf(c) = entity[c]
      /\ diff[c] = {col \in Columns : entity[c][col] # Merged(c)[col]}
  BY RequestTypes DEF Inv, Control, Current, Updating, RowOf
<1>2. Merged(c) = [col \in Columns |-> Merged(c)[col]]
  BY DEF Merged, Merge
<1>3. \A col \in Columns : Written(c)[col] = Merged(c)[col]
  BY <1>1 DEF Written
<1>4. Written(c) = [col \in Columns |-> Written(c)[col]]
  BY DEF Written
<1> QED
  BY <1>1, <1>2, <1>3, <1>4

(* The step of a call leaves the differing columns of the others alone.    *)
LEMMA DiffOfOthers ==
    ASSUME Inv, NEW c \in Calls, Step(c), NEW d \in Calls \ {c}
    PROVE  diff'[d] = diff[d]
  BY DEF Inv, TypeOK, Step, Receive, MissingMovie, FindOne, FindAll, Remove,
         CreateCheck, InsertRow, UpdateRead, UpdateCheck, UpdateLoad,
         UpdateWrite, Reinsert, QueryFails, Finish, Throw, Confirm, Goto

(* Nor does it change the row of another call's update.                    *)
LEMMA RowOfOthers ==
    ASSUME Inv, OneWriterPerMovie, Current, NEW c \in Calls, Step(c),
           NEW d \in Calls \ {c}, pc[d] \in Updating
    PROVE  movies'[request[d].id] = movies[request[d].id]
<1> DEFINE i == request[d].id
<1>1. /\ i \in MovieIds /\ movies[i] \in Row /\ movies[i] # NoRow
      /\ movies \in [MovieIds -> Row \union {NoRow}]
  BY RowIsMovie DEF Inv, TypeOK, Control, Current
<1>2. Writes(d, i)
  BY DEF Writes, Inv, Control, Updating, Waiting
<1>3. ~Writes(c, i)
  BY <1>1, <1>2 DEF OneWriterPerMovie
<1>4. CASE Deletes(c)
  <2>1. request[c].id # i
    BY <1>3, <1>4 DEF Deletes, FindsItsRow, At, Writes, Waiting
  <2> QED
    BY <1>1, <1>4, <2>1 DEF Deletes
<1>5. CASE Inserts(c)
  <2>1. i < nextId /\ nextId \in Int /\ i \in Int
    BY <1>1 DEF Inv, TypeOK, IdsBelowSequence, MovieIds
  <2>2. i # nextId
    BY <2>1
  <2> QED
    BY <1>1, <1>5, <2>2 DEF Inserts
<1>6. CASE Saves(c)
  <2>1. request[c].op = "update"
    BY <1>6 DEF Saves, Inv, Control, Updating
  <2>2. request[c].id # i
    BY <1>3, <1>6, <2>1 DEF Saves, Writes, Waiting
  <2> QED
    BY <1>1, <1>6, <2>2 DEF Saves
<1> QED
  BY <1>4, <1>5, <1>6, TableChanges

(* The movie merged of the same request and entity is the same.            *)
LEMMA MergedStays ==
    ASSUME NEW d \in Calls, request'[d] = request[d], entity'[d] = entity[d]
    PROVE  Merged(d)' = Merged(d)
  BY DEF Merged

(* So an update finds its row as it left it, at each of its queries.       *)
LEMMA CurrentStep ==
    ASSUME Inv, OneWriterPerMovie, Current, NEW c \in Calls, Step(c)
    PROVE  Current'
<1> USE DEF Updating
<1>1. /\ pc \in [Calls -> Labels] /\ entity \in [Calls -> Row \union {NoRow}]
      /\ diff \in [Calls -> SUBSET Columns]
  BY DEF Inv, TypeOK
<1>2. ASSUME NEW d \in Calls \ {c}, pc'[d] \in Updating
      PROVE  /\ pc'[d] # "reinsert"
             /\ movies'[request'[d].id] = entity'[d]
             /\ pc'[d] = "write" =>
                   diff'[d] = {col \in Columns : entity'[d][col] # Merged(d)'[col]}
  <2>1. /\ pc'[d] = pc[d] /\ request'[d] = request[d] /\ entity'[d] = entity[d]
        /\ diff'[d] = diff[d]
    BY OthersKeep, EntityOfOthers, DiffOfOthers
  <2>2. Merged(d)' = Merged(d)
    BY <2>1, MergedStays
  <2>3. movies'[request[d].id] = movies[request[d].id]
    BY <1>2, <2>1, RowOfOthers
  <2> QED
    BY <1>2, <2>1, <2>2, <2>3 DEF Current
<1>3. ASSUME pc'[c] \in Updating
      PROVE  /\ pc'[c] # "reinsert"
             /\ movies'[request'[c].id] = entity'[c]
             /\ pc'[c] = "write" =>
                   diff'[c] = {col \in Columns : entity'[c][col] # Merged(c)'[col]}
  <2>1. \A status, body : ~Finish(c, status, body)
    BY <1>1, <1>3 DEF Finish
  <2>2. \A label : Goto(c, label) => pc'[c] = label
    BY <1>1 DEF Goto
  <2>3. CASE UpdateRead(c)
    BY <1>1, <2>2, <2>3 DEF UpdateRead, FindsItsRow, RowOf
  <2>4. CASE UpdateCheck(c)
    <3>1. /\ pc[c] = "check" /\ pc'[c] = "load"
          /\ UNCHANGED <<movies, request, entity>>
      BY <2>1, <2>2, <2>4 DEF UpdateCheck, Throw
    <3> QED
      BY <3>1 DEF Current
  <2>5. CASE UpdateLoad(c)
    <3>1. pc[c] = "load" /\ RowOf(c) = entity[c] /\ entity[c] \in Row
      BY <2>5 DEF UpdateLoad, Current, RowOf, Inv, Control
    <3>2. /\ pc'[c] = "write" /\ UNCHANGED <<movies, request, entity>>
          /\ diff' = [diff EXCEPT ![c] = {col \in Columns : RowOf(c)[col] # Merged(c)[col]}]
      BY <2>1, <2>2, <2>5, <3>1, RowIsMovie DEF UpdateLoad
    <3>3. Merged(c)' = Merged(c)
      BY <3>2, MergedStays
    <3>4. diff'[c] = {col \in Columns : entity[c][col] # Merged(c)[col]}
      BY <1>1, <3>1, <3>2
    <3> QED
      BY <3>1, <3>2, <3>3, <3>4 DEF Current
  <2>6. ~UpdateWrite(c) /\ ~Reinsert(c) /\ ~InsertRow(c) /\ ~Remove(c)
    BY <2>1 DEF UpdateWrite, Reinsert, InsertRow, Remove, Confirm, Throw
  <2>7. ~FindOne(c) /\ ~FindAll(c) /\ ~MissingMovie(c) /\ ~QueryFails(c)
    BY <2>1 DEF FindOne, FindAll, MissingMovie, QueryFails, Throw
  <2>8. ~CreateCheck(c) /\ ~Receive(c)
    BY <1>1, <1>3, <2>1, <2>2 DEF CreateCheck, Receive, Throw
  <2> QED
    BY <2>3, <2>4, <2>5, <2>6, <2>7, <2>8 DEF Step
<1> QED
  BY <1>2, <1>3 DEF Current

(* And at all times.                                                       *)
LEMMA CurrentNext == Inv /\ OneWriterPerMovie /\ Current /\ [Next]_vars => Current'
<1> SUFFICES ASSUME Inv, OneWriterPerMovie, Current, [Next]_vars PROVE Current'
  OBVIOUS
<1>1. CASE Crash
  BY <1>1 DEF Crash, Current, Updating, Waiting
<1>2. CASE UNCHANGED vars
  <2>1. \A d \in Calls : Merged(d)' = Merged(d)
    BY <1>2 DEF vars, Merged
  <2> QED
    BY <1>2, <2>1 DEF vars, Current
<1> QED
  BY <1>1, <1>2, CurrentStep DEF Next, Quiescent

-----------------------------------------------------------------------------
(* The steps of AtomicCatalog. *)

(* AtomicCatalog means the same by the data as Catalog.                    *)
LEMMA SameAtomic ==
    /\ Atomic!NoRequest = NoRequest /\ Atomic!NoReply = NoReply
    /\ Atomic!MovieIds = MovieIds
    /\ \A req : Atomic!HasId(req) <=> HasId(req)
    /\ \A movie, changes : Atomic!Merge(movie, changes) = Merge(movie, changes)
    /\ \A movie, changes : Atomic!WantedKey(movie, changes) = WantedKey(movie, changes)
    /\ \A movie : Atomic!HasNoNull(movie) <=> HasNoNull(movie)
    /\ \A movie, i : Atomic!Clash(movie, i) <=> Taken(movie, i)
    /\ \A movie, i : ExistsBy(movie, i) <=> Taken(movie, i)
  BY DEF Atomic!NoRequest, NoRequest, Atomic!NoReply, NoReply, Atomic!MovieIds, MovieIds,
     Atomic!HasId, HasId, Atomic!Merge, Merge, Atomic!Columns, Columns,
     Atomic!WantedKey, WantedKey, Atomic!KeyColumns, KeyColumns,
     Atomic!HasNoNull, HasNoNull, Atomic!Nullable, Nullable,
     Atomic!Clash, Taken, ExistsBy, Atomic!SameKey, SameKey

(* The statuses of both.                                                   *)
LEMMA AtomicStatuses ==
    /\ StatusOf("BadRequestException") = Atomic!BadRequest
    /\ StatusOf("NotFoundException") = Atomic!NotFound
    /\ StatusOf("ConflictException") = Atomic!Conflict
    /\ StatusOf("UniqueViolation") = Atomic!Conflict
    /\ StatusOf("OtherQueryFailure") = Atomic!ServerError
    /\ OK = Atomic!OK
  BY DEF StatusOf, HttpStatus, BadRequest, NotFound, Conflict, ServerError, OK,
     Atomic!BadRequest, Atomic!NotFound, Atomic!Conflict, Atomic!ServerError, Atomic!OK

(* A handler that ends is a call that is answered.                         *)
LEMMA FinishMaps ==
    ASSUME Inv, NEW c \in Calls, pc[c] \in Waiting, NEW status, NEW body,
           Finish(c, status, body)
    PROVE  Atomic!Answer(c, status, body)
<1>1. pc \in [Calls -> Labels] /\ pc' = [pc EXCEPT ![c] = "done"]
  BY DEF Inv, TypeOK, Finish
<1>2. CallState[c] = "pending" /\ CallState \in [Calls -> {"pending"} \union Labels]
  BY <1>1 DEF CallState
<1>3. CallState' = [CallState EXCEPT ![c] = "done"]
  BY <1>1 DEF CallState, Waiting
<1> QED
  BY <1>2, <1>3 DEF Atomic!Answer, Finish

(* One that goes on to another query shows nothing.                        *)
LEMMA GotoMaps ==
    ASSUME Inv, NEW c \in Calls, pc[c] \in Waiting, NEW label \in Waiting, Goto(c, label)
    PROVE  CallState' = CallState
<1>1. pc \in [Calls -> Labels] /\ pc' = [pc EXCEPT ![c] = label]
  BY DEF Inv, TypeOK, Goto
<1> QED
  BY <1>1 DEF CallState

(* An exception other than those of the contract is an internal error.     *)
LEMMA ThrowMaps ==
    ASSUME Inv, NEW c \in Calls, pc[c] \in Waiting, UNCHANGED <<movies, nextId>>,
           Throw(c, "OtherQueryFailure")
    PROVE  Atomic!Fail(c)
<1>1. Atomic!Answer(c, Atomic!ServerError, {})
  BY FinishMaps, AtomicStatuses DEF Throw
<1>2. Spent' = Spent
  BY DEF Spent
<1> QED
  BY <1>1, <1>2 DEF Atomic!Fail

(* So is a confirmation that gets lost.                                    *)
LEMMA ConfirmMaps ==
    ASSUME Inv, NEW c \in Calls, pc[c] \in Waiting, NEW body, Confirm(c, body)
    PROVE  Atomic!Confirm(c, body)
<1>1. Atomic!Answer(c, Atomic!OK, body) \/ Atomic!Answer(c, Atomic!ServerError, {})
  BY FinishMaps, AtomicStatuses DEF Confirm, Throw
<1> QED
  BY <1>1 DEF Atomic!Confirm

(* The initial states.                                                     *)
LEMMA InitMaps == Init => Atomic!Init
<1> SUFFICES ASSUME Init PROVE Atomic!Init
  OBVIOUS
<1>1. CallState = [c \in Calls |-> "idle"]
  BY DEF Init, CallState, Waiting
<1>2. Spent = 1..(FirstFreeId - 1)
  BY DEF Init, Spent
<1> QED
  BY <1>1, <1>2, SameAtomic DEF Init, Atomic!Init

(* The arrival of a message.                                               *)
LEMMA ReceiveMaps ==
    ASSUME Inv, NEW c \in Calls, Receive(c)
    PROVE  Atomic!Ask(c) \/ Atomic!Refuse(c)
<1>1. PICK req \in Menu[c] :
          /\ request' = [request EXCEPT ![c] = req]
          /\ IF HasId(req) /\ req.id < 1
             THEN /\ pc' = [pc EXCEPT ![c] = "done"]
                  /\ reply' = [reply EXCEPT ![c] =
                        [status |-> StatusOf("BadRequestException"), body |-> {}]]
             ELSE pc' = [pc EXCEPT ![c] = "received"] /\ UNCHANGED reply
  BY DEF Receive
<1>2. /\ pc[c] = "idle" /\ pc \in [Calls -> Labels]
      /\ UNCHANGED <<movies, nextId>> /\ Spent' = Spent
  BY DEF Receive, Inv, TypeOK, Spent
<1>3. CallState[c] = "idle"
  BY <1>2 DEF CallState, Waiting
<1>4. CASE HasId(req) /\ req.id < 1
  <2>1. pc' = [pc EXCEPT ![c] = "done"]
    BY <1>1, <1>4
  <2>2. CallState' = [CallState EXCEPT ![c] = "done"]
    BY <1>2, <2>1 DEF CallState, Waiting
  <2>3. reply' = [reply EXCEPT ![c] = [status |-> Atomic!BadRequest, body |-> {}]]
    BY <1>1, <1>4, AtomicStatuses
  <2> QED
    BY <1>1, <1>2, <1>3, <1>4, <2>2, <2>3, SameAtomic DEF Atomic!Refuse
<1>5. CASE ~(HasId(req) /\ req.id < 1)
  <2>1. pc' = [pc EXCEPT ![c] = "received"] /\ UNCHANGED reply
    BY <1>1, <1>5
  <2>2. CallState' = [CallState EXCEPT ![c] = "pending"]
    BY <1>2, <2>1 DEF CallState, Waiting
  <2> QED
    BY <1>1, <1>2, <1>3, <2>1, <2>2 DEF Atomic!Ask
<1> QED
  BY <1>4, <1>5

(* The reads, and the delete.                                              *)
LEMMA ReadsMap ==
    ASSUME Inv, NEW c \in Calls, MissingMovie(c) \/ FindOne(c) \/ FindAll(c) \/ Remove(c)
    PROVE  Atomic!Step(c)
<1> USE DEF Atomic!Step
<1>1. UNCHANGED nextId => Spent' = Spent
  BY DEF Spent
<1>2. \A i : Atomic!Exists(i) <=> i \in MovieIds /\ movies[i] # NoRow
  BY SameAtomic DEF Atomic!Exists
<1>3. pc[c] \in Waiting
  BY DEF MissingMovie, FindOne, FindAll, Remove, FindsItsRow, At, Waiting
<1>4. CASE MissingMovie(c)
  <2>1. CASE Throw(c, "OtherQueryFailure")
    BY <1>3, <1>4, <2>1, ThrowMaps DEF MissingMovie
  <2>2. CASE RowOf(c) = NoRow /\ Throw(c, "NotFoundException")
    <3>1. Atomic!Answer(c, Atomic!NotFound, {})
      BY <1>3, <2>2, FinishMaps, AtomicStatuses DEF Throw
    <3>2. ~Atomic!Exists(request[c].id)
      BY <1>2, <2>2 DEF RowOf
    <3> QED
      BY <1>1, <1>4, <3>1, <3>2, SameAtomic DEF MissingMovie, Atomic!Missing
  <2> QED
    BY <1>4, <2>1, <2>2 DEF MissingMovie
<1>5. CASE FindOne(c)
  <2>1. Atomic!Answer(c, Atomic!OK, {<<request[c].id, movies[request[c].id]>>})
    BY <1>3, <1>5, FinishMaps, AtomicStatuses DEF FindOne, RowOf
  <2> QED
    BY <1>1, <1>2, <1>5, <2>1 DEF FindOne, FindsItsRow, At, RowOf, Atomic!Find
<1>6. CASE FindAll(c)
  <2> DEFINE body == {<<i, movies[i]>> : i \in {j \in MovieIds : movies[j] # NoRow}}
  <2>1. Atomic!Answer(c, Atomic!OK, body)
    BY <1>3, <1>6, FinishMaps, AtomicStatuses DEF FindAll
  <2>2. {j \in Atomic!MovieIds : Atomic!Exists(j)} = {j \in MovieIds : movies[j] # NoRow}
    BY <1>2, SameAtomic
  <2> QED
    BY <1>1, <1>6, <2>1, <2>2 DEF FindAll, At, Atomic!List
<1>7. CASE Remove(c)
  <2>1. Atomic!Confirm(c, {})
    BY <1>3, <1>7, ConfirmMaps DEF Remove
  <2> QED
    BY <1>1, <1>2, <1>7, <2>1 DEF Remove, FindsItsRow, At, RowOf, Atomic!Remove
<1> QED
  BY <1>4, <1>5, <1>6, <1>7

(* Both queries of a create.                                               *)
LEMMA CreateMaps ==
    ASSUME Inv, NEW c \in Calls, CreateCheck(c) \/ InsertRow(c)
    PROVE  Atomic!Step(c) \/ UNCHANGED Atomic!vars
<1> USE DEF Atomic!Step
<1>1. pc[c] \in Waiting /\ request[c].op = "create"
  BY DEF CreateCheck, InsertRow, At, Waiting, Inv, Control
<1>2. CASE CreateCheck(c) /\ ExistsBy(request[c].movie, 0)
  <2>1. Atomic!Answer(c, Atomic!Conflict, {}) /\ UNCHANGED <<movies, nextId>>
    BY <1>1, <1>2, FinishMaps, AtomicStatuses DEF CreateCheck, Throw
  <2>2. Spent' = Spent \union {}
    BY <2>1 DEF Spent
  <2>3. Atomic!Clash(request[c].movie, 0)
    BY <1>2, SameAtomic
  <2> QED
    BY <1>1, <2>1, <2>2, <2>3 DEF Atomic!Duplicate
<1>3. CASE CreateCheck(c) /\ ~ExistsBy(request[c].movie, 0)
  <2>1. Goto(c, "insert") /\ UNCHANGED <<movies, nextId, request, reply>>
    BY <1>3 DEF CreateCheck
  <2>2. CallState' = CallState /\ Spent' = Spent
    BY <1>1, <2>1, GotoMaps DEF Waiting, Spent
  <2> QED
    BY <2>1, <2>2 DEF Atomic!vars
<1>4. CASE InsertRow(c) /\ nextId > IntMax
  <2>1. Throw(c, "OtherQueryFailure") /\ UNCHANGED <<movies, nextId>>
    BY <1>4, IntMaxAssumption DEF InsertRow, Inv, TypeOK
  <2> QED
    BY <1>1, <2>1, ThrowMaps
<1>5. CASE InsertRow(c) /\ nextId <= IntMax
  <2>1. /\ nextId \in MovieIds /\ nextId \notin Spent
        /\ nextId' = nextId + 1 /\ Spent' = Spent \union {nextId}
    BY <1>5, IntMaxAssumption DEF InsertRow, AfterInsert, Inv, TypeOK, MovieIds, Spent
  <2>2. movies[nextId] = NoRow
    BY <2>1 DEF Inv, TypeOK, IdsBelowSequence
  <2>3. Taken(request[c].movie, nextId) <=> Atomic!Clash(request[c].movie, 0)
    <3>1. Taken(request[c].movie, nextId) <=> Taken(request[c].movie, 0)
      BY <2>2 DEF Taken, MovieIds
    <3> QED
      BY <3>1, SameAtomic
  <2>4. CASE Taken(request[c].movie, nextId)
    <3>1. Throw(c, "UniqueViolation") /\ UNCHANGED movies
      BY <1>5, <2>1, <2>2, <2>4 DEF InsertRow, NewId, Inv, TypeOK
    <3>2. Atomic!Answer(c, Atomic!Conflict, {})
      BY <1>1, <3>1, FinishMaps, AtomicStatuses DEF Throw
    <3>3. {nextId} \in {{i} : i \in Atomic!MovieIds}
      BY <2>1, SameAtomic
    <3> QED
      BY <1>1, <2>1, <2>3, <2>4, <3>1, <3>2, <3>3 DEF Atomic!Duplicate
  <2>5. CASE ~Taken(request[c].movie, nextId)
    <3>1. /\ movies' = [movies EXCEPT ![nextId] = request[c].movie]
          /\ Confirm(c, {<<nextId, request[c].movie>>})
      BY <1>5, <2>1, <2>2, <2>5 DEF InsertRow, NewId, Inv, TypeOK
    <3>2. Atomic!Confirm(c, {<<nextId, request[c].movie>>})
      BY <1>1, <3>1, ConfirmMaps
    <3>3. nextId \in Atomic!MovieIds \ Spent
      BY <2>1, SameAtomic
    <3> QED
      BY <1>1, <2>1, <2>3, <2>5, <3>1, <3>2, <3>3 DEF Atomic!Create
  <2> QED
    BY <2>4, <2>5
<1> QED
  BY <1>2, <1>3, <1>4, <1>5 DEF InsertRow, Inv, TypeOK

(* When there is no null among the merged movie's required columns, its    *)
(* key is the one that was wanted.                                         *)
LEMMA KeyWanted ==
    ASSUME NEW movie, NEW changes, NEW i, HasNoNull(Merge(movie, changes))
    PROVE  Taken(WantedKey(movie, changes), i) <=> Taken(Merge(movie, changes), i)
<1>1. \A col \in KeyColumns : col \in Columns \ Nullable
  BY DEF KeyColumns, Columns, Nullable
<1>2. \A col \in KeyColumns : WantedKey(movie, changes)[col] = Merge(movie, changes)[col]
  BY <1>1 DEF WantedKey, Merge, HasNoNull
<1> QED
  BY <1>2 DEF Taken, SameKey

(* Once an update has read its row it works on the row there is.           *)
LEMMA UpdateKnows ==
    ASSUME Inv, Current, NEW c \in Calls, pc[c] \in Updating
    PROVE  /\ pc[c] \in Waiting /\ request[c].op = "update"
           /\ RowOf(c) = entity[c] /\ RowOf(c) # NoRow /\ RowOf(c) \in Row
           /\ Merged(c) = Merge(movies[request[c].id], request[c].changes)
           /\ Merged(c) \in Movie /\ Atomic!Exists(request[c].id)
<1>1. /\ request[c].op = "update" /\ request[c].id \in MovieIds /\ entity[c] \in Row
      /\ movies[request[c].id] = entity[c] /\ request[c].changes \in Changes
      /\ entity[c] # NoRow /\ entity[c] \in Movie
  BY RequestTypes, RowIsMovie DEF Inv, Control, Current, Updating
<1>2. Merged(c) \in Movie
  BY <1>1, MergeType DEF Merged
<1> QED
  BY <1>1, <1>2, SameAtomic DEF RowOf, Merged, Updating, Waiting, Atomic!Exists

(* The save of an update makes all of its changes at once.                 *)
LEMMA SaveMaps ==
    ASSUME Inv, Current, NEW c \in Calls, pc[c] \in Updating,
           Merged(c) \in Row, ~Taken(Merged(c), request[c].id),
           movies' = [movies EXCEPT ![request[c].id] = Merged(c)],
           nextId' = nextId, Confirm(c, {<<request[c].id, Merged(c)>>})
    PROVE  Atomic!Update(c)
<1> DEFINE new == Merged(c)
<1>1. new = Atomic!Merge(movies[request[c].id], request[c].changes)
  BY UpdateKnows, SameAtomic
<1>2. Atomic!HasNoNull(new) /\ ~Atomic!Clash(new, request[c].id)
  BY SameAtomic DEF Row
<1>3. Atomic!Confirm(c, {<<request[c].id, new>>})
  BY UpdateKnows, ConfirmMaps
<1>4. Spent' = Spent
  BY DEF Spent
<1> HIDE DEF new
<1>5. movies' = [movies EXCEPT ![request[c].id] = new]
  BY DEF new
<1> QED
  BY <1>1, <1>2, <1>3, <1>4, <1>5, UpdateKnows DEF Atomic!Update

(* A conflict of an update is a clash of the key it wants.                 *)
LEMMA ConflictMaps ==
    ASSUME Inv, Current, NEW c \in Calls, pc[c] \in Updating,
           Taken(WantedKey(RowOf(c), request[c].changes), request[c].id),
           NEW exception \in {"ConflictException", "UniqueViolation"},
           Throw(c, exception), UNCHANGED <<movies, nextId>>
    PROVE  Atomic!Rename(c)
<1>1. Atomic!Answer(c, Atomic!Conflict, {})
  BY UpdateKnows, FinishMaps, AtomicStatuses DEF Throw
<1>2. Spent' = Spent
  BY DEF Spent
<1>3. Atomic!Clash(Atomic!WantedKey(movies[request[c].id], request[c].changes), request[c].id)
  BY SameAtomic DEF RowOf
<1> QED
  BY <1>1, <1>2, <1>3, UpdateKnows DEF Atomic!Rename

(* The queries of an update: the last one that matters is its step.        *)
LEMMA UpdateMaps ==
    ASSUME Inv, Current, NEW c \in Calls,
           UpdateRead(c) \/ UpdateCheck(c) \/ UpdateLoad(c) \/ UpdateWrite(c) \/ Reinsert(c)
    PROVE  Atomic!Step(c) \/ UNCHANGED Atomic!vars
<1> USE DEF Atomic!Step
<1>1. UNCHANGED nextId => Spent' = Spent
  BY DEF Spent
<1>2. ASSUME NEW label \in Waiting, Goto(c, label), pc[c] \in Waiting,
             UNCHANGED <<movies, nextId, request, reply>>
      PROVE  UNCHANGED Atomic!vars
  BY <1>1, <1>2, GotoMaps DEF Atomic!vars
<1>3. CASE UpdateRead(c)
  <2>1. pc[c] \in Waiting
    BY <1>3 DEF UpdateRead, FindsItsRow, At, Waiting
  <2>2. PICK label \in {"load", "check"} : Goto(c, label)
    BY <1>3 DEF UpdateRead
  <2> QED
    BY <1>2, <1>3, <2>1, <2>2 DEF UpdateRead, Waiting
<1>4. CASE UpdateCheck(c)
  <2>1. pc[c] \in Updating /\ entity[c] = RowOf(c) /\ pc[c] \in Waiting
    BY <1>4, UpdateKnows DEF UpdateCheck, Updating
  <2>2. CASE ExistsBy(WantedKey(entity[c], request[c].changes), request[c].id)
    <3>1. Throw(c, "ConflictException") /\ UNCHANGED <<movies, nextId>>
      BY <1>4, <2>2 DEF UpdateCheck
    <3> QED
      BY <2>1, <2>2, <3>1, ConflictMaps, SameAtomic
  <2>3. CASE ~ExistsBy(WantedKey(entity[c], request[c].changes), request[c].id)
    BY <1>2, <1>4, <2>1, <2>3 DEF UpdateCheck, Waiting
  <2> QED
    BY <2>2, <2>3
<1>5. CASE UpdateLoad(c)
  <2>1. pc[c] \in Updating /\ RowOf(c) # NoRow /\ RowOf(c) \in Row /\ pc[c] \in Waiting
    BY <1>5, UpdateKnows DEF UpdateLoad, Updating
  <2>2. CASE RowOf(c) = Merged(c)
    <3>1. Finish(c, OK, {<<request[c].id, Merged(c)>>}) /\ UNCHANGED <<movies, nextId>>
      BY <1>5, <2>1, <2>2 DEF UpdateLoad
    <3>2. movies' = [movies EXCEPT ![request[c].id] = Merged(c)]
      BY <2>2, <3>1 DEF RowOf, Inv, TypeOK
    <3>3. ~Taken(Merged(c), request[c].id)
      BY <2>1, <2>2 DEF Inv, UniqueTitleYear, Control, Taken, RowOf
    <3> QED
      BY <2>1, <2>2, <3>1, <3>2, <3>3, SaveMaps, FinishIsConfirm
  <2>3. CASE RowOf(c) # Merged(c)
    BY <1>2, <1>5, <2>1, <2>3 DEF UpdateLoad, Waiting
  <2> QED
    BY <2>2, <2>3
<1>6. CASE UpdateWrite(c)
  <2>1. /\ pc[c] \in Updating /\ pc[c] \in Waiting /\ RowOf(c) # NoRow
        /\ Written(c) = Merged(c) /\ Merged(c) \in Movie /\ nextId' = nextId
        /\ Merged(c) = Merge(RowOf(c), request[c].changes)
    BY <1>6, UpdateKnows, WritesMerged DEF UpdateWrite, Updating, RowOf
  <2>2. CASE Merged(c) \notin Row
    <3>1. Throw(c, "OtherQueryFailure") /\ UNCHANGED <<movies, nextId>>
      BY <1>6, <2>1, <2>2 DEF UpdateWrite, Storable
    <3> QED
      BY <2>1, <3>1, ThrowMaps
  <2>3. CASE Merged(c) \in Row /\ Taken(Merged(c), request[c].id)
    <3>1. Throw(c, "UniqueViolation") /\ UNCHANGED <<movies, nextId>>
      BY <1>6, <2>1, <2>3 DEF UpdateWrite, Storable
    <3>2. Taken(WantedKey(RowOf(c), request[c].changes), request[c].id)
      BY <2>1, <2>3, KeyWanted DEF Row
    <3> QED
      BY <2>1, <3>1, <3>2, ConflictMaps
  <2>4. CASE Merged(c) \in Row /\ ~Taken(Merged(c), request[c].id)
    <3>1. /\ movies' = [movies EXCEPT ![request[c].id] = Merged(c)]
          /\ Confirm(c, {<<request[c].id, Merged(c)>>})
      BY <1>6, <2>1, <2>4 DEF UpdateWrite, Storable
    <3> QED
      BY <2>1, <2>4, <3>1, SaveMaps
  <2> QED
    BY <2>2, <2>3, <2>4
<1>7. ~Reinsert(c)
  BY DEF Reinsert, Current, Updating
<1> QED
  BY <1>3, <1>4, <1>5, <1>6, <1>7

(* Every step of the service is one of AtomicCatalog, or shows nothing.    *)
LEMMA NextMaps == Inv /\ Current /\ [Next]_vars => [Atomic!Next]_(Atomic!vars)
<1> SUFFICES ASSUME Inv, Current, [Next]_vars PROVE Atomic!Next \/ UNCHANGED Atomic!vars
  OBVIOUS
<1>1. ASSUME NEW c \in Calls, Step(c)
      PROVE  Atomic!Step(c) \/ UNCHANGED Atomic!vars
  <2>1. CASE QueryFails(c)
    BY <2>1, ThrowMaps DEF QueryFails, Atomic!Step
  <2>2. CASE Receive(c)
    BY <2>2, ReceiveMaps DEF Atomic!Step
  <2> QED
    BY <1>1, <2>1, <2>2, ReadsMap, CreateMaps, UpdateMaps DEF Step
<1>2. CASE Crash
  <2>1. CallState' = [c \in Calls |-> IF CallState[c] = "pending" THEN "lost" ELSE CallState[c]]
    <3>1. pc \in [Calls -> Labels] /\ "pending" \notin Labels /\ "lost" \notin Waiting
      BY DEF Inv, TypeOK, Labels, Waiting, Stopped
    <3> QED
      BY <1>2, <3>1 DEF Crash, CallState
  <2>2. UNCHANGED <<movies, Spent, request, reply>>
    BY <1>2 DEF Crash, Migrated, Spent
  <2> QED
    BY <2>1, <2>2 DEF Atomic!Lose, Atomic!Next
<1>3. CASE UNCHANGED vars
  BY <1>3 DEF vars, Atomic!vars, CallState, Spent
<1> QED
  BY <1>1, <1>2, <1>3 DEF Next, Quiescent, Atomic!Next

(* Each call of the catalog has its effect, and the rows it answers with,  *)
(* at one instant, as long as no two calls update or delete one movie at   *)
(* the same time, whatever creates and reads run beside them, fail or      *)
(* crash.                                                                  *)
THEOREM AtomicCalls == Spec /\ []OneWriterPerMovie => ImplementsAtomicCatalog
<1>1. Init => Current
  BY DEF Init, Current, Updating
<1>2. Init => Atomic!Init
  BY InitMaps
<1> QED
  BY <1>1, <1>2, CurrentNext, NextMaps, Invariance, PTL
  DEF Spec, Atomic!Spec, ImplementsAtomicCatalog
=============================================================================
