-------------------------------- MODULE Auth ---------------------------------
(***************************************************************************)
(* The auth service: AuthService over the users table, with the process    *)
(* that starts it.  A start seeds the admin account before the service     *)
(* listens; a start that fails ends the process, and Docker starts it      *)
(* again.  There is one process at a time (one named container).           *)
(*                                                                         *)
(* Rows of users are never changed or removed, so a login, which reads its *)
(* row and then compares and signs, is one step.  A password hash is       *)
(* modelled by the only thing asked of it: the password it accepts.        *)
(***************************************************************************)
EXTENDS Integers, FiniteSets, RpcErrors

CONSTANTS
    Calls,        \* the RPC calls the service receives
    Menu,         \* Menu[c]: the requests call c may carry
    Emails,       \* email addresses as they are written
    Canon,        \* Canon[e]: e trimmed and in lower case
    Passwords,
    Environments, \* the admin accounts .env may name; NoAdmin if it names none
    NoAdmin,
    NoUser,       \* there is no user with this id
    UserIdMax,    \* the largest INTEGER of the database, scaled down
    MaxCrashes    \* bound: how often the process is killed

VARIABLES
    users,        \* the users table: the row of each id, or NoUser
    nextUserId,   \* the sequence behind users.id
    process,      \* where the process is in its life
    env,          \* the environment the process was started with
    crashes,      \* how often the process has been killed
    pc, request, reply

tableVars == <<users, nextUserId>>
processVars == <<process, env, crashes>>
callVars == <<pc, request, reply>>
vars == <<tableVars, processVars, callVars>>

UserIds == 1..UserIdMax
Roles == {"USER", "ADMIN"}
CanonicalEmails == {Canon[e] : e \in Emails}
User == [email : CanonicalEmails, password : Passwords, role : Roles]

Requests ==
    [op : {"register"}, email : Emails, password : Passwords, confirm : Passwords]
        \union [op : {"login"}, email : Emails, password : Passwords]
        \union [op : {"profile"}, userId : Int]
NoRequest == [op |-> "none"]

(* The public part of a user, and the claims of a token: sub is the id. *)
Identity == [sub : UserIds, email : CanonicalEmails, role : Roles]
Nobody == [sub |-> 0]
Replies == [status : Statuses, who : Identity \union {Nobody}]
NoReply == [status |-> 0, who |-> Nobody]

ASSUME AuthAssumption ==
    /\ Canon \in [Emails -> Emails]
    /\ \A e \in Emails : Canon[Canon[e]] = Canon[e]
    /\ Environments \subseteq [email : Emails, password : Passwords] \union {NoAdmin}
    /\ Environments # {}
    /\ NoAdmin \notin [email : Emails, password : Passwords]
    /\ NoUser \notin User
    /\ UserIdMax \in Nat \ {0}
    /\ MaxCrashes \in Nat
    /\ \A c \in Calls : Menu[c] \subseteq Requests

Init ==
    /\ users = [i \in UserIds |-> NoUser]
    /\ nextUserId = 1
    /\ process = "down"
    /\ env = NoAdmin
    /\ crashes = 0
    /\ pc = [c \in Calls |-> "idle"]
    /\ request = [c \in Calls |-> NoRequest]
    /\ reply = [c \in Calls |-> NoReply]

-----------------------------------------------------------------------------
(* The table. *)

(* Mutant: users without a unique email. *)
NotUnique(email) == FALSE

(* A row with this email would break UNIQUE (email). *)
Taken(email) == \E i \in UserIds : users[i] # NoUser /\ users[i].email = email

(* users.existsBy and findOne by email: the lookups before the INSERT. *)
ExistsBy(email) == \E i \in UserIds : users[i] # NoUser /\ users[i].email = email

(* INSERT of a user that meets no constraint. *)
Inserted(user) ==
    /\ nextUserId <= UserIdMax
    /\ ~Taken(user.email)
    /\ users' = [users EXCEPT ![nextUserId] = user]
    /\ nextUserId' = nextUserId + 1

(* INSERT of a user that throws: an exhausted sequence leaves everything,  *)
(* a unique violation has used up an id.                                   *)
Rejected(user, exception) ==
    \/ /\ exception = "OtherQueryFailure"
       /\ nextUserId > UserIdMax
       /\ UNCHANGED tableVars
    \/ /\ exception = "UniqueViolation"
       /\ nextUserId <= UserIdMax
       /\ Taken(user.email)
       /\ nextUserId' = nextUserId + 1
       /\ UNCHANGED users

IdentityOf(i) == [sub |-> i, email |-> users[i].email, role |-> users[i].role]

-----------------------------------------------------------------------------
(* The process: migrations, onApplicationBootstrap, listen. *)

Start ==
    /\ process = "down"
    /\ env' \in Environments
    /\ process' = IF env' = NoAdmin THEN "listening" ELSE "checking"
    /\ UNCHANGED <<tableVars, crashes, callVars>>

(* Mutant: the admin is created without a look at the table. *)
AdminCheckNot ==
    /\ process = "checking"
    /\ process' = "creating"
    /\ UNCHANGED <<tableVars, env, crashes, callVars>>

(* ensureAdminAccount: an account with the admin's email is left as it is. *)
AdminCheck ==
    /\ process = "checking"
    /\ process' = IF ExistsBy(Canon[env.email]) THEN "listening" ELSE "creating"
    /\ UNCHANGED <<tableVars, env, crashes, callVars>>

Admin == [email |-> Canon[env.email], password |-> env.password, role |-> "ADMIN"]

(* Mutant: listen() does not wait for the account. *)
AdminInBackground ==
    /\ process = "creating"
    /\ process' = "listening"
    /\ Inserted(Admin) \/ UNCHANGED tableVars
    /\ UNCHANGED <<env, crashes, callVars>>

(* The INSERT of the admin; if it throws, the bootstrap rejects and the    *)
(* process exits.                                                          *)
AdminCreate ==
    /\ process = "creating"
    /\ \/ Inserted(Admin) /\ process' = "listening"
       \/ (\E e \in QueryFailures : Rejected(Admin, e)) /\ process' = "down"
    /\ UNCHANGED <<env, crashes, callVars>>

(* The process is killed, or its start fails for want of the database.     *)
(* Calls in progress stay without an answer, and the INSERT of the admin   *)
(* may have been committed by then.  (A registration committed before its  *)
(* answer could be sent is one that is done and whose answer is lost.)     *)
Crash ==
    /\ process # "down"
    /\ crashes < MaxCrashes
    /\ process' = "down"
    /\ crashes' = crashes + 1
    /\ pc' = [c \in Calls |-> IF pc[c] \in {"received", "insert"} THEN "lost" ELSE pc[c]]
    /\ \/ UNCHANGED tableVars
       \/ process = "creating" /\ Inserted(Admin)
    /\ UNCHANGED <<env, request, reply>>

-----------------------------------------------------------------------------
(* The calls. *)

Finish(c, status, who) ==
    /\ pc' = [pc EXCEPT ![c] = "done"]
    /\ reply' = [reply EXCEPT ![c] = [status |-> status, who |-> who]]
    /\ UNCHANGED <<request, processVars>>

Throw(c, exception) == Finish(c, StatusOf(exception), Nobody)

(* Mutant: the email of a login is taken as it is written. *)
AsWritten(req) == req

(* What the handler gets: the email normalised by the DTO. *)
Normalized(req) ==
    IF req.op = "profile" THEN req ELSE [req EXCEPT !.email = Canon[@]]

(* Validation, and register's own test of the two passwords, come before   *)
(* the first query.                                                        *)
Receive(c) ==
    /\ process = "listening"
    /\ pc[c] = "idle"
    /\ \E req \in Menu[c] :
          /\ request' = [request EXCEPT ![c] = Normalized(req)]
          /\ IF \/ req.op = "profile" /\ req.userId < 1
                \/ req.op = "register" /\ req.password # req.confirm
             THEN /\ pc' = [pc EXCEPT ![c] = "done"]
                  /\ reply' = [reply EXCEPT ![c] =
                        [status |-> StatusOf("BadRequestException"), who |-> Nobody]]
             ELSE pc' = [pc EXCEPT ![c] = "received"] /\ UNCHANGED reply
    /\ UNCHANGED <<tableVars, processVars>>

At(c, op) == pc[c] = "received" /\ request[c].op = op

RegisterCheck(c) ==
    /\ At(c, "register")
    /\ \/ ExistsBy(request[c].email) /\ Throw(c, "ConflictException")
       \/ /\ ~ExistsBy(request[c].email)
          /\ pc' = [pc EXCEPT ![c] = "insert"]
          /\ UNCHANGED <<request, reply, processVars>>
    /\ UNCHANGED tableVars

(* Mutant: whoever comes first is made the admin. *)
FirstIsAdmin == IF nextUserId = 1 THEN "ADMIN" ELSE "USER"

RegisteredRole == "USER"

NewUser(c) ==
    [email |-> request[c].email, password |-> request[c].password,
     role |-> RegisteredRole]

(* createUser: the password is hashed, which takes long, then the INSERT,  *)
(* whose confirmation may be lost with the connection.                     *)
RegisterInsert(c) ==
    /\ pc[c] = "insert"
    /\ \/ /\ Inserted(NewUser(c))
          /\ \/ Finish(c, OK, [sub |-> nextUserId, email |-> request[c].email,
                               role |-> RegisteredRole])
             \/ Throw(c, "OtherQueryFailure")
       \/ \E e \in QueryFailures : Rejected(NewUser(c), e) /\ Throw(c, e)

(* Mutant: the password is not compared. *)
AcceptsAny(user, req) == user # NoUser /\ user.email = req.email

(* The row a login selects, if the password matches its hash. *)
Accepts(user, req) ==
    user # NoUser /\ user.email = req.email /\ user.password = req.password

Login(c) ==
    /\ At(c, "login")
    /\ LET found == {i \in UserIds : Accepts(users[i], request[c])} IN
          \/ found = {} /\ Throw(c, "UnauthorizedException")
          \/ \E i \in found : Finish(c, OK, IdentityOf(i))
    /\ UNCHANGED tableVars

GetProfile(c) ==
    /\ At(c, "profile")
    /\ LET id == request[c].userId IN
          \/ id \notin UserIds /\ Throw(c, "OtherQueryFailure")
          \/ id \in UserIds /\ users[id] = NoUser /\ Throw(c, "NotFoundException")
          \/ id \in UserIds /\ users[id] # NoUser /\ Finish(c, OK, IdentityOf(id))
    /\ UNCHANGED tableVars

(* A query fails before it has had any effect. *)
QueryFails(c) ==
    /\ pc[c] \in {"received", "insert"}
    /\ Throw(c, "OtherQueryFailure")
    /\ UNCHANGED tableVars

Step(c) ==
    \/ Receive(c)        \/ RegisterCheck(c) \/ RegisterInsert(c)
    \/ Login(c)          \/ GetProfile(c)    \/ QueryFails(c)

Boot == Start \/ AdminCheck \/ AdminCreate

(* The service is up and every call has been made. *)
Quiescent ==
    /\ process = "listening"
    /\ \A c \in Calls : pc[c] \in {"done", "lost"}
    /\ UNCHANGED vars

Next == Boot \/ Crash \/ (\E c \in Calls : Step(c)) \/ Quiescent

Spec == Init /\ [][Next]_vars

(* Docker starts the process again, and a start runs to its end. *)
FairSpec == Spec /\ WF_vars(Boot)

-----------------------------------------------------------------------------
Answered(c, op, status) ==
    request[c].op = op /\ pc[c] = "done" /\ reply[c].status = status

(* The values of the variables: emails in the table are normalised. *)
TypeOK ==
    /\ users \in [UserIds -> User \union {NoUser}]
    /\ nextUserId \in 1..(UserIdMax + 1)
    /\ process \in {"down", "checking", "creating", "listening"}
    /\ env \in Environments \union {NoAdmin}
    /\ crashes \in 0..MaxCrashes
    /\ pc \in [Calls -> {"idle", "received", "insert", "done", "lost"}]
    /\ request \in [Calls -> Requests \union {NoRequest}]
    /\ reply \in [Calls -> Replies \union {NoReply}]

(* One account per address, although registrations of it look before they  *)
(* hash and hash long before they insert, and may write it differently.    *)
EmailUnique ==
    \A i, j \in UserIds :
        (users[i] # NoUser /\ users[j] # NoUser /\ users[i].email = users[j].email)
        => i = j

(* "Public registration always creates a regular user" (auth.service.ts):  *)
(* an admin is an account some environment names, with its password.       *)
AdminsAreConfigured ==
    \A i \in UserIds : (users[i] # NoUser /\ users[i].role = "ADMIN") =>
        \E e \in Environments \ {NoAdmin} :
            users[i].email = Canon[e.email] /\ users[i].password = e.password

(* A token says who the account is, for as long as the token may live: its *)
(* id, email and role are those of the row with the password given.        *)
TokenTruthful ==
    \A c \in Calls : Answered(c, "login", OK) =>
        LET i == reply[c].who.sub IN
            /\ users[i] # NoUser
            /\ reply[c].who = IdentityOf(i)
            /\ users[i].email = request[c].email
            /\ users[i].password = request[c].password

(* Who has been told that the registration went through is not turned away *)
(* at a later login with that password, however the address is written.    *)
RegisteredCanLogIn ==
    [][\A c, d \in Calls :
        (/\ Answered(c, "register", OK)
         /\ request[d].op = "login"
         /\ reply[d] # reply'[d]
         /\ Canon[request[d].email] = Canon[request[c].email]
         /\ request[d].password = request[c].password)
        => reply'[d].status # Unauthorized]_vars

(* While the service listens, the account its environment names is there.  *)
AdminReady ==
    (process = "listening" /\ env # NoAdmin) => ExistsBy(Canon[env.email])

(* However a start was cut short, a later one succeeds: creating the admin *)
(* is not undone, nor tripped over by doing it again.  (A start that has   *)
(* an account to make when the ids are used up fails every time.)          *)
EventuallyListening ==
    []((nextUserId > UserIdMax /\ env # NoAdmin) => ExistsBy(Canon[env.email]))
        => <>[](process = "listening")
=============================================================================
