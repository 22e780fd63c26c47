------------------------------ MODULE AuthProofs ------------------------------
(***************************************************************************)
(* Theorems about Auth, for any calls, addresses, passwords, environments  *)
(* and any number of restarts.                                             *)
(*                                                                         *)
(* The argument rests on the table only ever growing (Grows): what was     *)
(* true of an account when a call looked at it is true for ever, although  *)
(* what was true of a free address is not.                                 *)
(***************************************************************************)
EXTENDS Auth, TLAPS

TableTypes ==
    /\ users \in [UserIds -> User \union {NoUser}]
    /\ nextUserId \in 1..(UserIdMax + 1)

ProcessTypes ==
    /\ process \in {"down", "checking", "creating", "listening"}
    /\ env \in Environments \union {NoAdmin}
    /\ crashes \in 0..MaxCrashes
    /\ process \in {"checking", "creating"} => env # NoAdmin

CallTypes ==
    /\ pc \in [Calls -> {"idle", "received", "insert", "done", "lost"}]
    /\ request \in [Calls -> Requests \union {NoRequest}]
    /\ reply \in [Calls -> Replies \union {NoReply}]

(* The ids the sequence has not given out yet are not in use. *)
Fresh == \A i \in UserIds : i >= nextUserId => users[i] = NoUser

TableInv == Fresh /\ EmailUnique /\ AdminsAreConfigured

(* Handlers are given normalised addresses, and INSERT for a register. *)
Control ==
    \A c \in Calls :
        /\ pc[c] = "idle" => request[c] = NoRequest
        /\ pc[c] # "idle" => request[c] \in Requests
        /\ request[c].op \in {"register", "login"} =>
               Canon[request[c].email] = request[c].email /\ request[c].email \in CanonicalEmails
        /\ pc[c] = "insert" => request[c].op = "register"

(* A login or register answered OK names the row with what it was given. *)
Names(c) ==
    LET i == reply[c].who.sub IN
        /\ i \in UserIds
        /\ users[i] # NoUser
        /\ reply[c].who = IdentityOf(i)
        /\ users[i].email = request[c].email
        /\ users[i].password = request[c].password

Identified ==
    \A c \in Calls :
        Answered(c, "login", OK) \/ Answered(c, "register", OK) => Names(c)

Inv ==
    /\ TableTypes /\ ProcessTypes /\ CallTypes
    /\ TableInv /\ AdminReady
    /\ Control /\ Identified

-----------------------------------------------------------------------------
(* The table grows. *)

Grows ==
    /\ nextUserId <= nextUserId'
    /\ \A i \in UserIds : users[i] # NoUser => users'[i] = users[i]

(* What a row of users holds, by its columns. *)
LEMMA UserFields ==
    /\ \A user \in User :
          user.email \in CanonicalEmails /\ user.password \in Passwords /\ user.role \in Roles
    /\ NoUser \notin User
  BY AuthAssumption DEF User

(* The account an environment names is a row the table can hold. *)
LEMMA AdminType ==
    ASSUME ProcessTypes, process = "creating"
    PROVE  /\ Admin \in User
           /\ Admin.role = "ADMIN"
           /\ env \in Environments \ {NoAdmin}
           /\ Admin.email = Canon[env.email]
           /\ Admin.password = env.password
<1>1. env \in Environments \ {NoAdmin}
  BY DEF ProcessTypes
<1>2. env \in [email : Emails, password : Passwords]
  BY <1>1, AuthAssumption
<1>3. Canon[env.email] \in CanonicalEmails /\ env.password \in Passwords
  BY <1>2 DEF CanonicalEmails
<1> QED
  BY <1>1, <1>3 DEF Admin, User, Roles

(* An INSERT that meets no constraint keeps addresses unique, whatever the *)
(* handler had looked up before.                                           *)
LEMMA InsertGrows ==
    ASSUME TableTypes, Fresh, EmailUnique, NEW user \in User, Inserted(user)
    PROVE  /\ TableTypes' /\ Fresh' /\ EmailUnique' /\ Grows
           /\ nextUserId \in UserIds
           /\ users'[nextUserId] = user
           /\ users[nextUserId] = NoUser
           /\ \A i \in UserIds \ {nextUserId} : users'[i] = users[i]
<1>1. nextUserId \in UserIds /\ UserIdMax \in Nat
  BY AuthAssumption DEF TableTypes, UserIds, Inserted
<1>2. /\ users'[nextUserId] = user
      /\ \A i \in UserIds \ {nextUserId} : users'[i] = users[i]
      /\ nextUserId' = nextUserId + 1
  BY <1>1 DEF TableTypes, Inserted
<1>3. users[nextUserId] = NoUser
  BY <1>1 DEF Fresh, TableTypes, UserIds
<1>4. TableTypes'
  BY <1>1, <1>2 DEF TableTypes, Inserted, UserIds
<1>5. Fresh'
  <2> SUFFICES ASSUME NEW i \in UserIds, i >= nextUserId' PROVE users'[i] = NoUser
    BY DEF Fresh
  <2> QED
    BY <1>1, <1>2 DEF Fresh, UserIds
<1>6. EmailUnique'
  <2> SUFFICES ASSUME NEW i \in UserIds, NEW j \in UserIds,
                      users'[i] # NoUser, users'[j] # NoUser,
                      users'[i].email = users'[j].email
               PROVE  i = j
    BY DEF EmailUnique
  <2>1. \A k \in UserIds : users[k] # NoUser => users[k].email # user.email
    BY DEF Inserted, Taken
  <2> QED
    BY <1>2, <2>1 DEF EmailUnique
<1>7. Grows
  BY <1>1, <1>2, <1>3 DEF Grows, UserIds
<1> QED
  BY <1>1, <1>2, <1>3, <1>4, <1>5, <1>6, <1>7

(* An INSERT that throws changes no row. *)
LEMMA RejectedGrows ==
    ASSUME TableTypes, TableInv, NEW user, NEW e, Rejected(user, e)
    PROVE  TableTypes' /\ TableInv' /\ Grows /\ users' = users
<1>1. nextUserId \in Int /\ UserIdMax \in Nat
  BY AuthAssumption DEF TableTypes
<1>2. users' = users
  BY DEF Rejected, tableVars
<1>3. /\ nextUserId' \in 1..(UserIdMax + 1)
      /\ nextUserId <= nextUserId'
  BY <1>1 DEF Rejected, tableVars, TableTypes
<1>4. Fresh'
  BY <1>1, <1>2, <1>3 DEF TableInv, Fresh, UserIds
<1> QED
  BY <1>2, <1>3, <1>4 DEF TableTypes, TableInv, EmailUnique, AdminsAreConfigured, Grows

(* So does a step that leaves the table alone. *)
LEMMA SameTable ==
    ASSUME TableTypes, TableInv, UNCHANGED tableVars
    PROVE  TableTypes' /\ TableInv' /\ Grows
  BY DEF tableVars, TableTypes, TableInv, Fresh, EmailUnique, AdminsAreConfigured,
         Grows

(* Accounts that exist go on existing. *)
LEMMA ExistsGrows ==
    ASSUME Grows, NEW email, ExistsBy(email)
    PROVE  \E i \in UserIds : users'[i] # NoUser /\ users'[i].email = email
  BY DEF Grows, ExistsBy

(* What an answer says of an account stays true while the table grows. *)
LEMMA NamesGrows ==
    ASSUME Grows, NEW c \in Calls, Names(c),
           request'[c] = request[c], reply'[c] = reply[c]
    PROVE  Names(c)'
  BY DEF Grows, Names, IdentityOf

-----------------------------------------------------------------------------
(* The process. *)

(* A fresh database, and a process that is yet to start. *)
LEMMA InitInv == Init => Inv
<1> SUFFICES ASSUME Init PROVE Inv
  OBVIOUS
<1>1. TableTypes /\ ProcessTypes /\ CallTypes
  BY AuthAssumption DEF Init, TableTypes, ProcessTypes, CallTypes
<1>2. TableInv /\ AdminReady
  BY DEF Init, TableInv, Fresh, EmailUnique, AdminsAreConfigured, AdminReady
<1>3. Control
  BY DEF Init, Control, NoRequest
<1>4. Identified
  BY DEF Init, Identified, Answered
<1> QED
  BY <1>1, <1>2, <1>3, <1>4 DEF Inv

(* The calls are not disturbed by what the process does to the table. *)
LEMMA CallsKeep ==
    ASSUME Inv, Grows, UNCHANGED callVars
    PROVE  CallTypes' /\ Control' /\ Identified'
<1>1. pc' = pc /\ request' = request /\ reply' = reply
  BY DEF callVars
<1>2. Identified'
  <2> SUFFICES ASSUME NEW c \in Calls,
                      (Answered(c, "login", OK) \/ Answered(c, "register", OK))'
               PROVE  Names(c)'
    BY DEF Identified
  <2>1. Names(c)
    BY <1>1 DEF Inv, Identified, Answered
  <2> QED
    BY <1>1, <2>1, NamesGrows
<1> QED
  BY <1>1, <1>2 DEF Inv, CallTypes, Control

(* An INSERT of the admin leaves an admin that the environment names. *)
LEMMA AdminInserted ==
    ASSUME Inv, process = "creating", Inserted(Admin)
    PROVE  /\ TableTypes' /\ TableInv' /\ Grows
           /\ \E i \in UserIds : users'[i] # NoUser /\ users'[i].email = Canon[env.email]
<1>1. TableTypes /\ Fresh /\ EmailUnique /\ ProcessTypes
  BY DEF Inv, TableInv
<1>2. /\ Admin \in User
      /\ env \in Environments \ {NoAdmin}
      /\ Admin.email = Canon[env.email]
      /\ Admin.password = env.password
  BY <1>1, AdminType
<1>3. /\ TableTypes' /\ Fresh' /\ EmailUnique' /\ Grows
      /\ nextUserId \in UserIds
      /\ users'[nextUserId] = Admin
      /\ \A i \in UserIds \ {nextUserId} : users'[i] = users[i]
  BY <1>1, <1>2, InsertGrows
<1>4. AdminsAreConfigured'
  <2> SUFFICES ASSUME NEW i \in UserIds, users'[i] # NoUser, users'[i].role = "ADMIN"
               PROVE  \E e \in Environments \ {NoAdmin} :
                          users'[i].email = Canon[e.email] /\ users'[i].password = e.password
    BY DEF AdminsAreConfigured
  <2>1. CASE i = nextUserId
    BY <1>2, <1>3, <2>1
  <2>2. CASE i # nextUserId
    BY <1>3, <2>2 DEF Inv, TableInv, AdminsAreConfigured
  <2> QED
    BY <2>1, <2>2
<1> QED
  BY <1>2, <1>3, <1>4, UserFields DEF TableInv

(* Starts, successful or not. *)
LEMMA BootInv ==
    ASSUME Inv, Boot
    PROVE  Inv'
<1>1. UNCHANGED callVars
  BY DEF Boot, Start, AdminCheck, AdminCreate, processVars
<1>2. TableTypes /\ TableInv /\ ProcessTypes /\ AdminReady
  BY DEF Inv
<1>3. /\ TableTypes' /\ TableInv' /\ Grows
      /\ ProcessTypes' /\ AdminReady'
  <2>1. CASE Start
    BY <1>2, <2>1, SameTable DEF Start, ProcessTypes, AdminReady
  <2>2. CASE AdminCheck
    <3>1. UNCHANGED tableVars
      BY <2>2 DEF AdminCheck
    <3>2. AdminReady'
      <4>1. SUFFICES ASSUME process' = "listening" PROVE ExistsBy(Canon[env.email])'
        BY DEF AdminReady
      <4>2. ExistsBy(Canon[env.email]) /\ env' = env
        BY <2>2, <4>1 DEF AdminCheck
      <4> QED
        BY <3>1, <4>2 DEF ExistsBy, tableVars
    <3> QED
      BY <1>2, <2>2, <3>1, <3>2, SameTable DEF AdminCheck, ProcessTypes
  <2>3. CASE AdminCreate
    <3>1. process = "creating" /\ env' = env /\ crashes' = crashes
      BY <2>3 DEF AdminCreate
    <3>2. CASE Inserted(Admin) /\ process' = "listening"
      <4>1. /\ TableTypes' /\ TableInv' /\ Grows
            /\ \E i \in UserIds : users'[i] # NoUser /\ users'[i].email = Canon[env.email]
        BY <3>1, <3>2, AdminInserted
      <4> QED
        BY <1>2, <3>1, <3>2, <4>1 DEF ProcessTypes, AdminReady, ExistsBy
    <3>3. CASE (\E e \in QueryFailures : Rejected(Admin, e)) /\ process' = "down"
      <4>1. TableTypes' /\ TableInv' /\ Grows
        BY <1>2, <3>3, RejectedGrows
      <4> QED
        BY <1>2, <3>1, <3>3, <4>1 DEF ProcessTypes, AdminReady
    <3> QED
      BY <2>3, <3>2, <3>3 DEF AdminCreate
  <2> QED
    BY <2>1, <2>2, <2>3 DEF Boot
<1> QED
  BY <1>1, <1>3, CallsKeep DEF Inv

(* A crash, also one right after the INSERT of the admin. *)
LEMMA CrashInv ==
    ASSUME Inv, Crash
    PROVE  Inv'
<1>1. /\ process' = "down" /\ env' = env /\ crashes' = crashes + 1 /\ crashes < MaxCrashes
      /\ pc' = [c \in Calls |-> IF pc[c] \in {"received", "insert"} THEN "lost" ELSE pc[c]]
      /\ request' = request /\ reply' = reply
  BY DEF Crash
<1>2. ProcessTypes' /\ AdminReady'
  BY <1>1, AuthAssumption DEF Inv, ProcessTypes, AdminReady
<1>3. TableTypes' /\ TableInv' /\ Grows
  <2>1. CASE UNCHANGED tableVars
    BY <2>1, SameTable DEF Inv
  <2>2. CASE process = "creating" /\ Inserted(Admin)
    BY <2>2, AdminInserted
  <2> QED
    BY <2>1, <2>2 DEF Crash
<1>4. CallTypes' /\ Control'
  BY <1>1 DEF Inv, CallTypes, Control
<1>5. Identified'
  <2> SUFFICES ASSUME NEW c \in Calls,
                      (Answered(c, "login", OK) \/ Answered(c, "register", OK))'
               PROVE  Names(c)'
    BY DEF Identified
  <2>1. Names(c)
    BY <1>1 DEF Inv, Identified, Answered
  <2> QED
    BY <1>1, <1>3, <2>1, NamesGrows
<1> QED
  BY <1>2, <1>3, <1>4, <1>5 DEF Inv

-----------------------------------------------------------------------------
(* The calls. *)

(* Every status an exception is mapped to, none of them a success.         *)
LEMMA StatusType ==
    \A exception : StatusOf(exception) \in Statuses /\ StatusOf(exception) # OK
  BY DEF StatusOf, HttpStatus, Statuses, OK, BadRequest, Unauthorized, NotFound,
         Conflict, ServerError

(* Public registration writes a row of a regular user. *)
LEMMA NewUserType ==
    ASSUME Control, NEW c \in Calls, pc[c] = "insert"
    PROVE  /\ NewUser(c) \in User
           /\ NewUser(c).role = "USER"
           /\ NewUser(c).email = request[c].email
           /\ NewUser(c).password = request[c].password
<1>1. request[c] \in Requests /\ request[c].op = "register" /\ request[c].email \in CanonicalEmails
  BY DEF Control
<1>2. request[c].password \in Passwords
  BY <1>1 DEF Requests
<1> QED
  BY <1>1, <1>2 DEF NewUser, User, RegisteredRole, Roles

(* What a step of a call does to the table: an INSERT of a USER or nothing.*)
LEMMA StepTable ==
    ASSUME Inv, NEW c \in Calls, Step(c)
    PROVE  TableTypes' /\ TableInv' /\ Grows /\ UNCHANGED processVars
<1>1. CASE RegisterInsert(c)
  <2>1. pc[c] = "insert" /\ Control /\ TableTypes /\ TableInv
    BY <1>1 DEF RegisterInsert, Inv
  <2>2. CASE Inserted(NewUser(c))
    <3>1. NewUser(c) \in User /\ NewUser(c).role = "USER"
      BY <2>1, NewUserType
    <3>2. /\ TableTypes' /\ Fresh' /\ EmailUnique' /\ Grows
          /\ users'[nextUserId] = NewUser(c)
          /\ \A i \in UserIds \ {nextUserId} : users'[i] = users[i]
      BY <2>1, <2>2, <3>1, InsertGrows DEF TableInv
    <3>3. AdminsAreConfigured'
      <4> SUFFICES ASSUME NEW i \in UserIds, users'[i] # NoUser, users'[i].role = "ADMIN"
                   PROVE  \E e \in Environments \ {NoAdmin} :
                              users'[i].email = Canon[e.email] /\ users'[i].password = e.password
        BY DEF AdminsAreConfigured
      <4>1. i # nextUserId
        BY <3>1, <3>2
      <4> QED
        BY <2>1, <3>2, <4>1 DEF TableInv, AdminsAreConfigured
    <3> QED
      BY <1>1, <3>2, <3>3 DEF TableInv, RegisterInsert, Finish, Throw
  <2>3. CASE \E e \in QueryFailures : Rejected(NewUser(c), e) /\ Throw(c, e)
    BY <2>1, <2>3, RejectedGrows DEF Throw, Finish
  <2> QED
    BY <1>1, <2>2, <2>3 DEF RegisterInsert
<1>2. CASE ~RegisterInsert(c)
  <2>1. UNCHANGED tableVars /\ UNCHANGED processVars
    BY <1>2 DEF Step, Receive, RegisterCheck, Login, GetProfile, QueryFails, Finish, Throw
  <2> QED
    BY <2>1, SameTable DEF Inv
<1> QED
  BY <1>1, <1>2

(* What is asked of the answer of a call whose handler ends. *)
Ends(c) ==
    \E status \in Statuses, who \in Identity \union {Nobody} :
        /\ Finish(c, status, who)
        /\ (status = OK /\ request[c].op \in {"login", "register"}) =>
               /\ who \in Identity
               /\ users'[who.sub] # NoUser
               /\ who = [sub |-> who.sub, email |-> users'[who.sub].email,
                         role |-> users'[who.sub].role]
               /\ users'[who.sub].email = request[c].email
               /\ users'[who.sub].password = request[c].password

(* A handler that throws ends with an answer that identifies nobody. *)
LEMMA ThrowEnds ==
    ASSUME NEW c \in Calls, NEW e, Throw(c, e)
    PROVE  Ends(c)
  BY StatusType DEF Throw, Ends

(* The identity of a row. *)
LEMMA IdentityType ==
    ASSUME TableTypes, NEW i \in UserIds, users[i] # NoUser
    PROVE  IdentityOf(i) \in Identity /\ IdentityOf(i).sub = i
<1>1. users[i] \in User
  BY DEF TableTypes
<1> QED
  BY <1>1, UserFields DEF IdentityOf, Identity

(* A step of a call is an arrival, the way to an INSERT, or its end. *)
LEMMA StepEnds ==
    ASSUME Inv, NEW c \in Calls, Step(c), ~Receive(c)
    PROVE  \/ Ends(c) /\ pc[c] \in {"received", "insert"}
           \/ RegisterCheck(c) /\ pc' = [pc EXCEPT ![c] = "insert"] /\ UNCHANGED <<request, reply>>
<1>1. OK \in Statuses
  BY DEF Statuses
<1>2. CASE RegisterCheck(c)
  BY <1>2, ThrowEnds DEF RegisterCheck, At
<1>3. CASE RegisterInsert(c)
  <2>1. pc[c] = "insert" /\ Control /\ TableTypes /\ TableInv
    BY <1>3 DEF RegisterInsert, Inv
  <2>2. CASE Inserted(NewUser(c)) /\ Finish(c, OK, [sub |-> nextUserId,
                  email |-> request[c].email, role |-> RegisteredRole])
    <3>1. /\ NewUser(c) \in User /\ NewUser(c).role = "USER"
          /\ NewUser(c).email = request[c].email
          /\ NewUser(c).password = request[c].password
      BY <2>1, NewUserType
    <3>2. nextUserId \in UserIds /\ users'[nextUserId] = NewUser(c)
      BY <2>1, <2>2, <3>1, InsertGrows DEF TableInv
    <3> DEFINE who == [sub |-> nextUserId, email |-> request[c].email, role |-> RegisteredRole]
    <3>3. who \in Identity /\ who.sub = nextUserId
      BY <3>1, <3>2, UserFields DEF Identity, RegisteredRole, Roles
    <3>4. /\ users'[who.sub] # NoUser
          /\ who = [sub |-> who.sub, email |-> users'[who.sub].email,
                    role |-> users'[who.sub].role]
          /\ users'[who.sub].email = request[c].email
          /\ users'[who.sub].password = request[c].password
      BY <3>1, <3>2, <3>3, UserFields DEF RegisteredRole
    <3>5. Finish(c, OK, who)
      BY <2>2
    <3> HIDE DEF who
    <3> QED
      BY <1>1, <2>1, <3>3, <3>4, <3>5 DEF Ends
  <2>3. CASE \E e : Throw(c, e)
    BY <2>1, <2>3, ThrowEnds
  <2> QED
    BY <1>3, <2>2, <2>3 DEF RegisterInsert
<1>4. CASE Login(c)
  <2>1. pc[c] = "received" /\ UNCHANGED users
    BY <1>4 DEF Login, At, tableVars
  <2>2. CASE \E e : Throw(c, e)
    BY <2>1, <2>2, ThrowEnds
  <2>3. CASE \E i \in UserIds : Accepts(users[i], request[c]) /\ Finish(c, OK, IdentityOf(i))
    <3>1. PICK i \in UserIds : Accepts(users[i], request[c]) /\ Finish(c, OK, IdentityOf(i))
      BY <2>3
    <3>2. IdentityOf(i) \in Identity /\ IdentityOf(i).sub = i
      BY <3>1, IdentityType DEF Inv, Accepts
    <3>3. /\ users'[i] # NoUser
          /\ IdentityOf(i) = [sub |-> i, email |-> users'[i].email, role |-> users'[i].role]
          /\ users'[i].email = request[c].email
          /\ users'[i].password = request[c].password
      BY <2>1, <3>1 DEF Accepts, IdentityOf
    <3> QED
      BY <1>1, <2>1, <3>1, <3>2, <3>3 DEF Ends
  <2> QED
    BY <1>4, <2>2, <2>3 DEF Login
<1>5. CASE GetProfile(c)
  <2>1. pc[c] = "received" /\ request[c].op = "profile"
    BY <1>5 DEF GetProfile, At
  <2>2. CASE \E e : Throw(c, e)
    BY <2>1, <2>2, ThrowEnds
  <2>3. CASE \E i \in UserIds : users[i] # NoUser /\ Finish(c, OK, IdentityOf(i))
    BY <1>1, <2>1, <2>3, IdentityType DEF Inv, Ends
  <2> QED
    BY <1>5, <2>2, <2>3 DEF GetProfile
<1>6. CASE QueryFails(c)
  BY <1>6, ThrowEnds DEF QueryFails
<1> QED
  BY <1>2, <1>3, <1>4, <1>5, <1>6 DEF Step

(* The DTO's transformation yields a request, with a normalised address.   *)
LEMMA NormalizedType ==
    ASSUME NEW c \in Calls, NEW req \in Menu[c]
    PROVE  /\ Normalized(req) \in Requests
           /\ Normalized(req).op = req.op
           /\ Normalized(req).op \in {"register", "login"} =>
                  /\ Canon[Normalized(req).email] = Normalized(req).email
                  /\ Normalized(req).email \in CanonicalEmails
<1>1. req \in Requests
  BY AuthAssumption
<1>2. CASE req.op = "profile"
  BY <1>1, <1>2 DEF Normalized
<1>3. CASE req.op # "profile"
  <2>1. req.email \in Emails
    BY <1>1, <1>3 DEF Requests
  <2>2. /\ Canon[req.email] \in Emails /\ Canon[req.email] \in CanonicalEmails
        /\ Canon[Canon[req.email]] = Canon[req.email]
    BY <2>1, AuthAssumption DEF CanonicalEmails
  <2>3. Normalized(req) = [req EXCEPT !.email = Canon[req.email]]
    BY <1>3 DEF Normalized
  <2>4. /\ Normalized(req) \in Requests
        /\ Normalized(req).op = req.op
        /\ Normalized(req).email = Canon[req.email]
    BY <1>1, <1>3, <2>2, <2>3 DEF Requests
  <2> QED
    BY <2>2, <2>4
<1> QED
  BY <1>2, <1>3

(* The others' calls stay as they are. *)
LEMMA OthersKeep ==
    ASSUME CallTypes, NEW c \in Calls, Step(c), NEW d \in Calls \ {c}
    PROVE  pc'[d] = pc[d] /\ request'[d] = request[d] /\ reply'[d] = reply[d]
  BY DEF CallTypes, Step, Receive, RegisterCheck, RegisterInsert, Login, GetProfile,
         QueryFails, Finish, Throw

(* What a call that arrives, goes on or ends knows and has been told. *)
LEMMA OwnCall ==
    ASSUME Inv, NEW c \in Calls, Step(c)
    PROVE  /\ CallTypes'
           /\ pc'[c] = "idle" => request'[c] = NoRequest
           /\ pc'[c] # "idle" => request'[c] \in Requests
           /\ request'[c].op \in {"register", "login"} =>
                  /\ Canon[request'[c].email] = request'[c].email
                  /\ request'[c].email \in CanonicalEmails
           /\ pc'[c] = "insert" => request'[c].op = "register"
           /\ (Answered(c, "login", OK) \/ Answered(c, "register", OK))' => Names(c)'
<1>1. CallTypes /\ Control
  BY DEF Inv
<1>2. CASE Receive(c)
  <2>1. PICK req \in Menu[c] :
            /\ request' = [request EXCEPT ![c] = Normalized(req)]
            /\ \/ /\ pc' = [pc EXCEPT ![c] = "done"]
                  /\ reply' = [reply EXCEPT ![c] =
                         [status |-> StatusOf("BadRequestException"), who |-> Nobody]]
               \/ pc' = [pc EXCEPT ![c] = "received"] /\ UNCHANGED reply
    BY <1>2 DEF Receive
  <2>2. /\ Normalized(req) \in Requests
        /\ Normalized(req).op \in {"register", "login"} =>
               /\ Canon[Normalized(req).email] = Normalized(req).email
               /\ Normalized(req).email \in CanonicalEmails
    BY NormalizedType
  <2>3. request'[c] = Normalized(req) /\ pc'[c] \in {"done", "received"}
    BY <1>1, <2>1 DEF CallTypes
  <2>4. [status |-> StatusOf("BadRequestException"), who |-> Nobody] \in Replies
    BY StatusType DEF Replies
  <2>5. CallTypes'
    BY <1>1, <2>1, <2>2, <2>4 DEF CallTypes
  <2>6. pc'[c] = "done" => reply'[c].status # OK
    BY <1>1, <2>1, StatusType DEF CallTypes
  <2> QED
    BY <2>2, <2>3, <2>5, <2>6 DEF Answered
<1>3. CASE ~Receive(c) /\ Ends(c) /\ pc[c] \in {"received", "insert"}
  <2>1. PICK status \in Statuses, who \in Identity \union {Nobody} :
            /\ Finish(c, status, who)
            /\ (status = OK /\ request[c].op \in {"login", "register"}) =>
                   /\ who \in Identity
                   /\ users'[who.sub] # NoUser
                   /\ who = [sub |-> who.sub, email |-> users'[who.sub].email,
                             role |-> users'[who.sub].role]
                   /\ users'[who.sub].email = request[c].email
                   /\ users'[who.sub].password = request[c].password
    BY <1>3 DEF Ends
  <2>2. /\ request' = request /\ pc' = [pc EXCEPT ![c] = "done"]
        /\ reply' = [reply EXCEPT ![c] = [status |-> status, who |-> who]]
    BY <2>1 DEF Finish
  <2>3. reply'[c] = [status |-> status, who |-> who] /\ pc'[c] = "done"
    BY <1>1, <2>2 DEF CallTypes
  <2>4. CallTypes'
    BY <1>1, <2>2 DEF CallTypes, Replies
  <2>5. (Answered(c, "login", OK) \/ Answered(c, "register", OK))' => Names(c)'
    <3> SUFFICES ASSUME (Answered(c, "login", OK) \/ Answered(c, "register", OK))'
                 PROVE  Names(c)'
      OBVIOUS
    <3>1. status = OK /\ request[c].op \in {"login", "register"}
      BY <2>2, <2>3 DEF Answered
    <3>2. who \in Identity
      BY <2>1, <3>1
    <3>3. who.sub \in UserIds
      BY <3>2 DEF Identity
    <3> QED
      BY <2>1, <2>2, <2>3, <3>1, <3>3 DEF Names, IdentityOf
  <2> QED
    BY <1>1, <1>3, <2>2, <2>3, <2>4, <2>5 DEF Control
<1>4. CASE RegisterCheck(c) /\ pc' = [pc EXCEPT ![c] = "insert"] /\ UNCHANGED <<request, reply>>
  BY <1>1, <1>4 DEF CallTypes, Control, RegisterCheck, At, Answered
<1> QED
  BY <1>2, <1>3, <1>4, StepEnds

(* A step of a call preserves the invariant. *)
LEMMA StepInv ==
    ASSUME Inv, NEW c \in Calls, Step(c)
    PROVE  Inv'
<1>1. CallTypes
  BY DEF Inv
<1>2. TableTypes' /\ TableInv' /\ Grows /\ UNCHANGED processVars
  BY StepTable
<1>3. ProcessTypes' /\ AdminReady'
  BY <1>2, ExistsGrows DEF Inv, ProcessTypes, AdminReady, ExistsBy, processVars
<1>4. \A d \in Calls \ {c} :
          pc'[d] = pc[d] /\ request'[d] = request[d] /\ reply'[d] = reply[d]
  BY <1>1, OthersKeep
<1>5. CallTypes' /\ Control'
  BY <1>4, OwnCall DEF Inv, Control
<1>6. Identified'
  <2> SUFFICES ASSUME NEW d \in Calls,
                      (Answered(d, "login", OK) \/ Answered(d, "register", OK))'
               PROVE  Names(d)'
    BY DEF Identified
  <2>1. CASE d = c
    BY <2>1, OwnCall
  <2>2. CASE d # c
    <3>1. Names(d)
      BY <1>4, <2>2 DEF Inv, Identified, Answered
    <3> QED
      BY <1>2, <1>4, <2>2, <3>1, NamesGrows
  <2> QED
    BY <2>1, <2>2
<1> QED
  BY <1>2, <1>3, <1>5, <1>6 DEF Inv

(* Inv is inductive. *)
LEMMA NextInv == Inv /\ [Next]_vars => Inv'
<1> SUFFICES ASSUME Inv, [Next]_vars PROVE Inv'
  OBVIOUS
<1>1. CASE UNCHANGED vars
  <2>1. UNCHANGED callVars /\ UNCHANGED tableVars /\ UNCHANGED processVars
    BY <1>1 DEF vars
  <2>2. TableTypes' /\ TableInv' /\ Grows
    BY <2>1, SameTable DEF Inv
  <2>3. ProcessTypes' /\ AdminReady'
    BY <2>1 DEF Inv, ProcessTypes, AdminReady, ExistsBy, processVars, tableVars
  <2> QED
    BY <2>1, <2>2, <2>3, CallsKeep DEF Inv
<1> QED
  BY <1>1, BootInv, CrashInv, StepInv DEF Next, Quiescent

-----------------------------------------------------------------------------
(* The theorems. *)

(* The inductive invariant holds in every reachable state. *)
THEOREM Invariance == Spec => []Inv
  BY InitInv, NextInv, PTL DEF Spec

(* Every variable keeps to its type: no address enters the table but       *)
(* trimmed and in lower case.                                              *)
THEOREM TypeCorrect == Spec => []TypeOK
<1>1. Inv => TypeOK
  BY DEF Inv, TypeOK, TableTypes, ProcessTypes, CallTypes
<1> QED
  BY <1>1, Invariance, PTL

(* One account per address, however registrations overlap and restarts     *)
(* repeat the bootstrap.                                                   *)
THEOREM AddressUnique == Spec => []EmailUnique
<1>1. Inv => EmailUnique
  BY DEF Inv, TableInv
<1> QED
  BY <1>1, Invariance, PTL

(* No registration makes an admin: every admin is an account that some     *)
(* environment names.                                                      *)
THEOREM AdminsConfigured == Spec => []AdminsAreConfigured
<1>1. Inv => AdminsAreConfigured
  BY DEF Inv, TableInv
<1> QED
  BY <1>1, Invariance, PTL

(* The service never listens without the account its environment names.    *)
THEOREM AdminBeforeListening == Spec => []AdminReady
<1>1. Inv => AdminReady
  BY DEF Inv
<1> QED
  BY <1>1, Invariance, PTL

(* A token given by a login speaks of the account whose password was       *)
(* given, and goes on doing so.                                            *)
THEOREM TokensTruthful == Spec => []TokenTruthful
<1>1. Inv => TokenTruthful
  BY DEF Inv, Identified, Names, TokenTruthful
<1> QED
  BY <1>1, Invariance, PTL

(* A login of an acknowledged account is never turned down as invalid,     *)
(* in whatever spelling the two requests write the address.                *)
LEMMA LogInStep ==
    ASSUME Inv, Next, NEW c \in Calls, NEW d \in Calls,
           Answered(c, "register", OK),
           request[d].op = "login",
           reply[d] # reply'[d],
           Canon[request[d].email] = Canon[request[c].email],
           request[d].password = request[c].password
    PROVE  reply'[d].status # Unauthorized
<1>1. CallTypes /\ Control /\ Names(c)
  BY DEF Inv, Identified
<1>2. Step(d)
  <2>1. UNCHANGED callVars => reply' = reply
    BY DEF callVars
  <2>2. PICK e \in Calls : Step(e)
    BY <2>1 DEF Next, Boot, Start, AdminCheck, AdminCreate, Crash, Quiescent, vars, callVars, processVars
  <2> QED
    BY <1>1, <2>2, OthersKeep
<1>3. ~Receive(d)
  BY <1>1 DEF Receive, Control, NoRequest
<1>4. ~RegisterCheck(d) /\ ~GetProfile(d) /\ ~RegisterInsert(d)
  BY <1>1 DEF RegisterCheck, GetProfile, RegisterInsert, At, Control
<1>5. CASE QueryFails(d)
  BY <1>1, <1>5 DEF QueryFails, Throw, Finish, StatusOf, HttpStatus, CallTypes, ServerError,
                    Unauthorized
<1>6. CASE Login(d)
  <2>1. request[d].email = request[c].email
    BY <1>1 DEF Control, Answered
  <2>2. \E i \in UserIds : Accepts(users[i], request[d])
    BY <1>1, <2>1 DEF Names, Accepts
  <2>3. \E i \in UserIds : Finish(d, OK, IdentityOf(i))
    BY <1>6, <2>2 DEF Login
  <2> QED
    BY <1>1, <2>3 DEF Finish, CallTypes, OK, Unauthorized
<1> QED
  BY <1>2, <1>3, <1>4, <1>5, <1>6 DEF Step

(* The action property that LogInStep is the step of. *)
THEOREM RegisteredLogIn == Spec => RegisteredCanLogIn
<1>1. Inv /\ [Next]_vars =>
        [\A c, d \in Calls :
            (/\ Answered(c, "register", OK)
             /\ request[d].op = "login"
             /\ reply[d] # reply'[d]
             /\ Canon[request[d].email] = Canon[request[c].email]
             /\ request[d].password = request[c].password)
            => reply'[d].status # Unauthorized]_vars
  BY LogInStep
<1> QED
  BY <1>1, Invariance, PTL DEF Spec, RegisteredCanLogIn
=============================================================================
