------------------------------ MODULE MCGateway ------------------------------
(***************************************************************************)
(* A small instance of the gateway: two requests to register or log in, as *)
(* the admin or as a user, one request for the catalog and one order.      *)
(***************************************************************************)
EXTENDS Gateway

CONSTANTS l1, l2, m1, b1

Film(title) ==
    [title |-> title, releaseYear |-> "2021", ticketPrice |-> "12.50", description |-> Null]
MCValues == {"Dune", "Arrakis", "2021", "12.50"}
MCCents == [p \in MCValues |-> IF p = "12.50" THEN 1250 ELSE 0]
OneMovie == [i \in 1..IntMax |-> IF i = 1 THEN Film("Dune") ELSE NoRow]

MCEmails == {"ann", "root"}
MCCanon == [e \in MCEmails |-> e]
MCEnvironments == {[email |-> "root", password |-> "p1"]}

MCTo == [r \in RpcCalls |->
    IF r \in AuthCalls THEN "auth" ELSE IF r \in MovieCalls THEN "catalog" ELSE "order"]

Http(route, by, body) == [route |-> route, by |-> by, valid |-> TRUE, body |-> body]
Invalid(req) == [req EXCEPT !.valid = FALSE]
OtherSecret == [sub |-> 1, email |-> "root", role |-> "ADMIN"]

Register(email) ==
    Http("register", NoToken, [email |-> email, password |-> "p2", confirm |-> "p2"])
LogIn(email, password) ==
    Http("login", NoToken, [email |-> email, password |-> password])
Delete(by) == Http("deleteMovie", by, [id |-> 1])
Create(by) == Http("createMovie", by, [movie |-> Film("Arrakis")])
Buy(by) == Http("createOrder", by, [movieId |-> 1, quantity |-> 2])

MCHttpMenu == [r \in RpcCalls |->
    CASE r = l1 -> {LogIn("root", "p1"), Register("ann")}
      [] r = l2 -> {LogIn("ann", "p2")}
      [] r = m1 -> {Create(l1), Delete(l2), Delete(OtherSecret)}
      [] OTHER -> {Buy(l1), Buy(l2), Buy(OtherSecret), Invalid(Buy(l1))}]
=============================================================================
