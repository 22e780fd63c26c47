------------------------------- MODULE MCAuth --------------------------------
(***************************************************************************)
(* Small instances of the auth service: two people, one of whom the        *)
(* environment may name as admin, and an address in two spellings.         *)
(***************************************************************************)
EXTENDS Auth

MCEmails == {"ann", "Ann", "root", "Root"}
MCCanon == [e \in MCEmails |-> CASE e = "Ann" -> "ann" [] e = "Root" -> "root" [] OTHER -> e]

Register(email, password, confirm) ==
    [op |-> "register", email |-> email, password |-> password, confirm |-> confirm]
LogIn(email, password) == [op |-> "login", email |-> email, password |-> password]
Profile(id) == [op |-> "profile", userId |-> id]

RootAdmin == [email |-> "Root", password |-> "p1"]
ChangingEnvironments == {RootAdmin, NoAdmin, [email |-> "ann", password |-> "p1"]}

AccountMenu == [c \in Calls |->
    CASE c = 1 -> {Register("ann", "p1", "p1"), Register("Root", "p2", "p2")}
      [] c = 2 -> {Register("Ann", "p2", "p2"), Register("ann", "p1", "p2"),
                   LogIn("root", "p1"), Profile(0), Profile(9)}
      [] OTHER -> {LogIn("Ann", "p1"), LogIn("ann", "p2"), Profile(1)}]
=============================================================================
