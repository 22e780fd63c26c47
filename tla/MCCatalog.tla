------------------------------ MODULE MCCatalog ------------------------------
(***************************************************************************)
(* Small instances of the catalog: a table with two movies, room for one   *)
(* or two more ids, and up to four concurrent calls.                       *)
(***************************************************************************)
EXTENDS Catalog

Film(title, year, price, text) ==
    [title |-> title, releaseYear |-> year,
     ticketPrice |-> price, description |-> text]

Dune == Film("Dune", "2021", "12.50", "sand")
Alien == Film("Alien", "1979", "9.00", Null)
Solaris == Film("Solaris", "1972", "9.00", Null)
OldDune == Film("Dune", "1984", "9.00", Null)

MCValues == {"Dune", "Alien", "Solaris", "2021", "1984", "1979", "1972",
             "12.50", "9.00", "sand"}

TwoMovies ==
    [i \in MovieIds |-> CASE i = 1 -> Dune [] i = 2 -> Alien [] OTHER -> NoRow]

Create(movie) == [op |-> "create", movie |-> movie]
Find(id) == [op |-> "findOne", id |-> id]
RemoveId(id) == [op |-> "remove", id |-> id]
Patch(id, changes) == [op |-> "update", id |-> id, changes |-> changes]
All == [op |-> "findAll"]

Title(t) == [col \in {"title"} |-> t]
Year(y) == [col \in {"releaseYear"} |-> y]
Price(p) == [col \in {"ticketPrice"} |-> p]
Text(d) == [col \in {"description"} |-> d]
Nothing == [col \in {} |-> Null]
Rename(t, y) == [col \in KeyColumns |-> IF col = "title" THEN t ELSE y]

(* Two writers of the same new key, one of them by PATCH, against deletes. *)
RaceMenu == [c \in Calls |->
    CASE c = 1 -> {Create(Solaris), Create(Dune)}
      [] c = 2 -> {Create(Solaris), Patch(2, Rename("Solaris", "1972")),
                   Patch(1, Text(Null)), Patch(1, Title(Null)), Patch(1, Nothing),
                   RemoveId(1)}
      [] c = 3 -> {Patch(1, Rename("Solaris", "1972")), Patch(1, Price("9.00")),
                   Patch(3, Title("Dune")), All}
      [] OTHER -> {RemoveId(1), RemoveId(3), Find(1)}]

(* At most one call updates or deletes a movie; any number read or create. *)
PerMovieMenu == [c \in Calls |->
    CASE c = 1 -> {Patch(1, Rename("Solaris", "1972")), Patch(1, Price("9.00")),
                   Patch(1, Year("1984")), Patch(1, Rename(Null, "1984")),
                   Patch(1, Nothing), Patch(9, Text(Null))}
      [] c = 2 -> {Create(Solaris), Create(OldDune), Create(Alien)}
      [] c = 3 -> {RemoveId(2), Patch(2, Title("Dune")), Patch(2, Year("2021")),
                   RemoveId(0)}
      [] OTHER -> {Find(1), Find(2), All, Create(Solaris)}]

(* One PATCH with a null in it. *)
NullMenu == [c \in Calls |->
    CASE c = 1 -> {Patch(1, Title(Null)), Patch(1, Price(Null)), Patch(1, Text(Null))}
      [] OTHER -> {Find(1)}]

(* A PATCH or two against a DELETE. *)
DeleteMenu == [c \in Calls |->
    CASE c = 1 -> {Patch(1, Price("9.00"))}
      [] OTHER -> {RemoveId(1)}]

TwoPatchesMenu == [c \in Calls |->
    CASE c = 1 -> {Patch(1, Price("9.00"))}
      [] OTHER -> {Patch(1, Text(Null))}]
=============================================================================
