SPECIFICATION FairSpec
CONSTANTS
    Calls = {1, 2, 3}
    Menu <- AccountMenu
    Emails <- MCEmails
    Canon <- MCCanon
    Passwords = {"p1", "p2"}
    Environments <- ChangingEnvironments
    NoAdmin = NoAdmin
    NoUser = NoUser
    UserIdMax = 3
    MaxCrashes = 2
INVARIANTS TypeOK EmailUnique AdminsAreConfigured TokenTruthful AdminReady
PROPERTIES RegisteredCanLogIn EventuallyListening
