SPECIFICATION Spec
CONSTANTS
    None = None
    e1 = e1
    t1 = t1
    m1 = m1
    Persons = {p1, p2}
    Emails = {e1}
    Phones = {t1}
    NebulaIds = {n1, n2}
    Names = {m1}
    Passwords = {w1}
    Handlers = {h1, h2, h3}
    Urls = 2
    AllowLocal = TRUE
    MaxTries = 2
    MaxVersions = 3
    Editions <- MCEditions
SYMMETRY Symmetry
INVARIANTS
    TokenNamesItsOwner
PROPERTIES
    AccountsStayApart
    RowIsOneProfile
CHECK_DEADLOCK FALSE
