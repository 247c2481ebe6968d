SPECIFICATION ServicesSpec
CONSTANTS
    Clients = {"c1", "c2"}
    MaxSessions = 1
    MaxTokens = 3
    MaxVersion = 2
    MaxSeconds = 2
    Orgs = {"o1", "o2"}
    Admins = {"a1", "a2"}
    MaxRows = 3
    MaxTransfers = 1
    Hosts = {"o1"}
    Emails = {"e1"}
    Parties = {"p1", "p2"}
    MaxInvites = 2
    Root = "m"
    Agents = {"a1", "a2"}
    Distributors = {"d1"}
    Installers = {"i1"}
    Movers = {"v1", "v2"}
    MaxLimit = 2
    Requests = {"r1", "r2"}
    Callers = {"c1", "c2"}
    MaxVerdicts = 1
    MaxUnderWay = 4
    MaxReports = 2
    MaxMishaps = 2
    Holders = {"h1", "h2"}
    MaxCodes = 2
    MaxAsked = 3
    Clerks = {"k1", "k2"}
    Owners = {"u1", "u2"}
    MaxRevision = 3
    Savers = {"w1", "w2"}
    Instants = {1, 2, 3}
    Energies = {1, 2}
    MaxFacts = 4
    MaxModular = 1
    Ingests = {"i1", "i2"}
    Stations = {"s1", "s2"}
    Times = {1, 2}
    Topologies = {"t1", "t2"}
    MaxMoves = 2
    Serials = {1, 2}
    Boards = {"A", "B"}
    MaxReport = 1
    MaxChanges = 2
    MaxWindows = 1
    Importers = {"i1", "i2"}
    Keys = {"k1"}
    ChunkSize = 1
INVARIANTS
    RedeemedOnce
    ChangeEndsSessions
    TransferIsWhole
    
    LimitsDescend
    StoppedIsConfirmed
    NotifiedOnce
    ShownAsStored
    CommittedIsStored
    ClaimedOnce
    RevisionNamesState
    DerivedAgrees
    RecordIsAudited
    WindowIsLawful
    ImportIsSettled
PROPERTIES
    EndedStaysEnded
    NoLateAccount
    SessionsMoveForward
    SessionsEnd
    ReportsAreStored
    ParallelForward
CHECK_DEADLOCK FALSE
