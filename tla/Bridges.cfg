\* Every component may come to rest: closed, answered, disconnected, or at a bound.
SPECIFICATION Spec
CONSTANTS
    Transport = {t1, t2}
    MaxRegistered = 1
    LateTimeouts = 0
    Faults = {"create", "slowStart", "wait"}
    PoolEndings = 2
    HttpRequests = 2
    HttpBacklog = 1
    MaxPendingHttp = 1
    TcpConnections = 3
    MaxPendingTcp = 1
    MaxAcceptErrors = 2
    PrefixBytes = 2
    HeadBytes = 2
    BodyBytes = 3
    Datagrams = 3
    DatagramSizes = {1, 4, 6}
    UdpHeader = 2
    MaxPayload = 4
    UdpSocketSpace = 2
    MaxChunk = 7
    MaxQueued = 8
    TurnBudget = 9
    Null = Null
    Nop = Nop
    DlSymbols <- MCDlSymbols
    DeprecatedDl = {"Dart_UpdateExternalSize"}
    PostSymbol = "Dart_PostCObject"
    MajorVersion = 2
    VmTables <- MCVmTables
    Posters = {g1, g2}
    MaxBootstraps = 2
    Dialers = {d1, d2, d3}
    Attempts = 2
    StoredKey = {k1, k2}
    Hosts = {"old.ts.net", "new.ts.net"}
    Ports = {443}
    Mounts = {"/", "/api"}
INVARIANTS
    PoolTypeOK
    OwnerIsAddressed
    BridgesTypeOK
    HttpFdsClosedOnce
    HttpNothingLostWhileOpen
    TcpFdsClosedOnce
    TcpNothingLost
    ExBodyExact
    ExCleanEnd
    PublicationsAccounted
    PushesThroughVm
    TermShellFollows
    ListedKeysHaveSecrets
PROPERTIES
    OneOwner
    NoLeak
    AdoptSettles
    ServedStaysKnown
    HttpServerFollows
    HttpRegistryClears
    TcpListenerFollows
    ExSettles
CHECK_DEADLOCK FALSE
