SPECIFICATION BridgeSpec
CONSTANTS
    Parts = {"page", "live", "send", "link", "app"}
    None = None
    c1 = c1
    c2 = c2
    Chat = {c1, c2}
    Channel = {c1}
    Direct = {c2}
    Scenarios <- MCScenarios
    MaxLosses = 1
    Band = 5
    m1 = m1
    m2 = m2
    NoChat = NoChat
    LiveMessages = {m1, m2}
    ChatOf <- MCChatOf
    MaxBatch = 3
    MaxSeen = 2
    MaxOpen = 2
    MaxChanges = 3
    MaxRepeats = 1
    MaxUnreadable = 1
    r1 = r1
    r2 = r2
    RequestId = {q1, q2, q3}
    MaxOperations = 2
    MaxSends = 4
    Requests = {r1, r2}
    LinkCount = 3
    MaxFaults = 3
    SocketCount = 3
    MaxFailures = 6
INVARIANTS
    BridgeTypeOK
    SendSlotOwned
    ConfirmedOwn
    NewsComplete
    WrittenOnce
    OneConnection
    Driven
    OneLiveSocket
    ResumeKept
PROPERTIES
    TypedInOwnChat
    AnswersOwn
    RequestsAnswered
    RequestsSettle
    Reconnects
    Connects
CHECK_DEADLOCK FALSE
