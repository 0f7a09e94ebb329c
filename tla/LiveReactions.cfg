SPECIFICATION BridgeSpec
CONSTANTS
    Parts = {"live"}
    None = None
    c1 = c1
    c2 = c2
    Chat = {c1, c2}
    Channel = {c1}
    Direct = {c2}
    Scenarios <- MCScenarios
    MaxLosses = 1
    Band = 5
    m1 = m1
    m2 = m2
    NoChat = NoChat
    LiveMessages = {m1, m2}
    ChatOf <- MCChatOf
    MaxBatch = 3
    MaxSeen = 9
    MaxOpen = 2
    MaxChanges = 3
    MaxRepeats = 0
    MaxUnreadable = 0
    r1 = r1
    r2 = r2
    RequestId = {r1, r2}
    MaxOperations = 1
    MaxSends = 3
    Requests = {r1, r2}
    LinkCount = 3
    MaxFaults = 3
    SocketCount = 3
    MaxFailures = 6
INVARIANT ReactionsAnnounced
CHECK_DEADLOCK FALSE
