SPECIFICATION MiniAppSpec
CONSTANTS
    Parts = {"notifications"}
    a = a
    b = b
    p1 = p1
    p2 = p2
    NoRoom = NoRoom
    NoPost = NoPost
    NoReply = NoReply
    Room = {a, b}
    Post = {p1, p2}
    RoomOf <- MCRoomOf
    FirstRooms = {a}
    FirstPosts = {p1}
    MaxActs = 2
    MaxNews = 1
    Xs <- MCXs
    Ys <- MCYs
    Folders = 2
    MaxContacts = 2
    PlacesX <- MCPlacesX
    PlacesY <- MCPlacesY
    MediaCount = 2
    Video = {2}
    MaxOpenings = 2
    MaxTouches = 2
    Phones = {a}
    MaxFailures = 2
    WindowTicks = 0
    LockTicks = 2
    Parallel = 2
    MaxAttempts = 4
    LastClock = 2
    MaxTouching = 3
    MaxQueued = 4
    MaxSpoilt = 1
    Serving = {a, b}
    MaxServed = 2
    MaxShutdowns = 1
    Newcomers = {a}
    IdleTicks = 1
    InitTicks = 1
    LastTick = 2
    MaxStarts = 2
    MaxPresses = 2
    MaxBotFaults = 1
    MaxSignIns = 2
    n1 = n1
    n2 = n2
    d1 = d1
    d2 = d2
    News = {n1, n2}
    NewsChat <- MCNewsChat
    RecentLimit = 1
    MutedLimit = 1
    MaxChangesOfMind = 1
    MaxRevisions = 0
    MaxReopenings = 1
    MaxApiStarts = 2
    MaxRefusals = 0
INVARIANT Announced
CHECK_DEADLOCK FALSE
