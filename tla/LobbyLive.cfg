SPECIFICATION FairSpec
CONSTANTS
    Slots = {s1, s2}
    MaxConnections = 2
    RoomIndices = {i1}
    RoomKeys = {r1}
    NoRoom = NoRoom
    NoIndex = NoIndex
    NoKey = NoKey
    Seats <- MCSeats
    MaxRequests = 0
    LobbyThreads = {l1}
    GameThreads = {g1}
PROPERTIES
    DisconnectCompletes
    RequestAnswered
    RoomDeleted
CHECK_DEADLOCK FALSE
