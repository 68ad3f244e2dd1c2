SPECIFICATION Spec
CONSTANTS
    Slots = {s1, s2}
    MaxConnections = 2
    RoomIndices = {i1}
    RoomKeys = {r1}
    NoRoom = NoRoom
    NoIndex = NoIndex
    NoKey = NoKey
    Seats <- MCSeats
    MaxRequests = 1
    LobbyThreads = {l1, l2}
    GameThreads = {g1}
SYMMETRY Symmetry
INVARIANTS OneHolder RoomsConsistent OneTransition Reachable DisconnectPending LobbyForgets DeletesOwnRoom
CHECK_DEADLOCK FALSE
