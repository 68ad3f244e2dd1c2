SPECIFICATION FairStream
CONSTANTS
    Traffic <- MCTraffic
    Chunks = {1, 2, 3, 4, 5, 6, 7, 8}
    BUF_SIZE = 9
    MaxQueue = 2
    NoPacket = NoPacket
INVARIANTS StreamSound
PROPERTIES Implements AllHandled
