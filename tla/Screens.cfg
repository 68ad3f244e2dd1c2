SPECIFICATION FairSpec
CONSTANTS
  Rooms = {open, locked}
  Private = {locked}
  Users = {ann}
  MaxRequests = 2
  MaxPackets = 1
  MaxWindows = 3
  None = None
INVARIANTS WindowsUsable ClientFollowsServer
PROPERTY PlaceIsShown
CHECK_DEADLOCK FALSE
