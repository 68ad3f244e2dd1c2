SPECIFICATION Spec
CONSTANTS
  Me = me
  Others = {a, b}
  SeatCount = 3
  Builders = {me}
  MaxPieces = 1
  MaxPackets = 1
  MaxRequests = 1
SYMMETRY OtherPlayers
INVARIANTS RoomMirror BoardsMirror ClientAlive
CHECK_DEADLOCK FALSE
