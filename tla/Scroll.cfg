SPECIFICATION WindowSpec
CONSTANTS
  Kinds = {"chat", "rooms", "users"}
  ShowLines = 3
  LineHeight = 5
  MaxItems = 8
  Unit = 1680
  Points <- MCPoints
INVARIANTS PageShown StartFollowsThumb
