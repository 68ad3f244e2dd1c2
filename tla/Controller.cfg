SPECIFICATION FairSpec
CONSTANTS
  Arrows = {"LEFT"}
  First = 5
  Delay = 2
  Steps = {1, 2}
INVARIANTS PressedIsHeld
PROPERTIES FreshKeyMoves RepeatsSpaced HeldKeyRepeats
CHECK_DEADLOCK FALSE
