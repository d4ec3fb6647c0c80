SPECIFICATION Spec
CONSTANTS
  None = None
  Panels <- TwoTabs
  Points <- FourPoints
  WindowPos <- Home
  Fingers = {0, 1}
  Mouse = TRUE
  MaxEvents = 4
INVARIANTS
  MenuTypeOK
PROPERTIES
  SwitchOncePerPress
  WindowHeld
  MenuSettles
