SPECIFICATION FairSpec
CONSTANTS
  w1 = w1
  w2 = w2
  p1 = p1
  p2 = p2
  Desktops = {w1, w2}
  Phones = {p1, p2}
  Scenes <- SomeScenes
  MaxSessions = 2
INVARIANTS TypeOK FreshPairingIsSole
PROPERTIES SilentPhonesDrop DesktopLearns
CHECK_DEADLOCK FALSE
