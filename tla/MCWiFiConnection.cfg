SPECIFICATION FairWiFiSpec
CONSTANTS
  home = home
  moved = moved
  wrong = wrong
  None = None
  Cred = {home, moved, wrong}
INVARIANTS Watched 
PROPERTIES OnlyLoginStrands ComesBack
