SPECIFICATION FairSpec
CONSTANTS
  Period = 1
  Silence = 1
  Cooldown = 2
  Window = 5
  Attempts = 2
  MaxUpsets = 1
PROPERTIES DownIsHandled
