SPECIFICATION FairSpec
CONSTANTS
  picker = picker
  scope = scope
  Order <- BothPipes
  Depth = 1
  Consumers = {}
  TargetPipe <- OnMain
  TargetPos <- PickerAndScope
  Bypassing = {}
  Listeners = {}
  Geometry = {TRUE, FALSE}
  MaxEdits = 1
  MaxEvents = 2
INVARIANTS SettledIsNewest
PROPERTIES NewestShown
