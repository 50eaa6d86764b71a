SPECIFICATION Spec
CONSTANTS
  picker = picker
  scope = scope
  Order <- BothPipes
  Depth = 2
  Consumers = {picker}
  TargetPipe <- OnMain
  TargetPos <- PickerAndScope
  Bypassing = {picker}
  Listeners = {}
  Geometry = {TRUE, FALSE}
  MaxEdits = 1
  MaxEvents = 0
INVARIANTS NoChangeForgotten
