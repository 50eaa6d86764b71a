SPECIFICATION FairSpec
CONSTANTS
  picker = picker
  scope = scope
  Order <- MainOnly
  Depth = 2
  Consumers = {picker, scope}
  TargetPipe <- OnMain
  TargetPos <- PickerAndScope
  Bypassing = {}
  Listeners = {}
  Geometry = {}
  MaxEdits = 0
  MaxEvents = 1
PROPERTIES WaiterServed
