SPECIFICATION FairSpec
CONSTANTS
  Requests = {r1, r2}
  Shapes <- LivenessShapes
  Capacity <- SmallCapacity
  Workers = 2
  MaxEmbeds = 1
  Limit = 2
  MaxFaults = 0
PROPERTIES
  EveryRequestEnds
  SlotsComeBack
