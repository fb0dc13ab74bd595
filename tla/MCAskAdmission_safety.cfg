SPECIFICATION Spec
CONSTANTS
  Requests = {r1, r2, r3}
  Shapes <- PathShapes
  Capacity <- SmallCapacity
  Workers = 3
  MaxEmbeds = 0
  Limit = 1
  MaxFaults = 1
SYMMETRY Symmetric
INVARIANTS
  SlotsFollowTasks
  ChargesFollowTasks
  LiveTaskHoldsSlots
  AnsweredTurnStored
PROPERTIES
  ImplementsPools
