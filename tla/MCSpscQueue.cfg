CONSTANTS
  Items = {x, y}
  NoItem = NoItem
  Capacity = 4
  IndexMod = 8
SPECIFICATION Spec
INVARIANTS NoSlotRace AdvisorySizeBounded
PROPERTY ImplementsFifo
