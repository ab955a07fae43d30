CONSTANTS
  Keys = {fault, offline}
  Threads = {gui, io}
  Gui = gui
  Priorities = {1}
  HistoryCapacity = 1
  MaxShelf = 1
SPECIFICATION Spec
INVARIANTS OneRowPerKey StateMatchesCondition PanelCurrentWhenQuiet
PROPERTIES NothingVanishesUnseen ShelfExpires
