CONSTANTS
  Open = Open  Closed = Closed  Computer = Computer
  PIDs = {1, 2, 3}
  Maps <- MCMaps
  Observer = 3
  Asked = {50, 55, 100}
  HCLCommands <- MCHCLCommands
SPECIFICATION Spec
INVARIANTS SlotsOK ColoursApart ObserversApart
PROPERTIES HCLDecodes
CHECK_DEADLOCK FALSE
