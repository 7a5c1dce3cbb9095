SPECIFICATION Spec
CONSTANTS
  Buses = {0, 1, 2}
  MAX_DEVICES_PER_BUS = 2
  MAX_FUNCTIONS_PER_DEVICE = 2
  Computers <- MCComputers
  Entries = 2
  NicLines = {5, 9, 11}
  Bars = {"io", "memory"}
  Firmware <- MCFirmware
INVARIANTS Wired TagsFound PagesOpened FoundAll
CHECK_DEADLOCK FALSE
