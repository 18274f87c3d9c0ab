SPECIFICATION SwitchSpec
CONSTANTS
  Types = {5, 0}
  Breakpoint = 5
  Configs = {0, 1}
  BpTypes = {1, 2}
  Placeable <- Events
PROPERTY SwitchKeepsRunning
CHECK_DEADLOCK FALSE
