SPECIFICATION Spec
CONSTANTS
  SlotBits = 5
  DataBits = 3
  MinHalf = 2
  MaxHalf = 5
  MaxSlots = 5
PROPERTY DeliversSamples
CHECK_DEADLOCK FALSE
