SPECIFICATION FairSpec
CONSTANTS
  plc = plc
  motor = motor
  none = none
  mine = mine
  other = other
  Devices <- MCDevices
  Motors <- MCMotors
  Values = {0, 1}
  Initial = 0
  NoDevice = none
  Page = mine
  Other = other
  MaxClicks = 3
  MaxChanges = 1
  MaxOther = 1
INVARIANTS LastClickShown

CHECK_DEADLOCK FALSE
