SPECIFICATION TamperSpec
CONSTANTS
  NoBody = NoBody
  Body <- MCBody
  Mask <- MCMask
  Key <- MCKey
  AuditKey = "hmac"
  ForgedKeys = {"none"}
  Input = {"plain", "other"}
  InitLen = 4
  MaxLen = 6
INVARIANTS TamperTypeOK ChangeLocated UnhashedIsLate NoFalseAlarm
CHECK_DEADLOCK FALSE
