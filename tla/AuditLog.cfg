SPECIFICATION FairSpec
CONSTANTS
  w1 = w1
  w2 = w2
  w3 = w3
  Writer = {w1, w2}
  NoWriter = NoWriter
  NoBody = NoBody
  Body <- MCBody
  Mask <- MCMask
  Key <- MCKey
  AuditKey = "none"
  KeyOf <- OneForeignKey
  InitLogs <- OldLogs
  Input = {"plain", "secret"}
  Fault = {"nolock", "noread", "short", "nowrite", "crash"}
  MaxLen = 4
  MaxDamage = 2
INVARIANTS TypeOK ChainInv ChainIntact ForkVisible NoCascade CascadeInv
PROPERTIES RecordsEveryAppend AppendFinishes
CHECK_DEADLOCK FALSE
