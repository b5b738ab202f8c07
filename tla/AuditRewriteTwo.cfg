SPECIFICATION RewriteSpec
CONSTANTS
  w1 = w1
  w2 = w2
  w3 = w3
  NoWriter = NoWriter
  NoBody = NoBody
  Body <- MCBody
  Mask <- MCMask
  Key <- MCKey
  AuditKey = "none"
  Marker = "marker"
  Writer = {w1, w2}
  Rewriter = {w1, w2}
  KeyOf <- SameKey
  InitLogs <- IntactLogs
  Input = {"plain"}
  Forces = {FALSE}
  Fault = {"crash"}
  MaxLen = 5
  MaxDamage = 1
INVARIANTS OnlyCopyKept
CHECK_DEADLOCK FALSE
