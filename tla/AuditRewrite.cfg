SPECIFICATION FairRewriteSpec
CONSTANTS
  w1 = w1
  w2 = w2
  w3 = w3
  NoWriter = NoWriter
  NoBody = NoBody
  Body <- MCBody
  Mask <- MCMask
  Key <- MCKey
  AuditKey = "none"
  Marker = "marker"
  Writer = {w1, w2}
  Rewriter = {w1, w2}
  KeyOf <- SameKey
  InitLogs <- AllLogs
  Input = {"plain", "secret"}
  Forces = {FALSE}
  Fault = {"busy", "noread", "nowrite"}
  MaxLen = 5
  MaxDamage = 1
PROPERTIES RewriteKeepsTrail RewriteFinishes
CHECK_DEADLOCK FALSE
