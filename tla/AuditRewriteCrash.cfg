SPECIFICATION RewriteSpec
CONSTANTS
  w1 = w1
  w2 = w2
  w3 = w3
  NoWriter = NoWriter
  NoBody = NoBody
  Body <- MCBody
  Mask <- MCMask
  Key <- MCKey
  AuditKey = "none"
  Marker = "marker"
  Writer = {w1, w2}
  Rewriter = {w1}
  KeyOf <- SameKey
  InitLogs <- AllLogs
  Input = {"secret"}
  Forces = {FALSE, TRUE}
  Fault = {"short", "noread", "nowrite", "busy", "crash"}
  MaxLen = 5
  MaxDamage = 1
INVARIANTS RewriteTypeOK SecretsGone FirstBreakKept OnlyCopyKept
PROPERTIES ChainSurvives
CHECK_DEADLOCK FALSE
