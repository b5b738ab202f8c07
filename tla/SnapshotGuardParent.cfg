SPECIFICATION Spec
CONSTANTS
    ct1 = ct1
    ct2 = ct2
    vzdump = vzdump
    daily = daily
    Snap <- OneGuest
    Vzdump = vzdump
    Caller = {c1}
    Tool = {"host_exec"}
    Dataset = {"guest", "unknown", "parent"}
    Nested = TRUE
    RefSets <- OneRef
    MaxDelete = 2
    Reused = {vzdump}
CHECK_DEADLOCK FALSE
PROPERTIES
    SeenIsSpared
