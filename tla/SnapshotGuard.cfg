SPECIFICATION Spec
CONSTANTS
    ct1 = ct1
    ct2 = ct2
    vzdump = vzdump
    daily = daily
    Snap <- TwoGuests
    Vzdump = vzdump
    Caller = {c1, c2}
    Tool = {"pattern", "cleanup", "host_exec"}
    Dataset = {"guest", "unknown", "parent"}
    Nested = FALSE
    RefSets <- SomeRefs
    MaxDelete = 2
    Reused = {vzdump}
INVARIANT TypeOK
PROPERTIES
    SeenIsSpared
    PatternNeverOrphans
SYMMETRY Callers
