SPECIFICATION Spec
CONSTANTS
    Batch <- MCBatch
    Links <- MCLinks
    Rule <- MCRule
    Categories <- MCCategories
    Uncategorized = 3
    StaleIds <- MCStaleIds
    Tags = {g1, g2}
    g1 = g1 g2 = g2
    Internal = Internal
    None = None
    Absent = Absent
SYMMETRY SameTags
CONSTRAINT TagsAndImports
INVARIANTS
    OneVerdict
    PendingIsQueued
    PairedApart
    PathsAgree
PROPERTIES
    DecisionKept
    DecidedNotQueued
