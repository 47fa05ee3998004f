\* Three frames of one paper, one series, one crash.
SPECIFICATION FairArchiveSpec
CONSTANTS
    a = a
    b = b
    c = c
    Scans = {a, b, c}
    Series = {"page"}
    Paper <- MCPaper
    Ident <- MCIdent
    Known <- MCKnown
    Score <- MCScore
    MinScore = 1
    MaxCrashes = 1
    MaxPrunings = 1
    MaxOld = 1
    NoHolder = NoHolder
INVARIANTS
    OneRecordPerPaper
    RecordsHaveTheirPdf
    ReplacingKeepsFields
    FramesOfRecordsStay
PROPERTIES
    DuplicatesAreKept
    RequestsEnd
CHECK_DEADLOCK FALSE
