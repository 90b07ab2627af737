SPECIFICATION MCSpec
CONSTANTS
    c1 = c1  c2 = c2
    Cleaner = {c1, c2}
    Rows = 3
    PerMonth = 2
    MaxRuns = 4
    Op = {c1, c2}
    Keep = 2
    MaxCalls = 3
    MaxVersion = 2
INVARIANTS ArchiveIsSound BackupIsSound
SYMMETRY Symmetric
CHECK_DEADLOCK FALSE
