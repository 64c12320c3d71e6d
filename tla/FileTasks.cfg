SPECIFICATION Spec
CONSTANTS
    Row <- Rows
    created_at <- CreatedAt
    PageSize = 2
    MaxMoves = 2
    Report = {report}
    Export = {export}
    Import = {import}
    ExpiresDays = 7
    OLD_FILES_MAX_AGE_DAYS = 30
    MaxFailures = 1
INVARIANT TypeOK
INVARIANT FewMissed
INVARIANT FewRepeated
INVARIANT LinksAlive
PROPERTY CleanupThorough
CHECK_DEADLOCK FALSE
