SPECIFICATION MCSpec
CONSTANTS
    Bodies <- MCBodies
    Statements = {"select", "selectParen", "two", "write", "blank"}
    MaxCalls = 2
    MaxWrites = 2
    MaxColumns = 1
    TextArgs = {"", "c"}
    IntArgs = {2, 3}
    ListArgs <- MCUpdates
    TimeArgs = {3}
    Names = {"", "n"}
    IdLists <- MCLists
    MaxTime = 3
    Scopes <- MCScopes
INVARIANTS
    TypeOK
    NativeColumnsCompare
    DeviationsAreIssues
    BuilderTypeOK
    NodeTellsRow
    OldValuesAgree
    RepositoryTypeOK
PROPERTIES
    LastWordWins
    ImplementsStore
CHECK_DEADLOCK FALSE
