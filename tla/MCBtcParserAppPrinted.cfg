SPECIFICATION Spec
CONSTANTS
    Entries <- MCEntries
    DatFiles <- MCDatFiles
    Paths <- MCPaths
    Folders <- MCFolders
    BlockDir = "blocks"
    OutDir = "out"
    ConfigFile = "config.json"
    Keys <- MCKeys
    Settings <- MCSettings
    Contents <- MCContents
    Rooms = {1, 5}
    MaxRemovals = 1
    MaxRuns = 2
INVARIANTS
    ReportedMeansPrinted
CHECK_DEADLOCK FALSE
