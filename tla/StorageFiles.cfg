CONSTANTS
    FileCall <- MCFileCall
    MaxFiles = 2
    MaxDeaths = 1
    NoFileRequest = NoFileRequest
SPECIFICATION MCFileSpec
INVARIANTS
    FilesAllOrNothing
    DiskFollowsDocuments
PROPERTIES
    StoredFilesArrive
CHECK_DEADLOCK FALSE
