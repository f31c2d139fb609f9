CONSTANTS
    Meta <- MCMeta
    ContainersOf <- MCContainersOf
    Namespace <- MCNamespace
    RestartThreshold = 0
    MaxRestarts <- MCMaxRestarts
    RawFiles <- MCRawFiles
    PromArgs <- MCPromArgs
SPECIFICATION Spec
INVARIANTS
    TypeOK
    SuspicionHasCause
    SourcesShareKeys
    OutputKeepsRules
PROPERTIES
    OomOutlivesRestart
    RenormalizingChangesNothing
    WindowIsWholeOrRefused
