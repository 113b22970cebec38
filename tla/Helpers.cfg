SPECIFICATION HelpersSpec
CONSTANTS
    PageSize = 4096
    DioArgs <- MCDioArgs
    Formats <- MCFormats
    Places = {1, 128}
    SgArgs <- MCSgArgs
    Resid = {0, 6, 512}
    PciArgs <- MCPciArgs
    RegValues = {0, 1}
    IntMax = 131071
    MaxItems = 4
    Loops = 3
    LbaFormats <- MCLbaFormats
INVARIANTS
    DioInBounds
    DioVerdictFair
    DioCorruptionSeen
    MetaInBounds
    MetaFaultsSeen
    MetaVerdictFair
    SgCommandExact
    SgSendsInput
    SgShowsData
    PciMapped
    PciDumpFaithful
    RoundsApart
    PassthruInBounds
    PassthruFair
    UringCleanExit
CHECK_DEADLOCK FALSE
