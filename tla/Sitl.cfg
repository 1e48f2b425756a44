SPECIFICATION Spec
CONSTANTS
    PageSize = 6
    IntSize = 2
    StrSize = 4
    Apps <- SomeApps
    Updates <- SomeUpdates
    SetInts <- SomeInts
    QuotedStr = "quoted"
    NumberedStr = "numbered"
    LineInt = 2
    NamedStr = "named"
    NoFile = NoFile
INVARIANT TypeOK ReloadAgreesWithRestart DefaultsSplitAsWritten
PROPERTY AcknowledgedIsInFiles BootLoadsFiles IntegersStayInPlace UpdateKeepsParameters SaveTerminates
