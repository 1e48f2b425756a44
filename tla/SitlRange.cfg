SPECIFICATION Spec
CONSTANTS
    PageSize = 6
    IntSize = 2
    StrSize = 4
    Apps <- RangeApps
    Updates <- RangeUpdates
    SetInts <- SomeInts
    QuotedStr = "quoted"
    NumberedStr = "numbered"
    LineInt = 2
    NamedStr = "named"
    NoFile = NoFile
PROPERTY BootLoadsFiles
