SPECIFICATION SessionSpec
CONSTANTS
    FlashStart = 120
    IntSize = 2
    StrSize = 8
    EraseChunk = 3
    HalfWord = 65536
    NoRom = NoRom
    Apps <- AllApps
INVARIANT TypeOK WritableMeansErased WordsAlignedAndErased SavedReadsBack
PROPERTY OnlyRegionChanges ErrorStopsDriver SessionImplementsStorage
