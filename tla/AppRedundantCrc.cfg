SPECIFICATION AppSpec
CONSTANTS
    NumInts = 2
    NumStrs = 1
    IntDesc <- CrcThenSetting
    StrDesc <- OneString
    StrVal <- AppStrVal
    ZeroStr = "zero"
    FFStr = "ff"
    DataVal <- AppDataVal
    CrcIdx = 0
    Crc <- AppCrc
    HasGap = TRUE
    ErasedByte = "ff"
    TornUnits = {65536}
    TornStr = "torn"
    FaultOps = {}
    SetInts = {0, 1, 2}
    SetStrs = {"other"}
    NoRom = NoRom
    UseCrc = TRUE
    UseRedundant = TRUE
PROPERTY ImplementsAtomicStore BootLoadsRecovered CrcValidAfterSave
