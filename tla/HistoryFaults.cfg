SPECIFICATION HistorySpec
CONSTANTS
    NumInts = 2
    NumStrs = 1
    IntDesc <- CrcThenSetting
    StrDesc <- OneString
    StrVal <- AppStrVal
    ZeroStr = "zero"
    FFStr = "ff"
    DataVal <- AppDataVal
    CrcIdx = 0
    Crc <- AppCrc
    HasGap = TRUE
    ErasedByte = "ff"
    TornUnits = {65536}
    TornStr = "torn"
    FaultOps = {"erase", "write"}
    SetInts = {0}
    SetStrs = {"other"}
    NoRom = NoRom
    UseCrc = TRUE
    UseRedundant = TRUE
INVARIANT ValidCopiesAreWhole RecoversAWholeSave
PROPERTY FailedSaveRestoresPools
