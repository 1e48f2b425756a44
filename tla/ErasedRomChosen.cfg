SPECIFICATION AppSpec
CONSTANTS
    NumInts = 1
    NumStrs = 1
    IntDesc <- OneSignedSetting
    StrDesc <- OneString
    StrVal <- AppStrVal
    ZeroStr = "zero"
    FFStr = "ff"
    DataVal <- AppDataVal
    CrcIdx = 1
    Crc <- AppCrc
    HasGap = TRUE
    ErasedByte = "ff"
    TornUnits = {}
    TornStr = "torn"
    FaultOps = {}
    SetInts = {0, 1, 2}
    SetStrs = {"other"}
    NoRom = NoRom
    UseCrc = FALSE
    UseRedundant = TRUE
INVARIANT NonErasedRomIsChosen
