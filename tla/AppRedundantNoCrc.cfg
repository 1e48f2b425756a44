SPECIFICATION AppSpec
CONSTANTS
    NumInts = 2
    NumStrs = 1
    IntDesc <- TwoSettings
    StrDesc <- OneString
    StrVal <- AppStrVal
    ZeroStr = "zero"
    FFStr = "ff"
    DataVal <- AppDataVal
    CrcIdx = 2
    Crc <- AppCrc
    HasGap = TRUE
    ErasedByte = "ff"
    TornUnits = {65536}
    TornStr = "torn"
    FaultOps = {"read"}
    SetInts = {0, 1}
    SetStrs = {"other"}
    NoRom = NoRom
    UseCrc = FALSE
    UseRedundant = TRUE
INVARIANT VisibleInRange
PROPERTY IntegersNeverTorn AcknowledgedSurvives SavedIsNotErased
