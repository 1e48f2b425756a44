SPECIFICATION FairSpec
CONSTANTS
    NumInts = 1
    NumStrs = 1
    IntDesc <- OneSetting
    StrDesc <- OneString
    StrVal <- AppStrVal
    ZeroStr = "zero"
    FFStr = "ff"
    DataVal <- AppDataVal
    CrcIdx = 1
    Crc <- AppCrc
    HasGap = TRUE
    ErasedByte = "ff"
    TornUnits = {65536}
    TornStr = "torn"
    FaultOps = {"unlock", "erase", "write"}
    SetInts = {0, 2}
    SetStrs = {"other"}
    NoRom = NoRom
INVARIANT TypeOK ProgramsErasedFlash OnlyTargetWritable NewCopyCompleteBeforeOldErased
PROPERTY ActiveCopyNeverTouched AcknowledgedMeansStored AcknowledgedMeansLocked
PROPERTY RechoiceKeepsActive SaveTerminates
