---- MODULE StorageHistoryProofs ----
(***************************************************************************)
(* Theorems of StorageHistory: what a matching checksum proves, what a     *)
(* boot recovers and what a failed save leaves in the pools, whichever     *)
(* operations fail and wherever power is lost.                             *)
(***************************************************************************)
EXTENDS StorageHistory, StorageAppProofs

\* The history variables do not restrict the application.
LEMMA HistoryIsOfApp == HistorySpec => AppSpec
<1>1. HistoryInit => AppInit
  BY DEF HistoryInit
<1>2. [HistoryNext]_historyVars => [AppNext]_appVars
  BY DEF HistoryNext, historyVars
<1> QED
  BY <1>1, <1>2, PTL DEF HistorySpec, AppSpec

----------------------------------------------------------------------------
(* What a failed save leaves in the pools                                  *)

\* The pools are as they were when paramsSave was called, but for the CRC
\* cell between its two writes, and nothing fails once the regions are
\* switched.
CallInv ==
    /\ pc \in {"begin", "ints"} => Pools = called
    /\ pc = "strs" => called = [ints |-> CrcRestored(ints, stored_crc), strs |-> strs]
    /\ pc = "end" /\ res # "OK" => Pools = called
    /\ pc \in {"begin", "ints", "strs", "begin_old", "end_old"} => res = "OK"

LEMMA CallStep ==
    ASSUME TypeOK, CallInv, HistoryNext
    PROVE  CallInv'
<1>0. AppNext /\ called' = (IF SaveStarts THEN Pools
                            ELSE IF pc' = "idle" THEN ErasedContent ELSE called)
  BY DEF HistoryNext
<1>1. CASE pc' = "idle"
  BY <1>1 DEF CallInv
<1>2. CASE Save /\ pc' # "idle"
  <2>1. pc = "idle" /\ pc' = "begin" /\ res' = "OK" /\ UNCHANGED <<ints, strs>>
    BY <1>2 DEF Save, ParamsSave, Return, pools
  <2>2. called' = Pools
    BY <1>0, <2>1 DEF SaveStarts
  <2> QED
    BY <2>1, <2>2 DEF CallInv, Pools
<1>3. CASE ContinueSave /\ pc' # "idle"
  <2>1. SaveStep /\ called' = called
    BY <1>0, <1>3 DEF ContinueSave, SaveStep, SaveStarts, BeginWrite, WriteInts, WriteStrs,
       EndWrite, EraseOld, EndOld
  <2>2. CASE BeginWrite
    BY <2>1, <2>2 DEF BeginWrite, Goto, pools, CallInv, Pools
  <2>3. CASE WriteInts
    <3>1. pc = "ints" /\ Pools = called /\ res = "OK" /\ UNCHANGED <<strs, crc_enabled>>
      BY <2>3 DEF WriteInts, CallInv, config
    <3>2. PoolWithCrc \in IntPool /\ CrcRestored(PoolWithCrc, StoredCrc) = ints
      BY PoolsOfSaveType
    <3>3. CASE ints' = PoolWithCrc /\ stored_crc' = StoredCrc /\ pc' = "strs" /\ UNCHANGED res
      <4>1. CrcRestored(ints, stored_crc)' = CrcRestored(PoolWithCrc, StoredCrc)
        BY <3>1, <3>3 DEF CrcRestored, CrcInUse
      <4> QED
        BY <2>1, <3>1, <3>2, <3>3, <4>1 DEF CallInv, Pools
    <3>4. CASE /\ ints' = CrcRestored(PoolWithCrc, StoredCrc)
               /\ pc' = "end" /\ res' = WriteError
      BY <2>1, <3>1, <3>2, <3>4 DEF CallInv, Pools
    <3> QED
      BY <2>3, <3>3, <3>4 DEF WriteInts, AfterWriteError
  <2>4. CASE WriteStrs
    <3>1. /\ pc = "strs" /\ called = [ints |-> CrcRestored(ints, stored_crc), strs |-> strs] /\ res = "OK"
          /\ UNCHANGED strs /\ pc' = "end"
      BY <2>4 DEF WriteStrs, CallInv, AfterWriteError
    <3>2. res' = "OK" \/ ints' = CrcRestored(ints, stored_crc)
      BY <2>4, <3>1 DEF WriteStrs
    <3> QED
      BY <2>1, <3>1, <3>2 DEF CallInv, Pools
  <2>5. CASE EndWrite
    BY <1>3, <2>1, <2>5 DEF EndWrite, SwitchesRoms, Goto, Return, CallInv
  <2>6. CASE EraseOld
    BY <2>6 DEF EraseOld, Goto, CallInv
  <2>7. CASE EndOld
    BY <1>3, <2>7 DEF EndOld, Return
  <2> QED
    BY <2>1, <2>2, <2>3, <2>4, <2>5, <2>6, <2>7 DEF SaveStep
<1>4. CASE pc' # "idle" /\ ~Save /\ ~ContinueSave
  BY <1>0, <1>4 DEF AppNext, BootInit, BootEnableCrc, BootInitRedundantPage, BootLoad, Edit,
     LosePower, ParamsInit, ParamsEnableCrc, ParamsInitRedundantPage, ParamsLoad,
     ParamsSetIntegerValue, ParamsSetStringValue, ParamsResetToDefault, Return, PowerLoss, Reset,
     call
<1> QED
  BY <1>1, <1>2, <1>3, <1>4

\* A paramsSave that fails leaves the pools as they were when it was called:
\* each error path of _save restores the CRC cell.  No assumption.
THEOREM FailedSaveKeepsPools == HistorySpec => FailedSaveRestoresPools
<1>1. HistoryInit => CallInv
  BY DEF HistoryInit, AppInit, Init, VolatileInit, CallInv
<1>2. TypeOK /\ CallInv /\ [HistoryNext]_historyVars => CallInv'
  <2>1. CallInv /\ UNCHANGED historyVars => CallInv'
    BY DEF historyVars, appVars, vars, pools, config, call, CallInv, Pools, CrcRestored,
       CrcInUse
  <2> QED
    BY <2>1, CallStep
<1>3. ASSUME CallInv, HistoryNext, SaveReturns, res' # "OK"
      PROVE  Pools' = called
  <2>1. pc # "idle" /\ pc' = "idle" /\ active_rom' # NoRom
    BY <1>3 DEF SaveReturns
  <2>2. ~(BootInit \/ BootEnableCrc \/ BootInitRedundantPage \/ BootLoad \/ Edit \/ Save)
    BY <2>1 DEF BootInit, BootEnableCrc, BootInitRedundantPage, BootLoad, Edit, Save, ParamsInit,
       ParamsEnableCrc, ParamsInitRedundantPage, ParamsLoad, ParamsSetIntegerValue,
       ParamsSetStringValue, ParamsResetToDefault, ParamsSave
  <2>3. ~(LosePower \/ BeginWrite \/ WriteInts \/ WriteStrs \/ EraseOld)
    BY <2>1 DEF LosePower, PowerLoss, Reset, BeginWrite, WriteInts, WriteStrs, EraseOld, Goto,
       AfterWriteError
  <2>4. EndWrite \/ EndOld
    BY <1>3, <2>2, <2>3 DEF HistoryNext, AppNext, ContinueSave, SaveStep
  <2>5. res' = res /\ UNCHANGED <<ints, strs>> /\ pc \in {"end", "end_old"}
    BY <2>1, <2>4 DEF EndWrite, EndOld, Goto, Return, pools
  <2> QED
    BY <1>3, <2>5 DEF CallInv, Pools
<1>4. CallInv /\ [HistoryNext]_historyVars
          => [SaveReturns /\ res' # "OK" => Pools' = called]_historyVars
  BY <1>3
<1> QED
  BY <1>1, <1>2, <1>4, HistoryIsOfApp, AppIsAClient, TypeCorrect, PTL
     DEF HistorySpec, FailedSaveRestoresPools

----------------------------------------------------------------------------
(* What a matching checksum proves                                         *)

WrittenType == written \in [Roms -> Content]

\* A region can be written only with what its session was opened for.
SessionWrites == pc = "ints" /\ Writable(Target) => written[Target] = Pools

\* The CRC cell of a region holds what erases left of the checksum of its
\* last write session, if that was ever written.
StoredChecksum ==
    UseCrc => \A r \in Roms : CellLeft(flash[r].ints[CrcIdx], Crc(Key(written[r])))

\* And that session wrote integers that are in range.
SavedInRange ==
    UseCrc => \A r \in Roms : \/ flash[r].ints[CrcIdx] < 0
                              \/ \A i \in IntIdx : InRange(i, written[r].ints[i])

WrittenInv == WrittenType /\ SessionWrites /\ StoredChecksum /\ SavedInRange

HInv ==
    /\ IInv /\ AppInv /\ Opened /\ WrittenInv
    /\ boot = "init" => standby_rom = NoRom

\* The start of a write session: the region is erased, and what was written
\* there before is of no interest.
LEMMA SessionOpensStep ==
    ASSUME TornSavesAreDetected, HInv, HistoryNext, SessionOpens, rom[Target].inited
    PROVE  WrittenInv'
<1>0. /\ TypeOK /\ Pointers /\ OnlyTargetWritable /\ AppNext
      /\ pc = "begin" /\ pc' = "ints" /\ ErasedInt = -1
  BY DEF HInv, IInv, HistoryNext, SessionOpens, TornSavesAreDetected, ErasedInt
<1>1. PICK r \in Roms : r = Target
  BY <1>0, TargetIsRom
<1>2. BeginWrite
  BY <1>0, SessionBegins
<1>3. UNCHANGED <<ints, strs, active_rom, standby_rom>> /\ Target' = r /\ Pools' = Pools
  BY <1>1, <1>2 DEF BeginWrite, pools, Target, Pools
<1>4. /\ \A q \in Roms \ {r} : flash'[q] = flash[q]
      /\ rom'[r].inited = rom[r].inited
      /\ Writable(r)' => Writable(r) \/ flash'[r] = ErasedContent
  <2>1. (standby_rom = NoRom \/ rom[r].erased) \in BOOLEAN
    BY <1>0, <1>1 DEF TypeOK, RomState
  <2> QED
    BY <1>0, <1>1, <1>2, <2>1, RomBeginWriteEffect DEF BeginWrite
<1>5. Writable(r)' /\ ~Writable(r)
  BY <1>0, <1>1, <1>4 DEF SessionOpens, Writable, OnlyTargetWritable
<1>6. flash'[r] = ErasedContent
  BY <1>4, <1>5
<1>7. written' = [written EXCEPT ![r] = Pools] /\ Pools \in Content
  BY <1>0, <1>1 DEF HistoryNext, Pools, Content, TypeOK
<1>8. WrittenType /\ StoredChecksum /\ SavedInRange
  BY DEF HInv, WrittenInv
<1>9. WrittenType' /\ SessionWrites'
  BY <1>3, <1>7, <1>8 DEF WrittenType, SessionWrites
<1>10. ASSUME UseCrc, NEW q \in Roms
       PROVE  /\ CellLeft(flash'[q].ints[CrcIdx], Crc(Key(written'[q])))
              /\ \/ flash'[q].ints[CrcIdx] < 0
                 \/ \A i \in IntIdx : InRange(i, written'[q].ints[i])
  <2>1. CASE q = r
    <3>1. flash'[q].ints[CrcIdx] = -1
      BY <1>0, <1>6, <1>10, <2>1, AppAssumption DEF ErasedContent
    <3> QED
      BY <3>1 DEF CellLeft
  <2>2. CASE q # r
    <3>1. flash'[q] = flash[q] /\ written'[q] = written[q]
      BY <1>4, <1>7, <1>8, <2>2 DEF WrittenType
    <3> QED
      BY <1>8, <1>10, <3>1 DEF StoredChecksum, SavedInRange
  <2> QED
    BY <2>1, <2>2
<1> QED
  BY <1>9, <1>10 DEF WrittenInv, StoredChecksum, SavedInRange

\* Every other step leaves less of the stored checksum, or writes it.
LEMMA WrittenStep ==
    ASSUME TornSavesAreDetected, HInv, HistoryNext, written' = written,
           ~(SessionOpens /\ rom[Target].inited)
    PROVE  WrittenInv'
<1>0. /\ TypeOK /\ Pointers /\ OnlyTargetWritable /\ AppNext /\ Booted /\ Opened /\ PoolInRange
      /\ ErasedByte = "ff" /\ ErasedInt = -1 /\ TornChecksumsMatchNothing
      /\ WrittenType /\ SessionWrites /\ StoredChecksum /\ SavedInRange
  BY DEF HInv, IInv, AppInv, WrittenInv, HistoryNext, TornSavesAreDetected, ErasedInt
<1>1. SessionWrites'
  <2> SUFFICES ASSUME pc' = "ints" PROVE ~Writable(Target)'
    BY DEF SessionWrites
  <2>1. BeginWrite /\ pc = "begin"
    BY <1>0, SessionBegins DEF BeginWrite
  <2>2. PICK r \in Roms : r = Target
    BY <1>0, <2>1, TargetIsRom
  <2>3. Target' = r
    BY <2>1, <2>2 DEF BeginWrite, Target
  <2>4. rom'[r].inited = rom[r].inited /\ rom' \in [Roms -> RomState]
    <3>1. (standby_rom = NoRom \/ rom[r].erased) \in BOOLEAN
      BY <1>0, <2>2 DEF TypeOK, RomState
    <3> QED
      BY <1>0, <2>1, <2>2, <3>1, RomBeginWriteEffect DEF BeginWrite
  <2>5. ~rom[r].inited \/ rom'[r].write_protected
    BY <2>1, <2>2 DEF SessionOpens
  <2> QED
    BY <2>3, <2>4, <2>5 DEF Writable
<1>2. ASSUME UseCrc, NEW r \in Roms
      PROVE  /\ CellLeft(flash'[r].ints[CrcIdx], Crc(Key(written[r])))
             /\ \/ flash'[r].ints[CrcIdx] < 0
                \/ \A i \in IntIdx : InRange(i, written[r].ints[i])
  <2> DEFINE x == flash[r].ints[CrcIdx]
             y == flash'[r].ints[CrcIdx]
             k == Crc(Key(written[r]))
  <2>1. CrcIdx \in IntIdx /\ flash[r] \in Content /\ x \in Int /\ k \in Nat /\ CellLeft(x, k)
    <3>1. CrcIdx \in IntIdx /\ flash[r] \in Content
      BY <1>0, <1>2, AppAssumption DEF TypeOK
    <3>2. x \in Int
      BY <3>1 DEF Content, IntPool
    <3> QED
      BY <1>0, <1>2, <3>1, <3>2, KeyType DEF WrittenType, StoredChecksum
  <2>2. CASE flash'[r] = flash[r]
    BY <1>0, <1>2, <2>2 DEF StoredChecksum, SavedInRange
  <2>3. CASE r = Target /\ flash'[r] \in CutShort(r) /\ pc \in {"begin", "begin_old"}
             /\ rom[r].inited
    <3>1. flash'[r] \in PartialErases(flash[r])
      BY <2>3 DEF CutShort
    <3>2. y = x \/ y = ErasedInt \/ \E u \in TornUnits : y = HalfErasedInt(x, u)
      BY <2>1, <3>1, PartialErasesCells
    <3> HIDE DEF x, y, k
    <3>3. CellLeft(y, k)
      BY <1>0, <2>1, <3>2, CellLeftErased
    <3>4. x < 0 => y < 0
      BY <1>0, <2>1, <3>2, HalfErasedBounds
    <3> QED
      BY <1>0, <1>2, <3>3, <3>4 DEF SavedInRange, x, y, k
  <2>4. CASE r = Target /\ flash'[r] \in CutShort(r) /\ pc = "ints" /\ Writable(r)
    <3>1. flash'[r] \in PartialIntWrites(flash[r], PoolWithCrc)
      BY <2>4 DEF CutShort
    <3>2. y = x \/ y = PoolWithCrc[CrcIdx]
          \/ \E u \in TornUnits : y = TornInt(PoolWithCrc[CrcIdx], u)
      BY <1>0, <2>1, <3>1, PartialIntWritesCells, PoolsOfSaveType
    <3>3. written[r] = Pools /\ PoolWithCrc[CrcIdx] = k /\ CrcInUse
      BY <1>0, <1>2, <2>4, SavedChecksum DEF SessionWrites
    <3>4. \A i \in IntIdx : InRange(i, written[r].ints[i])
      BY <1>0, <2>4, <3>3 DEF PoolInRange, Booted, Pools
    <3> HIDE DEF x, y, k
    <3>5. CellLeft(y, k)
      BY <2>1, <3>2, <3>3, TornIntIsNegative DEF CellLeft
    <3> QED
      BY <3>4, <3>5 DEF y, k
  <2>5. CASE r = Target /\ flash'[r] \in CutShort(r) /\ pc = "strs" /\ Writable(r)
    <3>1. flash'[r] \in PartialStrWrites(flash[r], strs) /\ strs \in StrPool
      BY <1>0, <2>5 DEF CutShort, TypeOK
    <3>2. y = x
      BY <2>1, <3>1, PartialStrWritesCells
    <3> QED
      BY <1>0, <1>2, <2>1, <3>2 DEF SavedInRange
  <2>6. flash'[r] = flash[r] \/ (r = Target /\ flash'[r] \in CutShort(r))
    BY <1>0, AppStepIsStep, FlashStep DEF HInv, appVars, vars, device
  <2> QED
    BY <2>2, <2>3, <2>4, <2>5, <2>6 DEF CutShort
<1> QED
  BY <1>0, <1>1, <1>2 DEF WrittenInv, WrittenType, StoredChecksum, SavedInRange

LEMMA HInvStep ==
    ASSUME TornSavesAreDetected, HInv, [HistoryNext]_historyVars
    PROVE  HInv'
<1>1. CASE HistoryNext
  <2>1. AppNext /\ DefaultsInRange /\ CrcCellAcceptsCrc /\ IInv /\ AppInv /\ Booted /\ Opened
    BY <1>1 DEF HistoryNext, TornSavesAreDetected, HInv, AppInv
  <2>2. IInv'
    BY <2>1, AppStepIsStep, NextInv
  <2>3. AppInv' /\ Opened'
    BY <2>1, BootedStep, PoolInRangeStep, OpenedStep DEF AppInv
  <2>4. WrittenInv'
    <3>1. CASE SessionOpens /\ rom[Target].inited
      BY <1>1, <3>1, SessionOpensStep
    <3>2. CASE ~(SessionOpens /\ rom[Target].inited)
      <4>1. written' = written
        BY <1>1, <3>2 DEF HistoryNext
      <4> QED
        BY <1>1, <3>2, <4>1, WrittenStep
    <3> QED
      BY <3>1, <3>2
  <2>5. boot' = "init" => standby_rom' = NoRom
    <3>1. boot' = "init" => LosePower \/ (ContinueSave /\ boot = "init")
      BY <2>1 DEF AppNext, BootInit, BootEnableCrc, BootInitRedundantPage, BootLoad, Edit, Save,
         ContinueSave, AfterCrc
    <3>2. boot = "init" => ~SaveStep
      BY <2>1 DEF Booted, SaveStep, BeginWrite, WriteInts, WriteStrs, EndWrite, EraseOld, EndOld
    <3> QED
      BY <3>1, <3>2 DEF LosePower, PowerLoss, Reset, ContinueSave
  <2> QED
    BY <2>2, <2>3, <2>4, <2>5 DEF HInv
<1>2. CASE UNCHANGED historyVars
  <2>1. UNCHANGED <<appVars, written>> /\ UNCHANGED vars
    BY <1>2 DEF historyVars, appVars
  <2>2. IInv' /\ AppInv'
    BY <2>1, StutterInv, AppInvStutter DEF HInv
  <2> QED
    BY <2>1, <2>2 DEF HInv, Opened, WrittenInv, WrittenType, SessionWrites, StoredChecksum,
       SavedInRange, Writable, Target, Pools, appVars, vars, device, pools, config, roms, call
<1> QED
  BY <1>1, <1>2

LEMMA HInvariance == TornSavesAreDetected => (HistorySpec => []HInv)
<1> SUFFICES ASSUME TornSavesAreDetected PROVE HistorySpec => []HInv
  OBVIOUS
<1>1. HistoryInit => HInv
  <2> SUFFICES ASSUME HistoryInit PROVE HInv
    OBVIOUS
  <2>1. IInv
    BY InitInv DEF HistoryInit, AppInit
  <2>2. AppInv /\ Opened /\ boot = "init" /\ standby_rom = NoRom /\ pc = "idle"
    BY DEF HistoryInit, AppInit, Init, VolatileInit, AppInv, Booted, PoolInRange, Opened,
       BootSteps
  <2>3. WrittenType
    BY ErasedContentType DEF HistoryInit, WrittenType
  <2>4. UseCrc => \A r \in Roms : flash[r].ints[CrcIdx] < 0
    BY AppAssumption DEF HistoryInit, AppInit, Init, ErasedContent, ErasedInt,
       TornSavesAreDetected
  <2> QED
    BY <2>1, <2>2, <2>3, <2>4 DEF HInv, WrittenInv, SessionWrites, StoredChecksum, SavedInRange,
       CellLeft
<1>2. HInv /\ [HistoryNext]_historyVars => HInv'
  BY HInvStep
<1> QED
  BY <1>1, <1>2, PTL DEF HistorySpec

\* A matching region has the key of its last session, whose integers are in
\* range.
LEMMA MatchingRegion ==
    ASSUME TornSavesAreDetected, HInv, UseCrc, NEW r \in Roms, CrcMatches(flash[r])
    PROVE  Key(flash[r]) = Key(written[r]) /\ ~AnyOutOfRange(flash[r].ints)
<1>1. /\ flash[r] \in Content /\ written[r] \in Content
      /\ CellLeft(flash[r].ints[CrcIdx], Crc(Key(written[r])))
      /\ \/ flash[r].ints[CrcIdx] < 0
         \/ \A i \in IntIdx : InRange(i, written[r].ints[i])
  BY DEF HInv, IInv, TypeOK, WrittenInv, WrittenType, StoredChecksum, SavedInRange
<1>2. Key(flash[r]) = Key(written[r])
  BY <1>1, MatchIsWhole DEF TornSavesAreDetected
<1>3. /\ CrcIdx \in IntIdx /\ flash[r].ints[CrcIdx] = Crc(Key(flash[r]))
      /\ Key(flash[r]) \in MaskedContent /\ Crc(Key(flash[r])) \in Nat
  BY <1>1, ChecksumsOfKey, KeyType DEF TornSavesAreDetected, CrcMatches
<1>4. \A i \in IntIdx : InRange(i, written[r].ints[i])
  BY <1>1, <1>3
<1>5. \A i \in IntIdx : i # CrcIdx => flash[r].ints[i] = written[r].ints[i]
  BY <1>2 DEF Key, Masked
<1>6. InRange(CrcIdx, flash[r].ints[CrcIdx])
  BY <1>3 DEF TornSavesAreDetected, CrcCellAcceptsCrc
<1>7. \A i \in IntIdx : InRange(i, flash[r].ints[i])
  BY <1>4, <1>5, <1>6
<1> QED
  BY <1>2, <1>7 DEF AnyOutOfRange

\* A region whose checksum matches holds all of what its last write session
\* was given: whichever erases and writes fail half way and wherever power is
\* lost, in one save or in several, no mixture of two saves passes for valid.
THEOREM ValidCopiesWereSaved ==
    TornSavesAreDetected => (HistorySpec => []ValidCopiesAreWhole)
<1> SUFFICES ASSUME TornSavesAreDetected PROVE HistorySpec => []ValidCopiesAreWhole
  OBVIOUS
<1>1. HInv => ValidCopiesAreWhole
  BY MatchingRegion, ImageOfKey DEF ValidCopiesAreWhole
<1> QED
  BY <1>1, HInvariance, PTL

\* While the active region is intact a boot loads it, or all of what the last
\* session wrote to the other one.
THEOREM WholeSaveIsRecovered ==
    UseCrc /\ TornSavesAreDetected => (HistorySpec => []RecoversAWholeSave)
<1> SUFFICES ASSUME UseCrc, TornSavesAreDetected PROVE HistorySpec => []RecoversAWholeSave
  OBVIOUS
<1>1. ASSUME HInv, standby_rom # NoRom, CrcMatches(flash[active_rom])
      PROVE  Recovered(flash) \in {Image(flash[active_rom]), Image(written[standby_rom])}
  <2>1. /\ active_rom \in Roms /\ standby_rom \in Roms /\ active_rom # standby_rom
        /\ UseRedundant
    BY <1>1 DEF HInv, IInv, TypeOK, Pointers, AppInv, Booted, BootSteps, Opened
  <2>2. ~AnyOutOfRange(flash[active_rom].ints)
    BY <1>1, <2>1, MatchingRegion
  <2>3. CASE CrcMatches(flash[standby_rom])
    <3>1. Image(flash[standby_rom]) = Image(written[standby_rom])
      BY <1>1, <2>1, <2>3, MatchingRegion, ImageOfKey
    <3>2. ChosenRom(flash) \in {active_rom, standby_rom}
      BY <2>1 DEF ChosenRom, Roms
    <3> QED
      BY <3>1, <3>2 DEF Recovered
  <2>4. CASE ~CrcMatches(flash[standby_rom])
    <3>1. ChosenRom(flash) = active_rom
      BY <1>1, <2>1, <2>2, <2>4 DEF ChosenRom, UseRedundantRom, Roms
    <3> QED
      BY <3>1 DEF Recovered
  <2> QED
    BY <2>3, <2>4
<1>2. HInv => RecoversAWholeSave
  BY <1>1 DEF RecoversAWholeSave
<1> QED
  BY <1>2, HInvariance, PTL
====
