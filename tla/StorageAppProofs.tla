---- MODULE StorageAppProofs ----
(***************************************************************************)
(* Theorems of StorageApp: an application that boots as it does is one of  *)
(* the clients module Storage allows; it sees no integer out of its range, *)
(* whatever fails; a boot loads the region Recovered names; and a save     *)
(* that was acknowledged is what the next boot loads.                      *)
(*                                                                         *)
(* StorageApp implements AtomicStore: with a redundant region, the         *)
(* checksum and no failing operation, every step of the application and    *)
(* every power loss is a step of the abstract store, or none.  Without the *)
(* checksum the integers alone are atomic, whatever fails, if their ranges *)
(* exclude what a torn save leaves.                                        *)
(***************************************************************************)
EXTENDS StorageApp, StorageProofs

----------------------------------------------------------------------------
(* The application is a client of the store                                *)

\* Every step of the application is a step of Storage.
LEMMA AppStepIsStep == [AppNext]_appVars => [Next]_vars
<1> SUFFICES ASSUME AppNext PROVE Next
  BY DEF appVars
<1>1. CASE BootInit
  BY <1>1 DEF BootInit, Next, ApplicationCall, InitArgs
<1>2. CASE BootEnableCrc
  BY <1>2 DEF BootEnableCrc, Next, ApplicationCall
<1>3. CASE BootInitRedundantPage
  BY <1>3 DEF BootInitRedundantPage, Next, ApplicationCall
<1>4. CASE BootLoad
  BY <1>4 DEF BootLoad, Next, ApplicationCall
<1>5. CASE Edit
  BY <1>5 DEF Edit, Next, ApplicationCall
<1>6. CASE Save
  BY <1>6 DEF Save, Next, ApplicationCall
<1>7. CASE ContinueSave
  BY <1>7 DEF ContinueSave, Next
<1>8. CASE LosePower
  BY <1>8 DEF LosePower, Next
<1> QED
  BY <1>1, <1>2, <1>3, <1>4, <1>5, <1>6, <1>7, <1>8 DEF AppNext

\* What is proved of Storage, for calls in any order, holds of an application
\* that boots and saves as StorageApp describes.
THEOREM AppIsAClient == AppSpec => Spec
<1>1. AppInit => Init
  BY DEF AppInit
<1> QED
  BY <1>1, AppStepIsStep, PTL DEF AppSpec, Spec

----------------------------------------------------------------------------
(* No integer out of range is visible                                      *)

\* The boot sequence has set the amounts and the active region when it goes
\* on, and no save runs before its end.
Booted ==
    /\ boot \in BootSteps
    /\ boot # "init" => active_rom # NoRom /\ all_params_amount = NumInts + NumStrs
    /\ boot # "ready" => pc = "idle"
    /\ crc_enabled \/ boot = "crc" => UseCrc

\* The pool is in range, and so is the value of the CRC cell that a failing
\* save puts back.
PoolInRange ==
    boot = "ready" =>
        /\ \A i \in IntIdx : InRange(i, ints[i])
        /\ pc = "strs" /\ CrcInUse => InRange(CrcIdx, stored_crc)

AppInv == Booted /\ PoolInRange

LEMMA BootedStep ==
    ASSUME Booted, AppNext
    PROVE  Booted'
<1>r. "primary" # NoRom /\ "redundant" # NoRom
  BY StorageAssumption DEF Roms
<1>1. CASE BootInit
  <2>1. /\ active_rom' = "primary" /\ all_params_amount' = NumInts + NumStrs
        /\ pc' = "idle" /\ crc_enabled' = FALSE
    BY <1>1 DEF BootInit, ParamsInit, Return, ParamsAmount
  <2>2. boot' \in {"crc", "redundant", "load"} /\ (boot' = "crc" => UseCrc)
    BY <1>1 DEF BootInit, AfterCrc
  <2> QED
    BY <1>r, <2>1, <2>2 DEF Booted, BootSteps
<1>2. CASE BootEnableCrc
  <2>1. UNCHANGED <<active_rom, all_params_amount>> /\ pc' = "idle"
    BY <1>2 DEF BootEnableCrc, ParamsEnableCrc, Return, roms
  <2>2. boot = "crc" /\ boot' \in {"redundant", "load"}
    BY <1>2 DEF BootEnableCrc, AfterCrc
  <2> QED
    BY <2>1, <2>2 DEF Booted, BootSteps
<1>3. CASE BootInitRedundantPage
  <2>1. /\ active_rom' \in {active_rom, "primary", "redundant"} /\ pc' = "idle"
        /\ UNCHANGED <<all_params_amount, crc_enabled>>
    BY <1>3 DEF BootInitRedundantPage, ParamsInitRedundantPage, ChooseRom, Return, config
  <2>2. boot = "redundant" /\ boot' = "load"
    BY <1>3 DEF BootInitRedundantPage
  <2> QED
    BY <1>r, <2>1, <2>2 DEF Booted, BootSteps
<1>4. CASE BootLoad
  BY <1>4 DEF BootLoad, ParamsLoad, Booted, BootSteps, Return, config, roms
<1>5. CASE Edit
  BY <1>5 DEF Edit, ParamsSetIntegerValue, ParamsSetStringValue, ParamsResetToDefault, Booted,
     Return, config, roms, call
<1>6. CASE Save
  BY <1>6 DEF Save, ParamsSave, Booted, Return, config, roms
<1>7. CASE ContinueSave
  <2>1. boot = "ready"
    BY <1>7 DEF ContinueSave, SaveStep, Booted, BeginWrite, WriteInts, WriteStrs, EndWrite,
       EraseOld, EndOld
  <2>2. UNCHANGED <<boot, all_params_amount, crc_enabled>>
    BY <1>7 DEF ContinueSave, SaveStep, BeginWrite, WriteInts, WriteStrs, EndWrite, EraseOld,
       EndOld, config
  <2>3. active_rom' = active_rom \/ (SwitchesRoms /\ active_rom' = standby_rom)
    BY <1>7 DEF ContinueSave, SaveStep, BeginWrite, WriteInts, WriteStrs, EndWrite, EraseOld,
       EndOld, roms
  <2> QED
    BY <2>1, <2>2, <2>3 DEF Booted, SwitchesRoms
<1>8. CASE LosePower
  BY <1>8 DEF LosePower, PowerLoss, Reset, Booted, BootSteps
<1> QED
  BY <1>1, <1>2, <1>3, <1>4, <1>5, <1>6, <1>7, <1>8 DEF AppNext

\* Every reachable state of the application is well typed.
THEOREM AppTypeCorrect == AppSpec => []AppTypeOK
<1>1. AppInit => Booted
  BY DEF AppInit, Init, VolatileInit, Booted, BootSteps
<1>2. Booted /\ [AppNext]_appVars => Booted'
  BY BootedStep DEF Booted, appVars, vars, config, roms, call
<1>3. TypeOK /\ Booted => AppTypeOK
  BY DEF Booted, AppTypeOK
<1> QED
  BY <1>1, <1>2, <1>3, AppIsAClient, TypeCorrect, PTL DEF AppSpec

\* The checksum that goes into the pool is in the range of its cell.
LEMMA ChecksumInRange ==
    ASSUME TypeOK, Booted, CrcCellAcceptsCrc, CrcInUse
    PROVE  InRange(CrcIdx, PoolsCrc(ints, strs))
<1>1. UseCrc
  BY DEF CrcInUse, Booted
<1>2. Masked(ints) \in [IntIdx -> DataVal]
  BY RegionAssumption DEF Masked, IntPool, TypeOK
<1>3. [ints |-> Masked(ints), gap |-> Gap("ff"), strs |-> strs] \in MaskedContent
  BY <1>2 DEF MaskedContent, Gap, GapVal, TypeOK
<1> QED
  BY <1>1, <1>3 DEF CrcCellAcceptsCrc, PoolsCrc, CrcOf

LEMMA PoolInRangeStep ==
    ASSUME DefaultsInRange, CrcCellAcceptsCrc, IInv, AppInv, AppNext
    PROVE  PoolInRange'
<1>0. TypeOK /\ Booted /\ PoolInRange
  BY DEF IInv, AppInv
<1>1. CASE boot' # "ready"
  BY <1>1 DEF PoolInRange
<1>2. CASE BootLoad
  <2>1. active_rom # NoRom /\ all_params_amount = NumInts + NumStrs /\ pc' = "idle"
    BY <1>0, <1>2 DEF BootLoad, ParamsLoad, Return, Booted
  <2>2. CASE NumInts = 0
    BY <2>1, <2>2 DEF PoolInRange, IntIdx
  <2>3. CASE NumInts # 0
    <3>1. Configured
      BY <2>1, <2>3, PoolsAssumption DEF Configured
    <3>2. PICK f \in ReadInts(active_rom, rom[active_rom].inited, ints) : ints' = LoadedInts(f)
      BY <1>2, <2>1, <3>1 DEF BootLoad, ParamsLoad
    <3>3. f \in IntPool
      BY <1>0, <2>1, <3>2, ReadType DEF TypeOK
    <3>4. \A i \in IntIdx : InRange(i, ints'[i])
      BY <3>2, <3>3, LoadedInRange
    <3> QED
      BY <2>1, <3>4 DEF PoolInRange
  <2> QED
    BY <2>2, <2>3
<1>3. CASE Edit
  <2>1. pc' = "idle" /\ boot = "ready"
    BY <1>3
    DEF Edit, ParamsSetIntegerValue, ParamsSetStringValue, ParamsResetToDefault, Return, call
  <2>2. ASSUME NEW i \in IntIdx PROVE InRange(i, ints'[i])
    <3>1. InRange(i, ints[i]) /\ InRange(i, IntDesc[i].def)
      BY <1>0, <2>1 DEF PoolInRange, DefaultsInRange, InRange
    <3>2. ASSUME NEW k \in IntIdx, NEW v \in SetInts, ParamsSetIntegerValue(k, v)
          PROVE  InRange(i, ints'[i])
      BY <1>0, <3>1, <3>2 DEF ParamsSetIntegerValue, SetIntegerAccepts, TypeOK, IntPool
    <3>3. ASSUME NEW j \in StrIdx, NEW v \in SetStrs, ParamsSetStringValue(j, v)
          PROVE  InRange(i, ints'[i])
      BY <3>1, <3>3 DEF ParamsSetStringValue
    <3>4. CASE ParamsResetToDefault
      BY <3>1, <3>4 DEF ParamsResetToDefault, ResetInts, pools
    <3> QED
      BY <1>3, <3>2, <3>3, <3>4 DEF Edit
  <2> QED
    BY <2>1, <2>2 DEF PoolInRange
<1>4. CASE Save
  BY <1>0, <1>4 DEF Save, ParamsSave, Return, PoolInRange, pools
<1>5. CASE ContinueSave /\ boot' = "ready"
  <2>0. boot = "ready" /\ \A i \in IntIdx : InRange(i, ints[i])
    BY <1>0, <1>5 DEF ContinueSave, PoolInRange
  <2>1. CASE WriteInts
    <3>1. UNCHANGED <<strs, crc_enabled>>
      BY <2>1 DEF WriteInts, config
    <3>2. CASE ints' = PoolWithCrc /\ stored_crc' = StoredCrc
      <4>1. \A i \in IntIdx : InRange(i, PoolWithCrc[i])
        BY <1>0, <2>0, ChecksumInRange DEF PoolWithCrc, TypeOK, IntPool
      <4>2. CrcInUse => InRange(CrcIdx, ints[CrcIdx])
        BY <2>0 DEF CrcInUse
      <4> QED
        BY <3>1, <3>2, <4>1, <4>2 DEF PoolInRange, CrcInUse, StoredCrc
    <3>3. CASE pc' = "end" /\ UNCHANGED ints
      BY <2>0, <3>3 DEF PoolInRange
    <3> QED
      BY <1>0, <2>1, <3>2, <3>3, PoolsOfSaveType DEF WriteInts, AfterWriteError
  <2>2. CASE WriteStrs
    <3>1. pc = "strs" /\ pc' = "end" /\ (ints' = ints \/ ints' = CrcRestored(ints, stored_crc))
      BY <2>2 DEF WriteStrs, AfterWriteError
    <3>2. CrcInUse => InRange(CrcIdx, stored_crc)
      BY <1>0, <2>0, <3>1 DEF PoolInRange
    <3>3. \A i \in IntIdx : InRange(i, CrcRestored(ints, stored_crc)[i])
      BY <1>0, <2>0, <3>2 DEF CrcRestored, TypeOK, IntPool
    <3> QED
      BY <2>0, <3>1, <3>3 DEF PoolInRange
  <2>3. CASE BeginWrite \/ EndWrite \/ EraseOld \/ EndOld
    <3>1. UNCHANGED ints /\ pc' # "strs"
      BY <2>3 DEF BeginWrite, EndWrite, EraseOld, EndOld, Goto, Return, pools
    <3> QED
      BY <2>0, <3>1 DEF PoolInRange
  <2> QED
    BY <1>5, <2>1, <2>2, <2>3 DEF ContinueSave, SaveStep
<1>6. boot' = "ready" => BootLoad \/ Edit \/ Save \/ ContinueSave
  BY DEF AppNext, BootInit, BootEnableCrc, BootInitRedundantPage, LosePower, AfterCrc
<1> QED
  BY <1>1, <1>2, <1>3, <1>4, <1>5, <1>6

LEMMA AppInvStutter == AppInv /\ UNCHANGED appVars => AppInv'
  BY DEF AppInv, Booted, PoolInRange, CrcInUse, appVars, vars, device, pools, config, roms, call

\* After the boot every integer the application reads is in its range, when
\* its default is: whatever the reads and writes of the driver do, wherever
\* power fails, and while paramsSave holds the checksum in the pool.
THEOREM VisibleIntegersInRange ==
    DefaultsInRange /\ CrcCellAcceptsCrc => (AppSpec => []VisibleInRange)
<1> SUFFICES ASSUME DefaultsInRange, CrcCellAcceptsCrc
             PROVE  AppSpec => []VisibleInRange
  OBVIOUS
<1>1. AppInit => AppInv
  BY DEF AppInit, Init, VolatileInit, AppInv, Booted, PoolInRange, BootSteps
<1>2. IInv /\ AppInv /\ [AppNext]_appVars => AppInv'
  BY BootedStep, PoolInRangeStep, AppInvStutter DEF AppInv
<1>3. AppInv => VisibleInRange
  BY DEF AppInv, PoolInRange, VisibleInRange, GetInteger, DefaultsInRange, InRange
<1> QED
  BY <1>1, <1>2, <1>3, AppIsAClient, Invariance, PTL DEF AppSpec

----------------------------------------------------------------------------
(* What the boot sequence sets up, and the save keeps                      *)

\* The regions the application asked for are open, and the checksum is
\* enabled exactly when it asked for it.
Opened ==
    /\ boot # "init" => rom["primary"].inited
    /\ boot \in {"crc", "redundant"} => ~rom["primary"].erased
    /\ boot \in {"redundant", "load", "ready"} => crc_enabled = UseCrc
    /\ boot \in {"crc", "redundant"} => active_rom = "primary" /\ standby_rom = NoRom
    /\ boot = "redundant" => UseRedundant
    /\ boot \in {"load", "ready"} =>
           IF UseRedundant
           THEN standby_rom # NoRom /\ rom["redundant"].inited
           ELSE active_rom = "primary" /\ standby_rom = NoRom

\* The steps of paramsSave keep the regions open, and at most exchange them.
LEMMA SaveKeepsRegions ==
    ASSUME IInv, SaveStep
    PROVE  /\ \A r \in Roms : rom'[r].inited = rom[r].inited
           /\ UNCHANGED crc_enabled
           /\ \/ UNCHANGED <<active_rom, standby_rom>>
              \/ standby_rom # NoRom /\ active_rom' = standby_rom /\ standby_rom' = active_rom
<1>0. TypeOK /\ Pointers
  BY DEF IInv
<1>1. pc # "idle"
  BY DEF SaveStep, BeginWrite, WriteInts, WriteStrs, EndWrite, EraseOld, EndOld
<1>2. /\ Target \in Roms /\ active_rom \in Roms
      /\ standby_rom # NoRom => standby_rom \in Roms /\ active_rom # standby_rom
  BY <1>0, <1>1, TargetIsRom
<1>3. CASE BeginWrite
  <2>1. (standby_rom = NoRom \/ rom[Target].erased) \in BOOLEAN
    BY <1>0, <1>2 DEF TypeOK, RomState
  <2>2. \A r \in Roms : rom'[r].inited = rom[r].inited
    BY <1>0, <1>2, <1>3, <2>1, RomBeginWriteEffect DEF BeginWrite
  <2> QED
    BY <1>3, <2>2 DEF BeginWrite, config
<1>4. CASE WriteInts
  BY <1>4 DEF WriteInts, config, roms
<1>5. CASE WriteStrs
  BY <1>0, <1>2, <1>5 DEF WriteStrs, MarkedWritten, config, TypeOK, RomState
<1>6. CASE EndWrite
  <2>1. CASE SwitchesRoms
    <3>1. standby_rom # NoRom /\ standby_rom \in Roms
      BY <1>2, <2>1 DEF SwitchesRoms
    <3>2. /\ rom' = [RomsAfter(standby_rom) EXCEPT ![active_rom].erased = TRUE]
          /\ active_rom' = standby_rom /\ standby_rom' = active_rom /\ UNCHANGED crc_enabled
      BY <1>6, <2>1 DEF EndWrite, config
    <3>3. /\ RomsAfter(standby_rom) \in [Roms -> RomState]
          /\ \A r \in Roms : RomsAfter(standby_rom)[r].inited = rom[r].inited
      BY <1>0, <3>1, RomEndWriteEffect
    <3>4. \A r \in Roms : rom'[r].inited = rom[r].inited
      BY <1>2, <3>2, <3>3 DEF RomState
    <3> QED
      BY <3>1, <3>2, <3>4
  <2>2. CASE ~SwitchesRoms
    <3>1. rom' = RomsAfter(Target) /\ UNCHANGED <<active_rom, standby_rom, crc_enabled>>
      BY <1>6, <2>2 DEF EndWrite, config
    <3> QED
      BY <1>0, <1>2, <3>1, RomEndWriteEffect
  <2> QED
    BY <2>1, <2>2
<1>7. CASE EraseOld
  <2>1. standby_rom \in Roms /\ RomBeginWrite(standby_rom, TRUE)
    BY <1>0, <1>2, <1>7 DEF EraseOld, Pointers
  <2>2. \A r \in Roms : rom'[r].inited = rom[r].inited
    BY <1>0, <2>1, RomBeginWriteEffect
  <2> QED
    BY <1>7, <2>2 DEF EraseOld, config
<1>8. CASE EndOld
  <2>1. standby_rom \in Roms /\ rom' = RomsAfter(standby_rom)
    BY <1>0, <1>2, <1>8 DEF EndOld, Pointers
  <2>2. \A r \in Roms : rom'[r].inited = rom[r].inited
    BY <1>0, <2>1, RomEndWriteEffect
  <2> QED
    BY <1>8, <2>2 DEF EndOld, config
<1> QED
  BY <1>3, <1>4, <1>5, <1>6, <1>7, <1>8 DEF SaveStep

\* No step of the application loses a region or the CRC flag.
LEMMA OpenedStep ==
    ASSUME IInv, Booted, Opened, AppNext
    PROVE  Opened'
<1>0. TypeOK /\ Pointers /\ "primary" \in Roms /\ "redundant" \in Roms /\ NoRom \notin Roms
  BY StorageAssumption DEF IInv, Roms
<1>1. CASE BootInit
  <2>1. /\ rom' = [rom EXCEPT !["primary"] = FreshRom]
        /\ crc_enabled' = FALSE /\ active_rom' = "primary" /\ standby_rom' = NoRom
    BY <1>1 DEF BootInit, ParamsInit
  <2>2. rom'["primary"].inited /\ ~rom'["primary"].erased
    BY <1>0, <2>1 DEF TypeOK, FreshRom
  <2>3. /\ boot' \in {"crc", "redundant", "load"}
        /\ boot' # "crc" => UseCrc = FALSE
        /\ boot' = "redundant" => UseRedundant
        /\ boot' = "load" => ~UseRedundant
    BY <1>1, AppAssumption DEF BootInit, AfterCrc
  <2> QED
    BY <2>1, <2>2, <2>3 DEF Opened
<1>2. CASE BootEnableCrc
  <2>1. boot = "crc" /\ UNCHANGED <<rom, active_rom, standby_rom>>
    BY <1>2 DEF BootEnableCrc, ParamsEnableCrc, roms
  <2>2. CrcIdx < IntegersAmount
    <3>1. UseCrc /\ CrcIdx \in IntIdx /\ all_params_amount = NumInts + NumStrs
      BY <2>1, AppAssumption DEF Booted
    <3> QED
      BY <3>1, PoolsAssumption, RegionAssumption DEF IntegersAmount, IntIdx
  <2>3. crc_enabled' = UseCrc
    BY <1>2, <2>1, <2>2, AppAssumption DEF BootEnableCrc, ParamsEnableCrc, Booted
  <2>4. /\ boot' \in {"redundant", "load"}
        /\ boot' = "redundant" => UseRedundant
        /\ boot' = "load" => ~UseRedundant
    BY <1>2 DEF BootEnableCrc, AfterCrc
  <2> QED
    BY <2>1, <2>3, <2>4 DEF Opened
<1>3. CASE BootInitRedundantPage
  <2>1. /\ boot = "redundant" /\ boot' = "load" /\ UNCHANGED crc_enabled
        /\ rom["primary"].inited /\ UseRedundant
    BY <1>3 DEF BootInitRedundantPage, ParamsInitRedundantPage, config, Opened
  <2>2. PICK pErased, rErased :
          rom' = [rom EXCEPT !["primary"].erased = pErased,
                             !["redundant"] = [FreshRom EXCEPT !.erased = rErased]]
    BY <1>3, <2>1 DEF BootInitRedundantPage, ParamsInitRedundantPage, ChooseRom
  <2>3. standby_rom' \in {"primary", "redundant"}
    BY <1>3, <2>1 DEF BootInitRedundantPage, ParamsInitRedundantPage, ChooseRom
  <2>4. rom'["primary"].inited /\ rom'["redundant"].inited
    BY <1>0, <2>1, <2>2 DEF TypeOK, RomState, FreshRom
  <2> QED
    BY <1>0, <2>1, <2>3, <2>4 DEF Opened
<1>4. CASE BootLoad \/ Edit \/ Save
  <2>1. boot \in {"load", "ready"} /\ boot' \in {"load", "ready"}
    BY <1>4 DEF BootLoad, Edit, Save
  <2>2. UNCHANGED <<crc_enabled, rom, active_rom, standby_rom>>
    BY <1>4 DEF BootLoad, Edit, Save, ParamsLoad, ParamsSetIntegerValue, ParamsSetStringValue,
       ParamsResetToDefault, ParamsSave, config, roms
  <2> QED
    BY <2>1, <2>2 DEF Opened
<1>5. CASE ContinueSave
  <2>1. boot = "ready" /\ boot' = "ready"
    BY <1>5 DEF ContinueSave, SaveStep, Booted, BeginWrite, WriteInts, WriteStrs, EndWrite,
       EraseOld, EndOld
  <2>2. SaveStep
    BY <1>5 DEF ContinueSave
  <2>3. standby_rom # NoRom => active_rom # NoRom
    BY <1>0 DEF Pointers
  <2> QED
    BY <1>0, <2>1, <2>2, <2>3, SaveKeepsRegions DEF Opened
<1>6. CASE LosePower
  BY <1>6 DEF LosePower, Opened
<1> QED
  BY <1>1, <1>2, <1>3, <1>4, <1>5, <1>6 DEF AppNext

----------------------------------------------------------------------------
(* paramsLoad at the end of the boot                                       *)

\* The region chosen by _chooseRom is still the active one at paramsLoad.
ChosenIsActive == boot = "load" => active_rom = ChosenRom(flash)

BootInv == IInv /\ Booted /\ Opened /\ ChosenIsActive

\* A boot whose reads succeed chooses the region ChosenRom names.
LEMMA ChosenIsActiveStep ==
    ASSUME "read" \notin FaultOps, BootInv, AppNext
    PROVE  ChosenIsActive'
<1>0. /\ TypeOK /\ Booted /\ Opened
      /\ "primary" \in Roms /\ "redundant" \in Roms
  BY DEF BootInv, IInv, Roms
<1>1. SUFFICES ASSUME boot' = "load" PROVE active_rom' = ChosenRom(flash')
  BY DEF ChosenIsActive
<1>2. CASE BootInit \/ BootEnableCrc
  <2>1. ~UseRedundant
    BY <1>1, <1>2 DEF BootInit, BootEnableCrc, AfterCrc
  <2>2. active_rom' = "primary"
    BY <1>0, <1>2 DEF BootInit, BootEnableCrc, ParamsInit, ParamsEnableCrc, roms, Opened
  <2> QED
    BY <2>1, <2>2 DEF ChosenRom
<1>3. CASE BootInitRedundantPage
  <2>1. /\ boot = "redundant" /\ UNCHANGED flash /\ UseRedundant /\ crc_enabled = UseCrc
        /\ rom["primary"].inited /\ rom["primary"].erased = FALSE
    BY <1>0, <1>3 DEF BootInitRedundantPage, ParamsInitRedundantPage, device, Opened, TypeOK,
       RomState
  <2>2. PICK pInts \in ReadInts("primary", TRUE, ints), pStrs \in ReadStrs("primary", TRUE, strs) :
          \E rInts \in ReadInts("redundant", TRUE, pInts),
             rStrs \in ReadStrs("redundant", TRUE, pStrs),
             pValid \in RomCrcValid("primary"), rValid \in RomCrcValid("redundant") :
                ChooseRom(pInts, rInts, rStrs, pValid, rValid)
    BY <1>3, <2>1 DEF BootInitRedundantPage, ParamsInitRedundantPage
  <2>2a. PICK rInts \in ReadInts("redundant", TRUE, pInts),
              rStrs \in ReadStrs("redundant", TRUE, pStrs),
              pValid \in RomCrcValid("primary"), rValid \in RomCrcValid("redundant") :
                ChooseRom(pInts, rInts, rStrs, pValid, rValid)
    BY <2>2
  <2> DEFINE pErased == rom["primary"].erased \/ LooksErased(pInts)
             rErased == LooksErased(rInts)
             use == UseRedundantRom(pErased, rErased, pValid, rValid)
  <2>2b. active_rom' = IF use THEN "redundant" ELSE "primary"
    BY <2>2a DEF ChooseRom
  <2>3. /\ pErased <=> AnyOutOfRange(flash["primary"].ints)
        /\ rErased <=> AnyOutOfRange(flash["redundant"].ints)
    <3>1. CASE Configured
      <4>1. pInts = flash["primary"].ints /\ rInts = flash["redundant"].ints
        BY <2>2, <2>2a, <3>1 DEF ReadInts
      <4> QED
        BY <2>1, <3>1, <4>1 DEF LooksErased
    <3>2. CASE ~Configured
      <4>1. IntIdx = {}
        BY <1>0, <2>1, <3>2, PoolsAssumption DEF Configured, Booted, IntIdx
      <4> QED
        BY <2>1, <3>2, <4>1 DEF LooksErased, AnyOutOfRange
    <3> QED
      BY <3>1, <3>2
  <2>4. /\ pValid <=> UseCrc /\ CrcMatches(flash["primary"])
        /\ rValid <=> UseCrc /\ CrcMatches(flash["redundant"])
    BY <2>1, <2>2a DEF RomCrcValid
  <2>5. use <=> UseRedundantRom(AnyOutOfRange(flash["primary"].ints),
                                AnyOutOfRange(flash["redundant"].ints),
                                UseCrc /\ CrcMatches(flash["primary"]),
                                UseCrc /\ CrcMatches(flash["redundant"]))
    BY <1>0, <2>3, <2>4 DEF UseRedundantRom
  <2> HIDE DEF use
  <2> QED
    BY <2>1, <2>2b, <2>5 DEF ChosenRom
<1>4. ~(BootLoad \/ Edit \/ Save \/ LosePower)
  BY <1>1 DEF BootLoad, Edit, Save, LosePower
<1>5. ~ContinueSave
  BY <1>0, <1>1 DEF ContinueSave, Booted, SaveStep, BeginWrite, WriteInts, WriteStrs, EndWrite,
     EraseOld, EndOld
<1> QED
  BY <1>2, <1>3, <1>4, <1>5 DEF AppNext

LEMMA BootInvariance == "read" \notin FaultOps => (AppSpec => []BootInv)
<1> SUFFICES ASSUME "read" \notin FaultOps PROVE AppSpec => []BootInv
  OBVIOUS
<1>1. AppInit => BootInv
  BY InitInv DEF AppInit, Init, VolatileInit, BootInv, Booted, Opened, ChosenIsActive, BootSteps
<1>2. BootInv /\ [AppNext]_appVars => BootInv'
  <2> SUFFICES ASSUME BootInv, [AppNext]_appVars PROVE BootInv'
    OBVIOUS
  <2>1. IInv'
    BY AppStepIsStep, NextInv DEF BootInv
  <2>2. CASE AppNext
    BY <2>1, <2>2, BootedStep, OpenedStep, ChosenIsActiveStep DEF BootInv
  <2>3. CASE UNCHANGED appVars
    BY <2>1, <2>3 DEF BootInv, Booted, Opened, ChosenIsActive, appVars, vars, device, config,
       roms, call
  <2> QED
    BY <2>2, <2>3
<1> QED
  BY <1>1, <1>2, PTL DEF AppSpec

\* Loading what was loaded changes nothing.
LEMMA LoadedTwice ==
    /\ \A f \in IntPool : LoadedInts(LoadedInts(f)) = LoadedInts(f)
    /\ \A s \in StrPool : LoadedStrs(LoadedStrs(s)) = LoadedStrs(s)
  BY DEF LoadedInts, LoadedStrs

\* paramsLoad at the end of the boot, when no read fails.
LEMMA BootLoadsChosen ==
    ASSUME "read" \notin FaultOps, BootInv, BootLoad
    PROVE  Image(Pools') = Recovered(flash)
<1> DEFINE c == flash[active_rom]
<1>1. /\ active_rom # NoRom /\ active_rom = ChosenRom(flash) /\ active_rom \in Roms
      /\ all_params_amount = NumInts + NumStrs
      /\ rom[active_rom].inited
  <2>1. boot = "load" /\ TypeOK /\ Pointers
    BY DEF BootLoad, BootInv, IInv
  <2> QED
    BY <2>1 DEF BootInv, Booted, Opened, ChosenIsActive, TypeOK, Roms
<1>2. c.ints \in IntPool /\ c.strs \in StrPool /\ ints \in IntPool /\ strs \in StrPool
  BY <1>1 DEF BootInv, IInv, TypeOK, Content
<1>3. LoadedInts(ints') = LoadedInts(c.ints) /\ LoadedStrs(strs') = LoadedStrs(c.strs)
  <2>1. CASE Configured
    <3>1. ints' = LoadedInts(c.ints) /\ strs' = LoadedStrs(c.strs)
      BY <1>1, <2>1 DEF BootLoad, ParamsLoad, ReadInts, ReadStrs
    <3> QED
      BY <1>2, <3>1, LoadedTwice
  <2>2. CASE ~Configured
    <3>1. IntIdx = {} /\ StrIdx = {}
      BY <1>1, <2>2, PoolsAssumption DEF Configured, IntIdx, StrIdx
    <3> QED
      BY <3>1 DEF LoadedInts, LoadedStrs
  <2> QED
    BY <2>1, <2>2
<1>4. Pools'.ints = ints' /\ Pools'.strs = strs'
  BY DEF Pools
<1>5. Image(Pools') = Image(c)
  BY <1>3, <1>4 DEF Image
<1> QED
  BY <1>1, <1>5 DEF Recovered

\* When no read fails, the boot ends with what Recovered(flash) says in the
\* pools, whatever the erases and writes of earlier saves did.
THEOREM BootLoadsWhatIsRecovered ==
    "read" \notin FaultOps => (AppSpec => BootLoadsRecovered)
<1> SUFFICES ASSUME "read" \notin FaultOps PROVE AppSpec => BootLoadsRecovered
  OBVIOUS
<1>1. BootInv /\ [AppNext]_appVars => [BootLoad => Image(Pools') = Recovered(flash)]_appVars
  BY BootLoadsChosen
<1> QED
  BY <1>1, BootInvariance, PTL DEF AppSpec, BootLoadsRecovered

----------------------------------------------------------------------------
(* A save that was acknowledged is what the next boot loads                *)

\* When a boot can tell the new copy from the old one: the old one is always
\* erased, an erased region has an integer out of its range, and a saved one
\* has none and carries a valid checksum.
SavesAreRecognised ==
    /\ {"unlock", "erase"} \cap FaultOps = {}
    /\ \E i \in IntIdx : ~InRange(i, ErasedInt)
    /\ DefaultsInRange
    /\ CrcCellAcceptsCrc
    /\ UseCrc => GapIsErased

OldErased == pc = "end_old" => flash[standby_rom] = ErasedContent

AckInv ==
    /\ IInv /\ Booted /\ Opened
    /\ UseRedundant => PoolInRange /\ OldErased

\* Nothing but the erase of the old copy comes before the end of a save.
LEMMA OldErasedStep ==
    ASSUME {"unlock", "erase"} \cap FaultOps = {}, UseRedundant, IInv, Booted, Opened, AppNext
    PROVE  OldErased'
<1>0. TypeOK /\ Pointers
  BY DEF IInv
<1> SUFFICES ASSUME pc' = "end_old" PROVE flash'[standby_rom'] = ErasedContent
  BY DEF OldErased
<1>1. EraseOld /\ UNCHANGED boot
  <2>1. ~(BootInit \/ BootEnableCrc \/ BootInitRedundantPage \/ BootLoad \/ Save \/ LosePower)
    BY DEF BootInit, BootEnableCrc, BootInitRedundantPage, BootLoad, Save, LosePower,
       ParamsInit, ParamsEnableCrc, ParamsInitRedundantPage, ParamsLoad, ParamsSave, Return,
       PowerLoss, Reset
  <2>2. ~Edit
    BY DEF Edit, ParamsSetIntegerValue, ParamsSetStringValue, ParamsResetToDefault, Return, call
  <2>3. ~(BeginWrite \/ WriteInts \/ WriteStrs \/ EndWrite \/ EndOld)
    BY DEF BeginWrite, WriteInts, WriteStrs, EndWrite, EndOld, Goto, Return, AfterWriteError
  <2> QED
    BY <2>1, <2>2, <2>3 DEF AppNext, ContinueSave, SaveStep
<1>2. pc = "begin_old" /\ standby_rom \in Roms /\ UNCHANGED standby_rom
  BY <1>0, <1>1, TargetIsRom DEF EraseOld, Pointers
<1>3. rom[standby_rom].inited
  BY <1>0, <1>2 DEF Booted, Opened, Roms
<1>4. flash' = [flash EXCEPT ![standby_rom] = ErasedContent]
  BY <1>1, <1>3 DEF EraseOld, RomBeginWrite
<1> QED
  BY <1>0, <1>2, <1>4 DEF TypeOK

LEMMA AckInvariance == (UseRedundant => SavesAreRecognised) => (AppSpec => []AckInv)
<1> SUFFICES ASSUME UseRedundant => SavesAreRecognised PROVE AppSpec => []AckInv
  OBVIOUS
<1>1. AppInit => AckInv
  BY InitInv DEF AppInit, Init, VolatileInit, AckInv, Booted, Opened, PoolInRange, OldErased,
     BootSteps
<1>2. AckInv /\ [AppNext]_appVars => AckInv'
  <2> SUFFICES ASSUME AckInv, [AppNext]_appVars PROVE AckInv'
    OBVIOUS
  <2>1. IInv'
    BY AppStepIsStep, NextInv DEF AckInv
  <2>2. CASE AppNext
    <3>1. Booted' /\ Opened'
      BY <2>2, BootedStep, OpenedStep DEF AckInv
    <3>2. UseRedundant => PoolInRange' /\ OldErased'
      BY <2>2, PoolInRangeStep, OldErasedStep DEF AckInv, AppInv, SavesAreRecognised
    <3> QED
      BY <2>1, <3>1, <3>2 DEF AckInv
  <2>3. CASE UNCHANGED appVars
    BY <2>1, <2>3 DEF AckInv, Booted, Opened, PoolInRange, OldErased, CrcInUse, appVars, vars,
       device, pools, config, roms, call
  <2> QED
    BY <2>2, <2>3
<1> QED
  BY <1>1, <1>2, PTL DEF AppSpec

\* A complete active copy next to an erased one is the copy a boot chooses.
LEMMA SavedCopyIsChosen ==
    ASSUME SavesAreRecognised, NEW f, NEW a \in Roms, NEW b \in Roms \ {a},
           f[b] = ErasedContent, ~AnyOutOfRange(f[a].ints), UseCrc => CrcMatches(f[a]),
           UseRedundant
    PROVE  ChosenRom(f) = a
<1>1. AnyOutOfRange(f[b].ints)
  BY DEF SavesAreRecognised, AnyOutOfRange, ErasedContent
<1>2. {a, b} = {"primary", "redundant"}
  BY DEF Roms
<1> QED
  BY <1>1, <1>2 DEF ChosenRom, UseRedundantRom

\* A save returns to the application, which has booted.
LEMMA SaveReturnsToApp ==
    ASSUME Booted, AppNext, SaveReturns
    PROVE  boot = "ready" /\ boot' = "ready"
  BY DEF SaveReturns, AppNext, Booted, BootInit, BootEnableCrc, BootInitRedundantPage, BootLoad,
     Edit, Save, ContinueSave, LosePower, PowerLoss, Reset

\* When paramsSave returns LIBPARAMS_OK the next boot loads what was saved:
\* from the only region, or from the right one of two.
THEOREM AcknowledgedSurvivesReset ==
    (UseRedundant => SavesAreRecognised) => (AppSpec => AcknowledgedSurvives)
<1> SUFFICES ASSUME UseRedundant => SavesAreRecognised PROVE AppSpec => AcknowledgedSurvives
  OBVIOUS
<1>1. ASSUME AckInv, AckInv', AppNext, SaveReturns, res' = "OK"
      PROVE  Recovered(flash') = Image(Pools')
  <2>0. IInv /\ Booted /\ Opened /\ TypeOK /\ Pointers /\ Next
    BY <1>1, AppStepIsStep DEF AckInv, IInv, SaveReturns, vars, call
  <2>1. /\ flash'[active_rom'] = [ints |-> ints', strs |-> strs']
        /\ UNCHANGED <<ints, strs, crc_enabled>>
        /\ CrcInUse => ints[CrcIdx] = PoolsCrc(ints, strs)
        /\ active_rom' \in Roms
    BY <1>1, <2>0, SuccessfulReturn
  <2>2. boot = "ready" /\ boot' = "ready"
    BY <1>1, <2>0, SaveReturnsToApp
  <2>3. ChosenRom(flash') = active_rom'
    <3>1. CASE ~UseRedundant
      BY <1>1, <2>2, <3>1 DEF AckInv, Opened, ChosenRom
    <3>2. CASE UseRedundant
      <4>1. standby_rom # NoRom /\ standby_rom' # NoRom
        BY <1>1, <2>2, <3>2 DEF AckInv, Opened
      <4>2. EndOld
        <5>1. ~(BeginWrite \/ WriteInts \/ WriteStrs \/ EraseOld)
          BY <1>1 DEF SaveReturns, BeginWrite, WriteInts, WriteStrs, EraseOld, Goto,
             AfterWriteError
        <5>2. ~EndWrite
          BY <1>1, <4>1 DEF SaveReturns, EndWrite, SwitchesRoms, Goto, Return
        <5>3. ContinueSave
          BY <1>1, <2>2 DEF SaveReturns, AppNext, BootInit, BootEnableCrc,
             BootInitRedundantPage, BootLoad, Edit, Save, LosePower, ParamsSave,
             ParamsSetIntegerValue, ParamsSetStringValue, ParamsResetToDefault
        <5> QED
          BY <5>1, <5>2, <5>3 DEF ContinueSave, SaveStep
      <4>3. pc = "end_old" /\ UNCHANGED <<flash, active_rom, standby_rom>>
        BY <4>2 DEF EndOld
      <4>4. flash'[standby_rom'] = ErasedContent
        BY <1>1, <3>2, <4>3 DEF AckInv, OldErased
      <4>5. standby_rom' \in Roms \ {active_rom'}
        BY <2>0, <4>1, <4>3 DEF TypeOK, Pointers
      <4>6. ~AnyOutOfRange(flash'[active_rom'].ints)
        BY <1>1, <2>1, <2>2, <3>2 DEF AckInv, PoolInRange, AnyOutOfRange
      <4>7. UseCrc => CrcMatches(flash'[active_rom'])
        <5> SUFFICES ASSUME UseCrc PROVE CrcMatches(flash'[active_rom'])
          OBVIOUS
        <5>1. CrcIdx \in IntIdx /\ CrcInUse
          BY <2>0, <2>2, AppAssumption DEF Opened, CrcInUse
        <5>2. Gap("ff") = Gap(ErasedByte)
          BY <3>2 DEF SavesAreRecognised, GapIsErased, Gap
        <5> QED
          BY <2>1, <5>1, <5>2 DEF CrcMatches, RomCrc, PoolsCrc, CrcOf
      <4> QED
        BY <2>1, <3>2, <4>4, <4>5, <4>6, <4>7, SavedCopyIsChosen
    <3> QED
      BY <3>1, <3>2
  <2>4. flash'[active_rom'] = Pools'
    BY <2>1 DEF Pools
  <2> QED
    BY <2>3, <2>4 DEF Recovered
<1>2. AckInv /\ AckInv' /\ [AppNext]_appVars =>
          [SaveReturns /\ res' = "OK" => Recovered(flash') = Image(Pools')]_appVars
  BY <1>1
<1> QED
  BY <1>2, AckInvariance, PTL DEF AppSpec, AcknowledgedSurvives

\* paramsIsErased answers no after a save that returned LIBPARAMS_OK, when it
\* looks at an integer whose range excludes -1: no failure and no earlier
\* power loss lets paramsSave return success with that integer out of range.
THEOREM SavedIsNotTakenForErased ==
    /\ DefaultsInRange /\ CrcCellAcceptsCrc
    /\ \E i \in IntIdx : i < 64 /\ ~InRange(i, -1)
    => (AppSpec => SavedIsNotErased)
<1> SUFFICES ASSUME DefaultsInRange, CrcCellAcceptsCrc,
                    NEW i \in IntIdx, i < 64, ~InRange(i, -1)
             PROVE  AppSpec => SavedIsNotErased
  OBVIOUS
<1>1. AppInit => AppInv
  BY DEF AppInit, Init, VolatileInit, AppInv, Booted, PoolInRange, BootSteps
<1>2. IInv /\ AppInv /\ [AppNext]_appVars => AppInv'
  BY BootedStep, PoolInRangeStep, AppInvStutter DEF AppInv
<1>3. ASSUME IInv, AppInv, AppInv', AppNext, SaveReturns, res' = "OK"
      PROVE  ~ParamsIsErased'
  <2>1. Next /\ boot' = "ready"
    BY <1>3, AppStepIsStep, SaveReturnsToApp DEF AppInv, SaveReturns, appVars, vars, call
  <2>2. flash'[active_rom'].ints = ints'
    BY <1>3, <2>1, SuccessfulReturn
  <2>3. InRange(i, ints'[i])
    BY <1>3, <2>1 DEF AppInv, PoolInRange
  <2> QED
    BY <2>2, <2>3 DEF ParamsIsErased
<1>4. IInv /\ AppInv /\ AppInv' /\ [AppNext]_appVars =>
          [SaveReturns /\ res' = "OK" => ~ParamsIsErased']_appVars
  BY <1>3
<1> QED
  BY <1>1, <1>2, <1>4, AppIsAClient, Invariance, PTL DEF AppSpec, SavedIsNotErased

----------------------------------------------------------------------------
(* Facts about saves that the theorems of other modules use                *)

\* Only romBeginWrite leads to the write of the integer pool.
LEMMA SessionBegins ==
    ASSUME AppNext, pc' = "ints"
    PROVE  BeginWrite
<1>1. ~(BootInit \/ BootEnableCrc \/ BootInitRedundantPage \/ BootLoad \/ Save \/ LosePower)
  BY DEF BootInit, BootEnableCrc, BootInitRedundantPage, BootLoad, Save, LosePower,
     ParamsInit, ParamsEnableCrc, ParamsInitRedundantPage, ParamsLoad, ParamsSave, Return,
     PowerLoss, Reset
<1>2. ~Edit
  BY DEF Edit, ParamsSetIntegerValue, ParamsSetStringValue, ParamsResetToDefault, Return, call
<1>3. ~(WriteInts \/ WriteStrs \/ EndWrite \/ EraseOld \/ EndOld)
  BY DEF WriteInts, WriteStrs, EndWrite, EraseOld, EndOld, Goto, Return, AfterWriteError
<1> QED
  BY <1>1, <1>2, <1>3 DEF AppNext, ContinueSave, SaveStep

\* The checksum that _save writes is the one of the pools.
LEMMA SavedChecksum ==
    ASSUME TypeOK, UseCrc, Booted, Opened, pc # "idle"
    PROVE  /\ CrcIdx \in IntIdx /\ CrcInUse
           /\ PoolWithCrc[CrcIdx] = Crc(Key(Pools))
<1>1. CrcIdx \in IntIdx /\ CrcInUse
  BY AppAssumption DEF Booted, Opened, CrcInUse
<1>2. PoolWithCrc = [ints EXCEPT ![CrcIdx] = PoolsCrc(ints, strs)]
  BY <1>1 DEF PoolWithCrc
<1> QED
  BY <1>1, <1>2, ChecksumsOfKey DEF TypeOK, IntPool, Pools

\* Two contents with one key are the same image.
LEMMA ImageOfKey ==
    ASSUME UseCrc, NEW c, NEW d, Key(c) = Key(d)
    PROVE  Image(c) = Image(d)
<1>1. c.strs = d.strs /\ \A i \in IntIdx : i # CrcIdx => c.ints[i] = d.ints[i]
  BY DEF Key, Masked
<1>2. Masked(LoadedInts(c.ints)) = Masked(LoadedInts(d.ints))
  BY <1>1 DEF Masked, LoadedInts
<1> QED
  BY <1>1, <1>2 DEF Image

----------------------------------------------------------------------------
(* Erasing cannot restore what was erased                                  *)

\* As an unsigned number x is at least v: what an erase does, which only sets
\* bits.  Negative numbers have the highest bit set.
IntAbove(x, v) == IF v >= 0 THEN x < 0 \/ v <= x ELSE v <= x /\ x < 0

StrAbove(x, s) == x = s \/ x = ErasedStr \/ (x = TornStr /\ ~ReadsAsBlank(s))

\* Region content c is what operations that were cut may have left of a save
\* of w.
LeftOf(c, w) ==
    /\ CellLeft(c.ints[CrcIdx], Crc(Key(w)))
    /\ IntAbove(c.ints[CrcIdx], Crc(Key(w)))
    /\ \A i \in IntIdx \ {CrcIdx} : IntAbove(c.ints[i], w.ints[i])
    /\ \A j \in StrIdx : StrAbove(c.strs[j], w.strs[j])

\* Content c holds no part of a checksum, or is left of one save.
HasOrigin(c) == c.ints[CrcIdx] < 0 \/ \E w \in Content : LeftOf(c, w)

\* The cells of a region after an erase are above the cells before.
LEMMA ErasedIsAbove ==
    ASSUME ErasedByte = "ff", NEW x \in Int, NEW y,
           y = x \/ y = ErasedInt \/ \E u \in TornUnits : y = HalfErasedInt(x, u)
    PROVE  y \in Int /\ IntAbove(y, x)
<1>1. CASE y = x \/ y = ErasedInt
  BY <1>1 DEF IntAbove, ErasedInt
<1>2. CASE \E u \in TornUnits : y = HalfErasedInt(x, u)
  <2>1. y \in Int /\ x <= y /\ (x < 0 <=> y < 0)
    BY <1>2, HalfErasedBounds
  <2> QED
    BY <2>1 DEF IntAbove
<1> QED
  BY <1>1, <1>2

LEMMA AboveIsAnOrder ==
    ASSUME NEW x \in Int, NEW y \in Int, NEW z \in Int
    PROVE  /\ IntAbove(z, y) /\ IntAbove(y, x) => IntAbove(z, x)
           /\ IntAbove(x, y) /\ IntAbove(y, x) => x = y
  BY DEF IntAbove

\* An erase, cut or not, leaves less of the same save.
LEMMA EraseKeepsOrigin ==
    ASSUME ErasedByte = "ff", CrcIdx \in IntIdx,
           NEW c \in Content, HasOrigin(c), NEW d \in PartialErases(c)
    PROVE  HasOrigin(d)
<1>1. /\ \A i \in IntIdx : /\ c.ints[i] \in Int /\ d.ints[i] \in Int
                           /\ \/ d.ints[i] = c.ints[i]
                              \/ d.ints[i] = ErasedInt
                              \/ \E u \in TornUnits : d.ints[i] = HalfErasedInt(c.ints[i], u)
                           /\ IntAbove(d.ints[i], c.ints[i])
      /\ \A j \in StrIdx : d.strs[j] = c.strs[j] \/ d.strs[j] = ErasedStr
  <2>1. \A i \in IntIdx : c.ints[i] \in Int
    BY DEF Content, IntPool
  <2> QED
    BY <2>1, PartialErasesCells, ErasedIsAbove
<1>2. CASE c.ints[CrcIdx] < 0
  BY <1>1, <1>2 DEF IntAbove, HasOrigin
<1>3. CASE \E w \in Content : LeftOf(c, w)
  <2>1. PICK w \in Content : LeftOf(c, w)
    BY <1>3
  <2>2. Crc(Key(w)) \in Nat /\ \A i \in IntIdx : w.ints[i] \in Int
    BY KeyType DEF Content, IntPool
  <2>3. CellLeft(d.ints[CrcIdx], Crc(Key(w)))
    BY <1>1, <2>1, <2>2, CellLeftErased DEF LeftOf
  <2>4. IntAbove(d.ints[CrcIdx], Crc(Key(w)))
    BY <1>1, <2>1, <2>2, AboveIsAnOrder DEF LeftOf
  <2>5. \A i \in IntIdx \ {CrcIdx} : IntAbove(d.ints[i], w.ints[i])
    BY <1>1, <2>1, <2>2, AboveIsAnOrder DEF LeftOf
  <2>6. \A j \in StrIdx : StrAbove(d.strs[j], w.strs[j])
    BY <1>1, <2>1 DEF LeftOf, StrAbove
  <2> QED
    BY <2>3, <2>4, <2>5, <2>6 DEF HasOrigin, LeftOf
<1> QED
  BY <1>2, <1>3 DEF HasOrigin

\* And it never makes a region valid that was not.
LEMMA EraseRestoresNothing ==
    ASSUME ErasedByte = "ff", TornChecksumsMatchNothing,
           NEW c \in Content, HasOrigin(c), NEW d \in PartialErases(c), CrcMatches(d)
    PROVE  CrcMatches(c) /\ Key(c) = Key(d)
<1>0. CrcIdx \in IntIdx /\ d \in Content /\ ErasedStr = FFStr
  BY PartialErasesType DEF CrcMatches, ErasedStr
<1>1. /\ \A i \in IntIdx : /\ c.ints[i] \in Int /\ d.ints[i] \in Int
                           /\ \/ d.ints[i] = c.ints[i]
                              \/ d.ints[i] = ErasedInt
                              \/ \E u \in TornUnits : d.ints[i] = HalfErasedInt(c.ints[i], u)
                           /\ IntAbove(d.ints[i], c.ints[i])
      /\ \A j \in StrIdx : d.strs[j] = c.strs[j] \/ d.strs[j] = ErasedStr
  <2>1. \A i \in IntIdx : c.ints[i] \in Int
    BY DEF Content, IntPool
  <2> QED
    BY <2>1, PartialErasesCells, ErasedIsAbove
<1>2. d.ints[CrcIdx] = Crc(Key(d)) /\ Crc(Key(d)) \in Nat
  BY <1>0, ChecksumsOfKey, KeyType DEF CrcMatches
<1>3. ~(c.ints[CrcIdx] < 0)
  BY <1>0, <1>1, <1>2 DEF IntAbove
<1>4. PICK w \in Content : LeftOf(c, w)
  BY <1>3 DEF HasOrigin
<1>5. Crc(Key(w)) \in Nat /\ \A i \in IntIdx : w.ints[i] \in Int
  BY KeyType DEF Content, IntPool
<1>6. Key(d) = Key(w)
  <2>1. CellLeft(d.ints[CrcIdx], Crc(Key(w)))
    BY <1>0, <1>1, <1>4, <1>5, CellLeftErased DEF LeftOf
  <2> QED
    BY <1>0, <2>1, MatchIsWhole
<1>7. ASSUME NEW i \in IntIdx, i # CrcIdx
      PROVE  c.ints[i] = d.ints[i]
  <2>1. d.ints[i] = w.ints[i]
    BY <1>6, <1>7 DEF Key, Masked
  <2>2. IntAbove(c.ints[i], d.ints[i]) /\ IntAbove(d.ints[i], c.ints[i])
    BY <1>1, <1>4, <1>7, <2>1 DEF LeftOf
  <2> QED
    BY <1>1, <2>2, AboveIsAnOrder
<1>8. c.ints[CrcIdx] = d.ints[CrcIdx]
  <2>1. IntAbove(c.ints[CrcIdx], d.ints[CrcIdx]) /\ IntAbove(d.ints[CrcIdx], c.ints[CrcIdx])
    BY <1>0, <1>1, <1>2, <1>4, <1>6 DEF LeftOf
  <2> QED
    BY <1>0, <1>1, <2>1, AboveIsAnOrder
<1>9. c.strs = d.strs
  <2>1. \A j \in StrIdx : d.strs[j] = w.strs[j]
    BY <1>6 DEF Key
  <2>2. \A j \in StrIdx : c.strs[j] = d.strs[j]
    BY <1>0, <1>1, <1>4, <2>1 DEF LeftOf, StrAbove, ReadsAsBlank
  <2> QED
    BY <1>0, <2>2 DEF Content, StrPool
<1>10. Key(c) = Key(d)
  BY <1>7, <1>9 DEF Key, Masked
<1> QED
  BY <1>0, <1>2, <1>8, <1>10, ChecksumsOfKey DEF CrcMatches

\* The write of a pool p into an erased region, cut or not.
LEMMA IntsWriteOrigin ==
    ASSUME ErasedByte = "ff", CrcIdx \in IntIdx, NEW p \in Content, NEW new \in IntPool,
           new = [p.ints EXCEPT ![CrcIdx] = Crc(Key(p))],
           NEW d \in PartialIntWrites(ErasedContent, new)
    PROVE  HasOrigin(d) /\ (CrcMatches(d) => Key(d) = Key(p))
<1>0. /\ d \in Content /\ d.strs = ErasedContent.strs /\ ErasedInt = -1
      /\ Crc(Key(p)) \in Nat /\ \A i \in IntIdx : p.ints[i] \in Int /\ new[i] \in Int
  BY PartialIntWritesType, ErasedContentType, KeyType DEF ErasedInt, Content, IntPool
<1>1. \A i \in IntIdx : \/ d.ints[i] = -1
                        \/ d.ints[i] = new[i]
                        \/ \E u \in TornUnits : d.ints[i] = TornInt(new[i], u)
  <2>1. \A i \in IntIdx : ErasedContent.ints[i] = -1
    BY <1>0 DEF ErasedContent
  <2>2. ErasedContent \in Content
    BY ErasedContentType
  <2>3. \A i \in IntIdx : \/ d.ints[i] = ErasedContent.ints[i]
                          \/ d.ints[i] = new[i]
                          \/ \E u \in TornUnits : d.ints[i] = TornInt(new[i], u)
    BY <2>2, PartialIntWritesCells
  <2> QED
    BY <2>1, <2>3
<1>2. \A i \in IntIdx : d.ints[i] \in Int /\ IntAbove(d.ints[i], new[i])
  <2> SUFFICES ASSUME NEW i \in IntIdx PROVE d.ints[i] \in Int /\ IntAbove(d.ints[i], new[i])
    OBVIOUS
  <2>1. CASE \E u \in TornUnits : d.ints[i] = TornInt(new[i], u)
    BY <1>0, <2>1, TornIntIsNegative DEF IntAbove
  <2> QED
    BY <1>0, <1>1, <2>1 DEF IntAbove
<1>3. d.ints[CrcIdx] < 0 \/ d.ints[CrcIdx] = Crc(Key(p))
  <2>1. new[CrcIdx] = Crc(Key(p))
    BY DEF Content, IntPool
  <2> QED
    BY <1>0, <1>1, <2>1, TornIntIsNegative
<1>4. HasOrigin(d)
  <2>1. \A i \in IntIdx \ {CrcIdx} : new[i] = p.ints[i]
    BY DEF Content, IntPool
  <2>2. \A j \in StrIdx : d.strs[j] = ErasedStr
    BY <1>0 DEF ErasedContent
  <2>3. CASE d.ints[CrcIdx] = Crc(Key(p))
    <3>1. LeftOf(d, p)
      BY <1>0, <1>2, <2>1, <2>2, <2>3 DEF LeftOf, CellLeft, IntAbove, StrAbove
    <3> QED
      BY <3>1 DEF HasOrigin
  <2> QED
    BY <1>3, <2>3 DEF HasOrigin
<1>5. ASSUME CrcMatches(d)
      PROVE  Key(d) = Key(p)
  <2>1. d.ints[CrcIdx] = Crc(Key(d)) /\ Crc(Key(d)) \in Nat
    BY <1>0, <1>5, ChecksumsOfKey, KeyType DEF CrcMatches
  <2>2. Crc(Key(d)) = Crc(Key(p))
    BY <1>3, <2>1
  <2> QED
    BY <1>0, <2>2, KeyType, CrcAssumption
<1> QED
  BY <1>4, <1>5

LEMMA StrsWriteOrigin ==
    ASSUME ErasedByte = "ff", CrcIdx \in IntIdx, NEW p \in Content, NEW c \in Content,
           c.ints = p.ints, p.ints[CrcIdx] = Crc(Key(p)), c.strs = ErasedContent.strs,
           NEW d \in PartialStrWrites(c, p.strs)
    PROVE  HasOrigin(d) /\ (CrcMatches(d) => Key(d) = Key(p))
<1>0. d \in Content /\ p.strs \in StrPool /\ Crc(Key(p)) \in Nat
      /\ \A i \in IntIdx : p.ints[i] \in Int
  BY PartialStrWritesType, KeyType DEF Content, IntPool
<1>1. /\ d.ints = p.ints
      /\ \A j \in StrIdx : StrAbove(d.strs[j], p.strs[j])
  <2>1. \A j \in StrIdx : c.strs[j] = ErasedStr
    BY DEF ErasedContent
  <2> QED
    BY <1>0, <2>1, PartialStrWritesCells DEF StrAbove
<1>2. LeftOf(d, p)
  BY <1>0, <1>1 DEF LeftOf, CellLeft, IntAbove
<1>3. CrcMatches(d) => Crc(Key(d)) = Crc(Key(p))
  BY <1>1, ChecksumsOfKey DEF CrcMatches
<1> QED
  BY <1>0, <1>2, <1>3, KeyType, CrcAssumption DEF HasOrigin

----------------------------------------------------------------------------
(* The invariant                                                           *)

\* The application AtomicStore describes: no image is NoRom, by which the
\* refinement says that nothing is loaded yet.
AtomicApp ==
    /\ FaultOps = {} /\ UseCrc /\ UseRedundant
    /\ TornSavesAreDetected
    /\ NoRom \notin Content

\* Nothing fails while a save runs.
SaveRuns ==
    /\ pc # "idle" => res = "OK"
    /\ pc \in {"ints", "strs"} => Writable(Target)

Origins == \A r \in Roms : HasOrigin(flash[r])

ValidInRange == \A r \in Roms : CrcMatches(flash[r]) => ~AnyOutOfRange(flash[r].ints)

\* Between saves the store works with the region that a boot would choose.
ActiveIsChosen ==
    boot \in {"load", "ready"} /\ pc \in {"idle", "begin"} => active_rom = ChosenRom(flash)

\* The region that is written is valid only if it holds what is saved.
NewCopyOrNone ==
    pc \in {"ints", "strs", "end"} /\ CrcMatches(flash[Target]) => Key(flash[Target]) = Key(Pools)

AInv ==
    /\ IInv /\ AppInv /\ Opened /\ OldErased
    /\ SaveRuns /\ Origins /\ ValidInRange /\ NewCopyOrNone

\* Which region a boot chooses, when valid ones are in range.
LEMMA ChosenIsValid ==
    ASSUME UseCrc, UseRedundant, NEW f,
           \A r \in Roms : CrcMatches(f[r]) => ~AnyOutOfRange(f[r].ints)
    PROVE  /\ CrcMatches(f["primary"]) => ChosenRom(f) = "primary"
           /\ \A a, b \in Roms :
                 a # b /\ CrcMatches(f[a]) /\ ~CrcMatches(f[b]) => ChosenRom(f) = a
  BY DEF ChosenRom, UseRedundantRom, Roms

\* A region is in range when it is valid and its settings are in range.
LEMMA ValidKeyInRange ==
    ASSUME TornSavesAreDetected, UseCrc, NEW d \in Content, CrcMatches(d), NEW e, Key(d) = Key(e),
           \A i \in IntIdx \ {CrcIdx} : InRange(i, e.ints[i])
    PROVE  ~AnyOutOfRange(d.ints)
<1>1. /\ CrcIdx \in IntIdx /\ d.ints[CrcIdx] = Crc(Key(d)) /\ Key(d) \in MaskedContent
  BY ChecksumsOfKey, KeyType DEF CrcMatches, TornSavesAreDetected
<1>2. InRange(CrcIdx, d.ints[CrcIdx])
  BY <1>1 DEF TornSavesAreDetected, CrcCellAcceptsCrc
<1>3. \A i \in IntIdx \ {CrcIdx} : d.ints[i] = e.ints[i]
  BY DEF Key, Masked
<1> QED
  BY <1>2, <1>3 DEF AnyOutOfRange

\* What an operation under way may leave: a region that is valid either was
\* valid with the same content, or holds what is saved.
LEMMA CutEffect ==
    ASSUME AtomicApp, AInv, NEW r \in Roms, r = Target, NEW d \in CutShort(r)
    PROVE  /\ d \in Content
           /\ HasOrigin(d)
           /\ CrcMatches(d) => \/ CrcMatches(flash[r]) /\ Key(d) = Key(flash[r])
                               \/ pc \in {"ints", "strs"} /\ Key(d) = Key(Pools)
           /\ CrcMatches(d) => ~AnyOutOfRange(d.ints)
<1>0. /\ TypeOK /\ Booted /\ Opened /\ PoolInRange /\ ErasedByte = "ff"
      /\ TornChecksumsMatchNothing /\ TornSavesAreDetected /\ UseCrc /\ CrcIdx \in IntIdx
      /\ flash[r] \in Content /\ HasOrigin(flash[r])
      /\ Pools \in Content /\ Pools.ints = ints /\ Pools.strs = strs
      /\ IntsWritten /\ CrcInPool /\ ProgramsErasedFlash /\ d \in Content
  BY AppAssumption, CutShortType DEF AInv, IInv, AppInv, AtomicApp, TornSavesAreDetected,
     Origins, TypeOK, Pools, Content, Progress
<1>1. CASE d = flash[r]
  BY <1>0, <1>1 DEF AInv, ValidInRange
<1>2. CASE pc \in {"begin", "begin_old"} /\ rom[r].inited
  <2>1. d \in PartialErases(flash[r])
    BY <1>2 DEF CutShort
  <2>2. HasOrigin(d)
    BY <1>0, <2>1, EraseKeepsOrigin
  <2>3. ASSUME CrcMatches(d)
        PROVE  CrcMatches(flash[r]) /\ Key(d) = Key(flash[r])
    BY <1>0, <2>1, <2>3, EraseRestoresNothing
  <2>4. ASSUME CrcMatches(d)
        PROVE  ~AnyOutOfRange(d.ints)
    <3>1. \A i \in IntIdx : InRange(i, flash[r].ints[i])
      BY <2>3, <2>4 DEF AInv, ValidInRange, AnyOutOfRange
    <3> QED
      BY <1>0, <2>3, <2>4, <3>1, ValidKeyInRange
  <2> QED
    BY <1>0, <2>2, <2>3, <2>4
<1>3. CASE pc \in {"ints", "strs"} /\ Writable(r)
  <2>1. CrcInUse /\ \A i \in IntIdx : InRange(i, ints[i])
    BY <1>0, <1>3, SavedChecksum DEF PoolInRange, Booted
  <2>2. HasOrigin(d) /\ (CrcMatches(d) => Key(d) = Key(Pools))
    <3>1. CASE pc = "ints"
      <4>1. flash[r] = ErasedContent /\ d \in PartialIntWrites(ErasedContent, PoolWithCrc)
        BY <1>0, <1>3, <3>1 DEF CutShort, ProgramsErasedFlash
      <4>2. PoolWithCrc = [ints EXCEPT ![CrcIdx] = Crc(Key(Pools))] /\ PoolWithCrc \in IntPool
        BY <1>0, <2>1, ChecksumsOfKey, PoolsOfSaveType DEF PoolWithCrc, Pools
      <4> QED
        BY <1>0, <4>1, <4>2, IntsWriteOrigin
    <3>2. CASE pc = "strs"
      <4>1. /\ flash[r].strs = ErasedContent.strs /\ d \in PartialStrWrites(flash[r], strs)
            /\ flash[r].ints = ints
        BY <1>0, <1>3, <3>2 DEF CutShort, ProgramsErasedFlash, IntsWritten
      <4>2. ints[CrcIdx] = Crc(Key(Pools))
        BY <1>0, <2>1, <3>2, ChecksumsOfKey DEF CrcInPool, Pools
      <4> QED
        BY <1>0, <4>1, <4>2, StrsWriteOrigin
    <3> QED
      BY <1>3, <3>1, <3>2
  <2>3. CrcMatches(d) => ~AnyOutOfRange(d.ints)
    BY <1>0, <2>1, <2>2, ValidKeyInRange
  <2> QED
    BY <1>0, <1>3, <2>2, <2>3
<1> QED
  BY <1>1, <1>2, <1>3 DEF CutShort

\* An erased region is not valid.
LEMMA ErasedIsInvalid ==
    ASSUME ErasedByte = "ff"
    PROVE  ~CrcMatches(ErasedContent)
<1>1. CrcIdx \in IntIdx => ErasedContent.ints[CrcIdx] = -1
  BY DEF ErasedContent, ErasedInt
<1> QED
  BY <1>1, ChecksumsOfKey, KeyType, ErasedContentType DEF CrcMatches

\* Once the regions are switched the active one holds what is saved.
LEMMA NewCopyIsValid ==
    ASSUME AtomicApp, AInv, pc \in {"begin_old", "end_old"}
    PROVE  flash[active_rom] = Pools /\ CrcMatches(flash[active_rom])
<1>1. TypeOK /\ Booted /\ Opened /\ Switched /\ CrcInPool /\ res = "OK" /\ UseCrc
  BY DEF AInv, IInv, AppInv, Progress, SaveRuns, AtomicApp
<1>2. flash[active_rom] = Pools /\ Pools.ints = ints /\ Pools.strs = strs
  BY <1>1 DEF Switched, Pools
<1>3. CrcInUse /\ CrcIdx \in IntIdx
  BY <1>1, SavedChecksum
<1>4. ints[CrcIdx] = Crc(Key(Pools))
  BY <1>1, <1>3, ChecksumsOfKey DEF CrcInPool, Pools
<1> QED
  BY <1>2, <1>3, <1>4, ChecksumsOfKey DEF CrcMatches, AtomicApp, TornSavesAreDetected

\* The steps of a save, when nothing fails.
LEMMA SaveSteps ==
    ASSUME AtomicApp, AInv, SaveStep
    PROVE  /\ SaveRuns'
           /\ pc # "idle" /\ boot = "ready"
           /\ pc' = "idle" <=> EndOld
           /\ Key(Pools') = Key(Pools)
           /\ pc' \in {"strs", "end"} =>
                  pc \in {"ints", "strs"} /\ UNCHANGED <<active_rom, standby_rom>>
           /\ pc' = "ints" =>
                  flash'[Target] = ErasedContent /\ UNCHANGED <<active_rom, standby_rom>>
           /\ pc' # "begin"
<1>0. /\ TypeOK /\ Pointers /\ Booted /\ Opened /\ SaveRuns /\ FaultOps = {} /\ UseRedundant
      /\ UseCrc
      /\ pc # "idle" /\ boot = "ready" /\ res = "OK"
  <2>1. pc # "idle"
    BY DEF SaveStep, BeginWrite, WriteInts, WriteStrs, EndWrite, EraseOld, EndOld
  <2> QED
    BY <2>1 DEF AInv, IInv, AppInv, AtomicApp, SaveRuns, Booted
<1>1. /\ Target \in Roms /\ standby_rom # NoRom
      /\ \A r \in Roms : rom[r].inited
  BY <1>0, TargetIsRom DEF Opened, Roms
<1>2. CASE BeginWrite
  <2>1. /\ pc' = "ints" /\ res' = res
        /\ UNCHANGED <<ints, strs, active_rom, standby_rom>>
        /\ Target' = Target /\ Pools' = Pools
    BY <1>2 DEF BeginWrite, Goto, pools, Target, Pools
  <2>2. PICK r \in Roms : r = Target
    BY <1>1
  <2>3. /\ flash' = [flash EXCEPT ![r] = ErasedContent]
        /\ \E erased : rom' = [rom EXCEPT ![r].erased = erased, ![r].write_protected = FALSE]
    <3>1. /\ flash' = [flash EXCEPT ![r] = ErasedContent]
          /\ rom' = [[rom EXCEPT ![r].erased = standby_rom = NoRom \/ rom[Target].erased]
                       EXCEPT ![r].write_protected = FALSE]
      BY <1>0, <1>1, <1>2, <2>2 DEF BeginWrite, RomBeginWrite
    <3> QED
      BY <3>1
  <2>4. flash'[r] = ErasedContent /\ rom'[r].inited /\ ~rom'[r].write_protected
    BY <1>0, <1>1, <2>3 DEF TypeOK, RomState
  <2> QED
    BY <1>0, <1>2, <2>1, <2>2, <2>4 DEF SaveRuns, Writable, BeginWrite, EndOld
<1>3. CASE WriteInts
  <2>1. /\ pc = "ints" /\ pc' = "strs" /\ ints' = PoolWithCrc
        /\ UNCHANGED <<strs, res, rom, active_rom, standby_rom>>
    BY <1>0, <1>3 DEF WriteInts, SaveRuns, config, roms
  <2>2. Key(Pools') = Key(Pools)
    BY <1>0, <2>1 DEF Key, Pools, Masked, PoolWithCrc, TypeOK, IntPool
  <2>3. Writable(Target)'
    BY <1>0, <2>1 DEF SaveRuns, Writable, Target
  <2> QED
    BY <1>0, <2>1, <2>2, <2>3 DEF SaveRuns, EndOld
<1>4. CASE WriteStrs
  <2>1. pc = "strs" /\ pc' = "end" /\ UNCHANGED <<ints, strs, res, active_rom, standby_rom>>
    BY <1>0, <1>4 DEF WriteStrs, SaveRuns, config
  <2> QED
    BY <1>0, <2>1 DEF SaveRuns, EndOld, Key, Pools
<1>5. CASE EndWrite
  <2>1. pc = "end" /\ pc' = "begin_old" /\ UNCHANGED <<ints, strs, res>>
    BY <1>0, <1>1, <1>5 DEF EndWrite, SwitchesRoms, Goto, pools
  <2> QED
    BY <1>0, <2>1 DEF SaveRuns, EndOld, Key, Pools
<1>6. CASE EraseOld
  <2>1. pc = "begin_old" /\ pc' = "end_old" /\ UNCHANGED <<ints, strs, res>>
    BY <1>6 DEF EraseOld, Goto, pools
  <2> QED
    BY <1>0, <2>1 DEF SaveRuns, EndOld, Key, Pools
<1>7. CASE EndOld
  <2>1. pc' = "idle" /\ UNCHANGED <<ints, strs>>
    BY <1>7 DEF EndOld, Return, pools
  <2> QED
    BY <1>0, <1>7, <2>1 DEF SaveRuns, Key, Pools
<1> QED
  BY <1>2, <1>3, <1>4, <1>5, <1>6, <1>7 DEF SaveStep

\* All other steps end with no save running, or with one that has just begun.
LEMMA OtherSteps ==
    ASSUME AppNext, ~ContinueSave
    PROVE  /\ pc' = "idle" \/ (Save /\ pc' = "begin" /\ res' = "OK")
           /\ LosePower \/ (pc = "idle" /\ UNCHANGED flash)
  BY DEF AppNext, BootInit, BootEnableCrc, BootInitRedundantPage, BootLoad, Edit, Save,
     LosePower, ParamsInit, ParamsEnableCrc, ParamsInitRedundantPage, ParamsLoad,
     ParamsSetIntegerValue, ParamsSetStringValue, ParamsResetToDefault, ParamsSave, Return,
     PowerLoss, Reset, call, device

LEMMA AInvStep ==
    ASSUME AtomicApp, AInv, AppNext
    PROVE  AInv'
<1>0. /\ DefaultsInRange /\ CrcCellAcceptsCrc /\ IInv /\ TypeOK /\ Pointers /\ AppInv /\ Booted
      /\ Opened /\ UseRedundant /\ ErasedByte = "ff"
  BY DEF AtomicApp, TornSavesAreDetected, AInv, IInv, AppInv
<1>1. IInv' /\ TypeOK'
  BY <1>0, AppStepIsStep, NextInv DEF IInv
<1>2. AppInv' /\ Opened'
  BY <1>0, BootedStep, PoolInRangeStep, OpenedStep DEF AppInv
<1>3. OldErased'
  BY <1>0, OldErasedStep DEF AtomicApp
<1>4. SaveRuns'
  BY SaveSteps, OtherSteps DEF ContinueSave, SaveRuns
<1>5. ASSUME NEW r \in Roms
      PROVE  HasOrigin(flash'[r]) /\ (CrcMatches(flash'[r]) => ~AnyOutOfRange(flash'[r].ints))
  <2>1. flash'[r] = flash[r] \/ (r = Target /\ flash'[r] \in CutShort(r))
    BY <1>0, AppStepIsStep, FlashStep DEF appVars, vars, device
  <2> QED
    BY <2>1, CutEffect DEF AInv, Origins, ValidInRange
<1>6. NewCopyOrNone'
  <2> SUFFICES ASSUME pc' \in {"ints", "strs", "end"}, CrcMatches(flash'[Target'])
               PROVE  Key(flash'[Target']) = Key(Pools')
    BY DEF NewCopyOrNone
  <2>1. SaveStep /\ pc # "idle"
    BY OtherSteps, SaveSteps DEF ContinueSave
  <2>2. PICK r \in Roms : r = Target
    BY <1>0, <2>1, TargetIsRom
  <2>3. Target' = r /\ pc' # "ints" /\ pc \in {"ints", "strs"}
    BY <1>0, <2>1, <2>2, SaveSteps, ErasedIsInvalid DEF Target
  <2>4. Key(Pools') = Key(Pools)
    BY <2>1, SaveSteps
  <2>5. flash'[r] = flash[r] \/ flash'[r] \in CutShort(r)
    BY <1>0, <2>2, AppStepIsStep, FlashStep DEF appVars, vars, device
  <2>6. CrcMatches(flash[r]) => Key(flash[r]) = Key(Pools)
    BY <2>2, <2>3 DEF AInv, NewCopyOrNone
  <2> QED
    BY <2>2, <2>3, <2>4, <2>5, <2>6, CutEffect
<1> QED
  BY <1>1, <1>2, <1>3, <1>4, <1>5, <1>6 DEF AInv, Origins, ValidInRange

RInv == AInv /\ ActiveIsChosen

\* A boot chooses the active region before every save and after it.
LEMMA ActiveIsChosenStep ==
    ASSUME AtomicApp, RInv, AInv', AppNext
    PROVE  ActiveIsChosen'
<1>0. /\ TypeOK /\ Pointers /\ Booted /\ Opened /\ UseCrc /\ UseRedundant /\ AInv
      /\ ErasedByte = "ff" /\ IInv
  BY DEF RInv, AInv, IInv, AppInv, AtomicApp, TornSavesAreDetected
<1> SUFFICES ASSUME boot' \in {"load", "ready"}, pc' \in {"idle", "begin"}
             PROVE  active_rom' = ChosenRom(flash')
  BY DEF ActiveIsChosen
<1>1. CASE boot' = "load"
  <2>1. BootInv /\ "read" \notin FaultOps
    BY <1>0 DEF RInv, ActiveIsChosen, BootInv, Booted, ChosenIsActive, AtomicApp
  <2> QED
    BY <1>1, <2>1, ChosenIsActiveStep DEF ChosenIsActive
<1>2. CASE boot' = "ready" /\ ~ContinueSave
  <2>1. /\ boot \in {"load", "ready"} /\ pc = "idle"
        /\ UNCHANGED <<active_rom, flash>>
    BY <1>2 DEF AppNext, BootInit, BootEnableCrc, BootInitRedundantPage, LosePower, AfterCrc,
       BootLoad, Edit, Save, ParamsLoad, ParamsSetIntegerValue, ParamsSetStringValue,
       ParamsResetToDefault, ParamsSave, device, roms
  <2> QED
    BY <2>1 DEF RInv, ActiveIsChosen
<1>3. CASE ContinueSave
  <2>1. EndOld
    BY <1>0, <1>3, SaveSteps DEF ContinueSave
  <2>2. pc = "end_old" /\ UNCHANGED <<flash, active_rom, standby_rom>>
    BY <2>1 DEF EndOld
  <2>3. CrcMatches(flash[active_rom]) /\ ~CrcMatches(flash[standby_rom])
    BY <1>0, <2>2, NewCopyIsValid, ErasedIsInvalid DEF AInv, OldErased
  <2>4. active_rom \in Roms /\ standby_rom \in Roms
    BY <1>0, <2>2, TargetIsRom DEF Pointers
  <2>5. ChosenRom(flash) = active_rom
    BY <1>0, <2>3, <2>4, ChosenIsValid DEF AInv, ValidInRange
  <2> QED
    BY <2>2, <2>5
<1> QED
  BY <1>1, <1>2, <1>3

LEMMA RInvariance == AtomicApp => (AppSpec => []RInv)
<1> SUFFICES ASSUME AtomicApp PROVE AppSpec => []RInv
  OBVIOUS
<1>1. AppInit => RInv
  <2> SUFFICES ASSUME AppInit PROVE RInv
    OBVIOUS
  <2>1. IInv /\ pc = "idle" /\ boot = "init" /\ flash = [r \in Roms |-> ErasedContent]
    BY InitInv DEF AppInit, Init, VolatileInit
  <2>2. AppInv /\ Opened /\ OldErased /\ SaveRuns /\ NewCopyOrNone /\ ActiveIsChosen
    BY <2>1 DEF AppInit, Init, VolatileInit, AppInv, Booted, PoolInRange, Opened, BootSteps,
       OldErased, SaveRuns, NewCopyOrNone, ActiveIsChosen
  <2>3. ErasedContent.ints[CrcIdx] < 0
    BY AppAssumption DEF AtomicApp, TornSavesAreDetected, ErasedContent, ErasedInt
  <2>4. Origins /\ ValidInRange
    BY <2>1, <2>3, ErasedIsInvalid DEF Origins, HasOrigin, ValidInRange, AtomicApp,
       TornSavesAreDetected
  <2> QED
    BY <2>1, <2>2, <2>4 DEF RInv, AInv
<1>2. RInv /\ [AppNext]_appVars => RInv'
  <2> SUFFICES ASSUME RInv, [AppNext]_appVars PROVE RInv'
    OBVIOUS
  <2>1. CASE AppNext
    BY <2>1, AInvStep, ActiveIsChosenStep DEF RInv
  <2>2. CASE UNCHANGED appVars
    <3>1. IInv' /\ AppInv'
      BY <2>2, StutterInv, AppInvStutter DEF RInv, AInv, appVars
    <3> QED
      BY <2>2, <3>1 DEF RInv, AInv, Opened, OldErased, SaveRuns, Origins, ValidInRange,
         NewCopyOrNone, ActiveIsChosen, Writable, Target, Pools, appVars, vars, device, pools,
         config, roms, call
  <2> QED
    BY <2>1, <2>2
<1> QED
  BY <1>1, <1>2, PTL DEF AppSpec

----------------------------------------------------------------------------
(* What an operation does to the image a boot loads                        *)

BackedBy(f) == \E r \in Roms : CrcMatches(f[r])

\* A string pool that is already there, because all its cells read as erased,
\* stays there.
LEMMA StrsStayValid ==
    ASSUME AtomicApp, AInv, pc = "strs", NEW r \in Roms, r = Target, CrcMatches(flash[r]),
           NEW d \in CutShort(r)
    PROVE  d = flash[r]
<1>0. /\ TypeOK /\ flash[r] \in Content /\ d \in Content /\ strs \in StrPool
      /\ ErasedStr = FFStr /\ Writable(r) /\ ProgramsErasedFlash
  BY CutShortType DEF AInv, IInv, TypeOK, AtomicApp, TornSavesAreDetected, ErasedStr, SaveRuns
<1>1. d \in PartialStrWrites(flash[r], strs)
  BY <1>0 DEF CutShort
<1>2. flash[r].strs = strs /\ \A j \in StrIdx : flash[r].strs[j] = ErasedStr
  <2>1. Key(flash[r]) = Key(Pools)
    BY DEF AInv, NewCopyOrNone
  <2> QED
    BY <1>0, <2>1 DEF Key, Pools, ProgramsErasedFlash, ErasedContent
<1>3. d.ints = flash[r].ints /\ \A j \in StrIdx : d.strs[j] = flash[r].strs[j]
  BY <1>0, <1>1, <1>2, PartialStrWritesCells DEF ReadsAsBlank
<1>4. d.strs = flash[r].strs
  BY <1>0, <1>3 DEF Content, StrPool
<1> QED
  BY <1>0, <1>3, <1>4 DEF Content

\* While a save runs, an operation on the region it works on, cut or not,
\* leaves the image alone, or makes it the one that is saved, unless nothing
\* was stored before.
LEMMA OperationIsAtomic ==
    ASSUME AtomicApp, RInv, pc # "idle", NEW t \in Roms, t = Target, NEW g,
           \A r \in Roms \ {t} : g[r] = flash[r],
           g[t] = flash[t] \/ g[t] \in CutShort(t)
    PROVE  \/ Recovered(g) = Recovered(flash) /\ (BackedBy(g) <=> BackedBy(flash))
           \/ Recovered(g) = Image(Pools) /\ BackedBy(g)
           \/ ~BackedBy(flash) /\ ~BackedBy(g)
<1>0. /\ TypeOK /\ Pointers /\ Booted /\ Opened /\ UseCrc /\ UseRedundant /\ AInv
      /\ boot = "ready" /\ ErasedByte = "ff" /\ ProgramsErasedFlash
  BY DEF RInv, AInv, IInv, AppInv, Booted, AtomicApp, TornSavesAreDetected
<1> DEFINE a == active_rom
           d == g[t]
<1>1. /\ a \in Roms /\ t = standby_rom /\ a # t /\ {a, t} = {"primary", "redundant"}
      /\ Roms = {a, t} /\ g[a] = flash[a]
  BY <1>0, TargetIsRom DEF Opened, Roms
<1>2. \A r \in Roms : /\ CrcMatches(flash[r]) => ~AnyOutOfRange(flash[r].ints)
                      /\ CrcMatches(g[r]) => ~AnyOutOfRange(g[r].ints)
  <2>1. \A r \in Roms : CrcMatches(flash[r]) => ~AnyOutOfRange(flash[r].ints)
    BY <1>0 DEF AInv, ValidInRange
  <2>2. CrcMatches(d) => ~AnyOutOfRange(d.ints)
    BY <1>0, <2>1, CutEffect
  <2> QED
    BY <1>1, <2>1, <2>2
<1> DEFINE Chosen(f) == /\ CrcMatches(f["primary"]) => ChosenRom(f) = "primary"
                        /\ CrcMatches(f[a]) /\ ~CrcMatches(f[t]) => ChosenRom(f) = a
                        /\ CrcMatches(f[t]) /\ ~CrcMatches(f[a]) => ChosenRom(f) = t
                        /\ ChosenRom(f) \in {a, t}
<1>3. Chosen(flash) /\ Chosen(g)
  <2>1. ASSUME NEW f, \A r \in Roms : CrcMatches(f[r]) => ~AnyOutOfRange(f[r].ints)
        PROVE  Chosen(f)
    BY <1>0, <1>1, <2>1, ChosenIsValid DEF ChosenRom
  <2> QED
    BY <1>2, <2>1
<1>4. CASE d = flash[t]
  <2>1. g["primary"] = flash["primary"] /\ g["redundant"] = flash["redundant"]
    BY <1>1, <1>4
  <2> QED
    BY <1>1, <1>4, <2>1 DEF Recovered, ChosenRom, BackedBy
<1>5. CASE d # flash[t] /\ CrcMatches(d) /\ CrcMatches(flash[t]) /\ Key(d) = Key(flash[t])
  <2>1. Image(d) = Image(flash[t])
    BY <1>0, <1>5, ImageOfKey
  <2>2. ChosenRom(g) = ChosenRom(flash)
    BY <1>1, <1>3, <1>5
  <2> QED
    BY <1>1, <1>3, <1>5, <2>1, <2>2 DEF Recovered, BackedBy
<1>6. CASE CrcMatches(d) /\ pc \in {"ints", "strs"} /\ Key(d) = Key(Pools)
  <2>1. Image(d) = Image(Pools)
    BY <1>0, <1>6, ImageOfKey
  <2>2. CASE ChosenRom(g) = t
    BY <1>6, <2>1, <2>2 DEF Recovered, BackedBy
  <2>3. CASE ChosenRom(g) = a
    <3>1. CrcMatches(g[a]) /\ a = "primary"
      BY <1>1, <1>3, <1>6, <2>3
    <3>2. ChosenRom(flash) = a
      BY <1>1, <1>3, <3>1
    <3> QED
      BY <1>1, <1>6, <2>3, <3>1, <3>2 DEF Recovered, BackedBy
  <2> QED
    BY <1>3, <2>2, <2>3
<1>7. CASE d # flash[t] /\ ~CrcMatches(d) /\ pc \in {"begin", "ints", "strs", "end"}
  <2>1. CASE CrcMatches(flash[t])
    <3>1. pc = "begin"
      <4>1. pc # "strs"
        BY <1>0, <1>7, <2>1, StrsStayValid
      <4>2. pc = "ints" => flash[t] = ErasedContent
        BY <1>0 DEF ProgramsErasedFlash, AInv, SaveRuns
      <4>3. pc # "end"
        BY <1>7 DEF CutShort
      <4> QED
        BY <1>0, <1>7, <2>1, <4>1, <4>2, <4>3, ErasedIsInvalid
    <3>2. ChosenRom(flash) = a
      BY <1>0, <3>1 DEF RInv, ActiveIsChosen
    <3>3. CrcMatches(flash[a]) /\ ChosenRom(g) = a
      BY <1>1, <1>3, <1>7, <2>1, <3>2
    <3> QED
      BY <1>1, <3>2, <3>3 DEF Recovered, BackedBy
  <2>2. CASE ~CrcMatches(flash[t]) /\ CrcMatches(flash[a])
    <3>1. ChosenRom(flash) = a /\ ChosenRom(g) = a
      BY <1>1, <1>3, <1>7, <2>2
    <3> QED
      BY <1>1, <2>2, <3>1 DEF Recovered, BackedBy
  <2>3. CASE ~CrcMatches(flash[t]) /\ ~CrcMatches(flash[a])
    BY <1>1, <1>7, <2>3 DEF BackedBy
  <2> QED
    BY <2>1, <2>2, <2>3
<1>8. CASE ~CrcMatches(d) /\ pc \in {"begin_old", "end_old"}
  <2>1. flash[a] = Pools /\ CrcMatches(flash[a])
    BY <1>0, <1>8, NewCopyIsValid
  <2>2. ChosenRom(g) = a
    BY <1>1, <1>3, <1>8, <2>1
  <2> QED
    BY <1>1, <2>1, <2>2 DEF Recovered, BackedBy
<1>9. d = flash[t] \/ (CrcMatches(d) => \/ CrcMatches(flash[t]) /\ Key(d) = Key(flash[t])
                                        \/ pc \in {"ints", "strs"} /\ Key(d) = Key(Pools))
  BY <1>0, CutEffect
<1>10. pc \in {"begin", "ints", "strs", "end", "begin_old", "end_old"}
  BY <1>0 DEF TypeOK, PCs
<1> HIDE DEF a, d
<1> QED
  BY <1>4, <1>5, <1>6, <1>7, <1>8, <1>9, <1>10

----------------------------------------------------------------------------
(* The refinement                                                          *)

\* What a boot loads is an image.
LEMMA ImageType ==
    ASSUME NEW c \in Content
    PROVE  Image(c) \in Content
<1>1. LoadedInts(c.ints) \in IntPool /\ LoadedStrs(c.strs) \in StrPool
  BY LoadedType DEF Content
<1>2. Masked(LoadedInts(c.ints)) \in IntPool
  BY <1>1 DEF Masked, IntPool
<1> QED
  BY <1>1, <1>2 DEF Image, Content

LEMMA RecoveredType ==
    ASSUME NEW f \in [Roms -> Content]
    PROVE  Recovered(f) \in Content
<1>1. f[ChosenRom(f)] \in Content
  BY DEF ChosenRom, Roms
<1> QED
  BY <1>1, ImageType DEF Recovered

\* The abstract disk.
Disk == Recovered(flash)

LEMMA AbstractInit ==
    ASSUME AtomicApp, AppInit
    PROVE  Atomic!Init
<1>1. TypeOK /\ flash = [r \in Roms |-> ErasedContent] /\ boot = "init" /\ pc = "idle"
  BY InitInv DEF IInv, AppInit, Init, VolatileInit
<1>2. ~Backed
  BY <1>1, ErasedIsInvalid DEF Backed, AtomicApp, TornSavesAreDetected
<1> QED
  BY <1>1, <1>2, RecoveredType DEF Atomic!Init, TypeOK

\* The calls of the application, which leave the flash alone.
LEMMA CallIsAbstract ==
    ASSUME AtomicApp, RInv, RInv', AppNext, ~ContinueSave, ~LosePower
    PROVE  [Atomic!Next]_Atomic!vars
<1>0. /\ TypeOK /\ Booted /\ pc = "idle" /\ UNCHANGED flash
      /\ Pools \in Content /\ Pools' \in Content
      /\ Disk' = Disk /\ Backed' = Backed
  <2>1. UNCHANGED flash /\ pc = "idle"
    BY OtherSteps
  <2> QED
    BY <2>1 DEF RInv, AInv, IInv, AppInv, TypeOK, Pools, Content, Disk, Backed
<1>1. CASE BootInit \/ BootEnableCrc \/ BootInitRedundantPage
  <2>1. boot # "ready" /\ boot' # "ready" /\ pc' = "idle"
    BY <1>1 DEF BootInit, BootEnableCrc, BootInitRedundantPage, AfterCrc, ParamsInit,
       ParamsEnableCrc, ParamsInitRedundantPage, Return
  <2> QED
    BY <1>0, <2>1 DEF Atomic!vars, Disk
<1>2. CASE BootLoad
  <2>1. boot = "load" /\ boot' = "ready" /\ pc' = "idle"
    BY <1>2 DEF BootLoad, ParamsLoad, Return
  <2>2. "read" \notin FaultOps /\ BootInv
    BY <1>0 DEF RInv, AInv, ActiveIsChosen, BootInv, AppInv, ChosenIsActive, AtomicApp
  <2>3. Image(Pools') = Recovered(flash)
    BY <1>2, <2>2, BootLoadsChosen
  <2>4. Atomic!Load
    BY <1>0, <2>1, <2>3 DEF Atomic!Load, Disk
  <2> QED
    BY <2>4 DEF Atomic!Next
<1>3. CASE Edit
  <2>1. boot = "ready" /\ boot' = "ready" /\ pc' = "idle"
    BY <1>0, <1>3 DEF Edit, ParamsSetIntegerValue, ParamsSetStringValue, ParamsResetToDefault,
       Return, call
  <2>2. Image(Pools) # NoRom /\ Image(Pools') \in Content
    BY <1>0, ImageType DEF AtomicApp
  <2>3. Atomic!Edit
    BY <1>0, <2>1, <2>2 DEF Atomic!Edit, Disk
  <2> QED
    BY <2>3 DEF Atomic!Next
<1>4. CASE Save
  <2>1. boot = "ready" /\ boot' = "ready" /\ UNCHANGED pools /\ (pc' = "begin" \/ pc' = "idle")
    BY <1>4 DEF Save, ParamsSave, Return
  <2>2. Image(Pools') = Image(Pools) /\ Image(Pools) # NoRom
    BY <1>0, <2>1, ImageType DEF Pools, pools, AtomicApp
  <2>3. CASE pc' = "begin"
    <3>1. Atomic!StartSave
      BY <1>0, <2>1, <2>2, <2>3 DEF Atomic!StartSave, Disk
    <3> QED
      BY <3>1 DEF Atomic!Next
  <2>4. CASE pc' = "idle"
    BY <1>0, <2>1, <2>2, <2>4 DEF Atomic!vars, Disk
  <2> QED
    BY <2>1, <2>3, <2>4
<1> QED
  BY <1>1, <1>2, <1>3, <1>4 DEF AppNext

\* What the steps of a save and the power losses inside it do to the flash.
LEMMA FlashOfSave ==
    ASSUME AtomicApp, RInv, AppNext, pc # "idle"
    PROVE  \/ Recovered(flash') = Recovered(flash) /\ (BackedBy(flash') <=> BackedBy(flash))
           \/ Recovered(flash') = Image(Pools) /\ BackedBy(flash')
           \/ ~BackedBy(flash) /\ ~BackedBy(flash')
<1>1. IInv /\ TypeOK /\ Pointers
  BY DEF RInv, AInv, IInv
<1>2. Target \in Roms
  BY <1>1, TargetIsRom
<1>3. \A r \in Roms : flash'[r] = flash[r] \/ (r = Target /\ flash'[r] \in CutShort(r))
  BY <1>1, AppStepIsStep, FlashStep DEF appVars, vars, device
<1> QED
  BY <1>2, <1>3, OperationIsAtomic

\* The steps of a save.
LEMMA SaveIsAbstract ==
    ASSUME AtomicApp, RInv, RInv', AppNext, ContinueSave
    PROVE  [Atomic!Next]_Atomic!vars
<1>0. /\ SaveStep /\ AInv /\ UseCrc
      /\ boot = "ready" /\ boot' = "ready" /\ pc # "idle"
      /\ (pc' = "idle" <=> EndOld) /\ Key(Pools') = Key(Pools)
  BY SaveSteps DEF ContinueSave, RInv, AtomicApp
<1>1. flash' \in [Roms -> Content]
  BY DEF RInv, AInv, IInv, TypeOK
<1>2. Image(Pools') = Image(Pools)
  BY <1>0, ImageOfKey
<1>3. CASE EndOld
  <2>1. pc = "end_old" /\ pc' = "idle" /\ flash' = flash /\ active_rom' = active_rom
    BY <1>0, <1>3 DEF EndOld
  <2>2. flash[active_rom] = Pools /\ CrcMatches(flash[active_rom]) /\ active_rom \in Roms
    BY <1>0, <2>1, NewCopyIsValid, TargetIsRom DEF AInv, IInv
  <2>3. active_rom = ChosenRom(flash)
    BY <1>0, <2>1 DEF RInv, ActiveIsChosen
  <2>4. Recovered(flash) = Image(Pools) /\ Backed
    BY <2>2, <2>3 DEF Recovered, Backed
  <2>5. Backed'
    BY <2>1, <2>4 DEF Backed
  <2>6. Atomic!Acknowledge
    BY <1>0, <1>2, <2>1, <2>4, <2>5 DEF Atomic!Acknowledge
  <2> QED
    BY <2>6 DEF Atomic!Next
<1>4. CASE ~EndOld
  <2>1. CASE Recovered(flash') = Recovered(flash) /\ (BackedBy(flash') <=> BackedBy(flash))
    <3>1. Backed' <=> Backed
      BY <2>1 DEF Backed, BackedBy
    <3> QED
      BY <1>0, <1>2, <1>4, <2>1, <3>1 DEF Atomic!vars, Backed
  <2>2. CASE Recovered(flash') = Image(Pools) /\ BackedBy(flash')
    <3>1. Backed'
      BY <2>2 DEF Backed, BackedBy
    <3>2. Atomic!Commit
      BY <1>0, <1>2, <1>4, <2>2, <3>1 DEF Atomic!Commit, Backed
    <3> QED
      BY <3>2 DEF Atomic!Next
  <2>3. CASE ~BackedBy(flash) /\ ~BackedBy(flash')
    <3>1. ~Backed /\ ~Backed'
      BY <2>3 DEF Backed, BackedBy
    <3>2. Atomic!Tear
      BY <1>0, <1>1, <1>2, <1>4, <3>1, RecoveredType DEF Atomic!Tear, Backed
    <3> QED
      BY <3>2 DEF Atomic!Next
  <2> QED
    BY <1>0, <2>1, <2>2, <2>3, FlashOfSave
<1> QED
  BY <1>3, <1>4

\* A loss of power.
LEMMA PowerLossIsAbstract ==
    ASSUME AtomicApp, RInv, AppNext, LosePower
    PROVE  Atomic!Crash
<1>0. /\ pc' = "idle" /\ boot' = "init" /\ TypeOK /\ Pointers /\ Booted
      /\ pc # "idle" => boot = "ready"
  BY DEF LosePower, PowerLoss, Reset, RInv, AInv, IInv, AppInv, Booted
<1>1. CASE pc = "idle"
  <2>1. flash' = flash
    <3>1. CASE Target = NoRom
      BY <3>1 DEF LosePower, PowerLoss
    <3>2. CASE Target # NoRom
      <4>1. CutShort(Target) = {flash[Target]}
        BY <1>1 DEF CutShort
      <4>2. flash' = [flash EXCEPT ![Target] = flash[Target]]
        BY <3>2, <4>1 DEF LosePower, PowerLoss
      <4> QED
        BY <1>0, <4>2 DEF TypeOK
    <3> QED
      BY <3>1, <3>2
  <2>2. Backed' = Backed
    BY <2>1 DEF Backed
  <2> QED
    BY <1>0, <1>1, <2>1, <2>2 DEF Atomic!Crash
<1>2. CASE pc # "idle"
  <2>0. flash' \in [Roms -> Content]
    <3>1. IInv'
      BY AppStepIsStep, NextInv DEF RInv, AInv
    <3> QED
      BY <3>1 DEF IInv, TypeOK
  <2>1. CASE Recovered(flash') = Recovered(flash) /\ (BackedBy(flash') <=> BackedBy(flash))
    <3>1. Backed' = Backed
      BY <2>1 DEF Backed, BackedBy
    <3> QED
      BY <1>0, <2>1, <3>1 DEF Atomic!Crash
  <2>2. CASE Recovered(flash') = Image(Pools) /\ BackedBy(flash')
    <3>1. Backed'
      BY <2>2 DEF Backed, BackedBy
    <3> QED
      BY <1>0, <1>2, <2>2, <3>1 DEF Atomic!Crash, Backed
  <2>3. CASE ~BackedBy(flash) /\ ~BackedBy(flash')
    <3>1. ~Backed /\ ~Backed'
      BY <2>3 DEF Backed, BackedBy
    <3> QED
      BY <1>0, <1>2, <2>0, <3>1, RecoveredType DEF Atomic!Crash, Backed
  <2> QED
    BY <1>2, <2>1, <2>2, <2>3, FlashOfSave
<1> QED
  BY <1>1, <1>2

\* With a redundant region, the checksum and no failing operation, the store
\* implements the abstract one: whenever power is lost, inside paramsSave,
\* romBeginWrite or the switch of the two regions, the next boot loads the
\* parameters as they were before the save or as they are after it, and
\* paramsSave that returned has replaced them.
THEOREM ImplementsAbstract == AtomicApp => (AppSpec => ImplementsAtomicStore)
<1> SUFFICES ASSUME AtomicApp PROVE AppSpec => ImplementsAtomicStore
  OBVIOUS
<1>1. AppInit => Atomic!Init
  BY AbstractInit
<1>2. RInv /\ RInv' /\ [AppNext]_appVars => [Atomic!Next]_Atomic!vars
  <2> SUFFICES ASSUME RInv, RInv', [AppNext]_appVars PROVE [Atomic!Next]_Atomic!vars
    OBVIOUS
  <2>1. CASE AppNext /\ ContinueSave
    BY <2>1, SaveIsAbstract
  <2>2. CASE AppNext /\ LosePower
    BY <2>2, PowerLossIsAbstract DEF Atomic!Next
  <2>3. CASE AppNext /\ ~ContinueSave /\ ~LosePower
    BY <2>3, CallIsAbstract
  <2>4. CASE UNCHANGED appVars
    <3>1. UNCHANGED <<flash, pc, boot, ints, strs>>
      BY <2>4 DEF appVars, vars, device, pools, call
    <3> QED
      BY <3>1 DEF Atomic!vars, Backed, Pools
  <2> QED
    BY <2>1, <2>2, <2>3, <2>4
<1> QED
  BY <1>1, <1>2, RInvariance, PTL DEF AppSpec, ImplementsAtomicStore, Atomic!Spec

----------------------------------------------------------------------------
(* Without the checksum: the integers                                      *)

\* The application without the checksum, whose integers tell a torn save.
NoCrcApp == ~UseCrc /\ UseRedundant /\ TornIntegersAreDetected

\* Every cell is left of some value in its range.
CellsLeft ==
    \A r \in Roms, i \in IntIdx :
        \E k \in Nat : InRange(i, k) /\ CellLeft(flash[r].ints[i], k)

NInv == IInv /\ AppInv /\ Opened /\ CellsLeft

LEMMA RangesAreNatural ==
    ASSUME TornIntegersAreDetected, NEW i \in IntIdx, NEW v \in Int, InRange(i, v)
    PROVE  v \in Nat
<1>1. IntDesc[i].min \in Int /\ 0 <= IntDesc[i].min
  BY PoolsAssumption DEF TornIntegersAreDetected, IntegerDesc
<1> QED
  BY <1>1 DEF InRange

\* A cell that is in range after an erase, cut or not, is as it was.
LEMMA ErasedCellInRange ==
    ASSUME TornIntegersAreDetected, NEW i \in IntIdx, NEW k \in Nat, InRange(i, k),
           NEW x \in Int, CellLeft(x, k), NEW y \in Int, InRange(i, y),
           y = x \/ y = ErasedInt \/ \E u \in TornUnits : y = HalfErasedInt(x, u)
    PROVE  y = x
<1>0. ErasedByte = "ff" /\ y >= 0
  BY RangesAreNatural DEF TornIntegersAreDetected
<1>1. y = k
  <2>1. CellLeft(y, k)
    BY <1>0, CellLeftErased
  <2>2. k \in IntDesc[i].min .. IntDesc[i].max
    BY PoolsAssumption DEF InRange, IntegerDesc
  <2> QED
    BY <1>0, <2>1, <2>2 DEF CellLeft, TornIntegersAreDetected
<1>2. IntAbove(y, x)
  BY <1>0, ErasedIsAbove
<1>3. x >= 0 /\ x <= y
  BY <1>0, <1>2 DEF IntAbove
<1>4. k <= x
  <2>1. \A u \in TornUnits : HalfErasedInt(k, u) \in Int /\ k <= HalfErasedInt(k, u)
    BY <1>0, HalfErasedBounds
  <2> QED
    BY <1>3, <2>1 DEF CellLeft
<1> QED
  BY <1>1, <1>3, <1>4

\* What an operation under way may leave of the integers: if all of them are
\* in range they are as they were, or the ones that are saved.
LEMMA CutInts ==
    ASSUME NoCrcApp, NInv, NEW r \in Roms, r = Target, NEW d \in CutShort(r)
    PROVE  /\ d \in Content
           /\ \A i \in IntIdx : \E k \in Nat : InRange(i, k) /\ CellLeft(d.ints[i], k)
           /\ \/ d.ints = flash[r].ints
              \/ AnyOutOfRange(d.ints) /\ pc \in {"begin", "begin_old", "ints"}
              \/ d.ints = ints /\ pc = "ints"
<1>0. /\ TypeOK /\ Booted /\ PoolInRange /\ ProgramsErasedFlash /\ TornIntegersAreDetected
      /\ ErasedByte = "ff" /\ ErasedInt = -1
      /\ flash[r] \in Content /\ ints \in IntPool /\ strs \in StrPool /\ d \in Content
      /\ PoolWithCrc = ints /\ flash[r].ints \in IntPool /\ d.ints \in IntPool
  BY CutShortType DEF NInv, IInv, AppInv, NoCrcApp, TornIntegersAreDetected, ErasedInt, TypeOK,
     Content, PoolWithCrc, CrcInUse, Booted
<1>1. \A i \in IntIdx : flash[r].ints[i] \in Int /\ d.ints[i] \in Int /\ ints[i] \in Int
  BY <1>0 DEF IntPool
<1>2. \A i \in IntIdx : \E k \in Nat : InRange(i, k) /\ CellLeft(flash[r].ints[i], k)
  BY DEF NInv, CellsLeft
<1>3. CASE d.ints = flash[r].ints
  BY <1>0, <1>2, <1>3
<1>4. CASE d \in PartialErases(flash[r]) /\ pc \in {"begin", "begin_old"}
  <2>1. \A i \in IntIdx : \/ d.ints[i] = flash[r].ints[i]
                          \/ d.ints[i] = ErasedInt
                          \/ \E u \in TornUnits : d.ints[i] = HalfErasedInt(flash[r].ints[i], u)
    BY <1>0, <1>4, PartialErasesCells
  <2>2. ASSUME NEW i \in IntIdx
        PROVE  \E k \in Nat : InRange(i, k) /\ CellLeft(d.ints[i], k)
    <3>1. PICK k \in Nat : InRange(i, k) /\ CellLeft(flash[r].ints[i], k)
      BY <1>2
    <3>2. CellLeft(d.ints[i], k)
      BY <1>0, <1>1, <2>1, <3>1, CellLeftErased
    <3> QED
      BY <3>1, <3>2
  <2>3. ASSUME ~AnyOutOfRange(d.ints)
        PROVE  d.ints = flash[r].ints
    <3>1. \A i \in IntIdx : d.ints[i] = flash[r].ints[i]
      BY <1>0, <1>1, <1>2, <2>1, <2>3, ErasedCellInRange DEF AnyOutOfRange
    <3> QED
      BY <1>0, <3>1 DEF IntPool
  <2> QED
    BY <1>0, <1>4, <2>2, <2>3
<1>5. CASE d \in PartialIntWrites(flash[r], ints) /\ pc = "ints" /\ Writable(r)
  <2>1. flash[r] = ErasedContent
    BY <1>0, <1>5 DEF ProgramsErasedFlash
  <2>2. \A i \in IntIdx : /\ ints[i] \in Nat /\ InRange(i, ints[i])
                          /\ \/ d.ints[i] < 0
                             \/ d.ints[i] = ints[i]
    <3>1. \A i \in IntIdx : InRange(i, ints[i]) /\ ints[i] \in Nat
      BY <1>0, <1>1, <1>5, RangesAreNatural DEF PoolInRange, Booted
    <3>2. \A i \in IntIdx : \/ d.ints[i] = -1
                            \/ d.ints[i] = ints[i]
                            \/ \E u \in TornUnits : d.ints[i] = TornInt(ints[i], u)
      BY <1>0, <1>5, <2>1, PartialIntWritesCells DEF ErasedContent
    <3>3. \A i \in IntIdx : \/ d.ints[i] < 0
                            \/ d.ints[i] = ints[i]
      BY <1>1, <3>2, TornIntIsNegative
    <3> QED
      BY <3>1, <3>3
  <2>3. ~AnyOutOfRange(d.ints) => d.ints = ints
    <3>1. ~AnyOutOfRange(d.ints) => \A i \in IntIdx : d.ints[i] = ints[i]
      BY <1>0, <1>1, <2>2, RangesAreNatural DEF AnyOutOfRange
    <3> QED
      BY <1>0, <3>1 DEF IntPool
  <2>4. \A i \in IntIdx : CellLeft(d.ints[i], ints[i])
    BY <2>2 DEF CellLeft
  <2> QED
    BY <1>0, <1>5, <2>1, <2>2, <2>3, <2>4
<1>6. d \in PartialStrWrites(flash[r], strs) => d.ints = flash[r].ints
  BY <1>0, PartialStrWritesCells
<1> QED
  BY <1>0, <1>3, <1>4, <1>5, <1>6 DEF CutShort

LEMMA NInvariance == NoCrcApp => (AppSpec => []NInv)
<1> SUFFICES ASSUME NoCrcApp PROVE AppSpec => []NInv
  OBVIOUS
<1>0. DefaultsInRange /\ CrcCellAcceptsCrc /\ TornIntegersAreDetected /\ ErasedByte = "ff"
  BY DEF NoCrcApp, TornIntegersAreDetected, CrcCellAcceptsCrc
<1>1. AppInit => NInv
  <2> SUFFICES ASSUME AppInit PROVE NInv
    OBVIOUS
  <2>1. IInv /\ pc = "idle" /\ boot = "init" /\ flash = [r \in Roms |-> ErasedContent]
    BY InitInv DEF AppInit, Init, VolatileInit
  <2>2. AppInv /\ Opened
    BY <2>1 DEF AppInit, Init, VolatileInit, AppInv, Booted, PoolInRange, Opened, BootSteps
  <2>3. \A i \in IntIdx : InRange(i, IntDesc[i].def) /\ IntDesc[i].def \in Nat
    BY <1>0, PoolsAssumption, RangesAreNatural DEF DefaultsInRange, InRange, IntegerDesc
  <2>4. CellsLeft
    BY <1>0, <2>1, <2>3 DEF CellsLeft, CellLeft, ErasedContent, ErasedInt
  <2> QED
    BY <2>1, <2>2, <2>4 DEF NInv
<1>2. NInv /\ [AppNext]_appVars => NInv'
  <2> SUFFICES ASSUME NInv, [AppNext]_appVars PROVE NInv'
    OBVIOUS
  <2>1. IInv'
    BY AppStepIsStep, NextInv DEF NInv
  <2>2. CASE AppNext
    <3>1. AppInv' /\ Opened'
      BY <1>0, <2>2, BootedStep, PoolInRangeStep, OpenedStep DEF NInv, AppInv
    <3>2. CellsLeft'
      <4>1. \A r \in Roms : flash'[r] = flash[r] \/ (r = Target /\ flash'[r] \in CutShort(r))
        BY <2>2, AppStepIsStep, FlashStep DEF NInv, appVars, vars, device
      <4> QED
        BY <4>1, CutInts DEF NInv, CellsLeft
    <3> QED
      BY <2>1, <2>2, <3>1, <3>2 DEF NInv
  <2>3. CASE UNCHANGED appVars
    <3>1. AppInv'
      BY <2>3, AppInvStutter DEF NInv
    <3> QED
      BY <2>1, <2>3, <3>1 DEF NInv, Opened, CellsLeft, appVars, vars, device, config, roms
  <2> QED
    BY <2>2, <2>3
<1> QED
  BY <1>1, <1>2, PTL DEF AppSpec

\* A region whose integers are out of range is not chosen next to one whose
\* integers are in range.
LEMMA OtherIsChosen ==
    ASSUME ~UseCrc, UseRedundant, NEW f, NEW a \in Roms, NEW t \in Roms, a # t,
           AnyOutOfRange(f[t].ints), ~AnyOutOfRange(f[a].ints)
    PROVE  ChosenRom(f) = a
  BY DEF ChosenRom, UseRedundantRom, Roms

\* The region that is chosen stays so when the integers of the other one are
\* out of range.
LEMMA StaysChosen ==
    ASSUME ~UseCrc, NEW f, NEW g, NEW a \in Roms, NEW t \in Roms, a # t,
           ChosenRom(f) = a, g[a] = f[a], AnyOutOfRange(g[t].ints)
    PROVE  ChosenRom(g) = a
  BY DEF ChosenRom, UseRedundantRom, Roms

\* Without the checksum the range check of the boot keeps the integers whole:
\* no operation that fails and no power loss makes a boot load integers other
\* than the old ones or the new ones, as long as no save works on the region
\* a boot would choose.
THEOREM IntegersAreNeverTorn == NoCrcApp => (AppSpec => IntegersNeverTorn)
<1> SUFFICES ASSUME NoCrcApp PROVE AppSpec => IntegersNeverTorn
  OBVIOUS
<1>1. ASSUME NInv, AppNext, ~(pc \in {"begin", "ints"} /\ GoodCopyIsStandby)
      PROVE  Recovered(flash').ints \in {Recovered(flash).ints, Image(Pools).ints}
  <2>0. /\ TypeOK /\ Pointers /\ Booted /\ Opened /\ Switched /\ PoolInRange
        /\ ~UseCrc /\ UseRedundant
    BY <1>1 DEF NInv, IInv, AppInv, NoCrcApp, Progress
  <2>1. \A c : Image(c).ints = LoadedInts(c.ints)
    BY <2>0 DEF Image
  <2>2. \A r \in Roms : flash'[r] = flash[r] \/ (r = Target /\ flash'[r] \in CutShort(r))
    BY <1>1, AppStepIsStep, FlashStep DEF NInv, appVars, vars, device
  <2>3. CASE \A r \in Roms : flash'[r].ints = flash[r].ints
    <3>1. ChosenRom(flash') = ChosenRom(flash) /\ ChosenRom(flash) \in Roms
      BY <2>0, <2>3 DEF ChosenRom, UseRedundantRom, Roms
    <3> QED
      BY <2>1, <2>3, <3>1 DEF Recovered
  <2>4. ASSUME NEW t \in Roms, flash'[t].ints # flash[t].ints
        PROVE  Recovered(flash').ints \in {Recovered(flash).ints, Image(Pools).ints}
    <3> DEFINE a == active_rom
               d == flash'[t]
    <3>1. /\ t = Target /\ d \in CutShort(t)
          /\ \/ AnyOutOfRange(d.ints) /\ pc \in {"begin", "begin_old", "ints"}
             \/ d.ints = ints /\ pc = "ints"
      BY <1>1, <2>2, <2>4, CutInts
    <3>2. /\ boot = "ready" /\ standby_rom # NoRom
          /\ a \in Roms /\ t = standby_rom /\ a # t /\ Roms = {a, t}
      <4>1. pc # "idle"
        BY <3>1
      <4>2. boot = "ready" /\ standby_rom # NoRom
        BY <2>0, <4>1 DEF Booted, Opened
      <4> QED
        BY <2>0, <3>1, <4>1, <4>2, TargetIsRom DEF Roms
    <3>3. flash'[a] = flash[a]
      BY <2>2, <3>1, <3>2
    <3> HIDE DEF a, d
    <3>4. CASE AnyOutOfRange(d.ints) /\ pc = "begin_old"
      <4>1. flash[a].ints = ints
        BY <2>0, <3>4 DEF Switched, a
      <4>2. ~AnyOutOfRange(flash'[a].ints)
        BY <2>0, <3>2, <3>3, <4>1 DEF PoolInRange, AnyOutOfRange
      <4>3. ChosenRom(flash') = a
        BY <2>0, <3>2, <3>4, <4>2, OtherIsChosen DEF d
      <4> QED
        BY <2>1, <3>3, <4>1, <4>3 DEF Recovered, Pools
    <3>5. CASE pc \in {"begin", "ints"}
      <4>1. ChosenRom(flash) = a
        BY <1>1, <3>2, <3>5 DEF GoodCopyIsStandby, ChosenRom, Roms
      <4>2. CASE AnyOutOfRange(d.ints)
        <5>1. ChosenRom(flash') = a
          BY <2>0, <3>2, <3>3, <4>1, <4>2, StaysChosen DEF d
        <5> QED
          BY <3>3, <4>1, <5>1 DEF Recovered
      <4>3. CASE d.ints = ints
        <5>1. ChosenRom(flash') \in {a, t}
          BY <3>2 DEF ChosenRom, Roms
        <5> QED
          BY <2>1, <3>3, <4>1, <4>3, <5>1 DEF Recovered, Pools, d
      <4> QED
        BY <3>1, <3>5, <4>2, <4>3
    <3> QED
      BY <3>1, <3>4, <3>5
  <2> QED
    BY <2>3, <2>4
<1>2. NInv /\ [AppNext]_appVars =>
         [\/ pc \in {"begin", "ints"} /\ GoodCopyIsStandby
          \/ Recovered(flash').ints \in {Recovered(flash).ints, Image(Pools).ints}]_appVars
  BY <1>1
<1> QED
  BY <1>2, NInvariance, PTL DEF AppSpec, IntegersNeverTorn
====
