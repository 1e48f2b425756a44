---- MODULE Storage ----
(***************************************************************************)
(* src/storage.c over src/rom.c: the parameter store behind its public     *)
(* functions, called in any order by one thread of the application.        *)
(*                                                                         *)
(* Every call is one action, because nothing runs between its statements,  *)
(* except paramsSave: power may fail between two of its flash operations   *)
(* or in the middle of one, so it is a sequence of steps driven by pc.     *)
(* PowerLoss keeps the flash and resets everything else.                   *)
(*                                                                         *)
(* A RomDriverInstance is what of its fields changes: inited (and flash    *)
(* not NULL), erased, write_protected.  Its page arithmetic is in module   *)
(* RomLayout; here the two regions are disjoint.                           *)
(***************************************************************************)
EXTENDS FlashRegion

CONSTANTS
    FaultOps,    \* the flash operations that may report a failure
    SetInts,     \* values the application passes to paramsSetIntegerValue
    SetStrs,     \* values the application passes to paramsSetStringValue
    NoRom        \* a NULL RomDriverInstance*

Roms == {"primary", "redundant"}
Codes == {"OK", "WRONG_ARGS", "NOT_INITIALIZED", "UNKNOWN_ERROR"}
PCs == {"idle", "begin", "ints", "strs", "end", "begin_old", "end_old"}

ASSUME StorageAssumption ==
    /\ FaultOps \subseteq {"unlock", "erase", "write", "read"}
    /\ SetInts \subseteq DataVal
    /\ SetStrs \subseteq StrVal
    /\ NoRom \notin Roms

VARIABLES
    flash,              \* the persistent content of the two regions
    unlocked,           \* is the flash controller unlocked?
    ints,               \* integer_values_pool
    strs,               \* string_values_pool
    all_params_amount,
    crc_enabled,
    rom,                \* primary_rom and redundant_rom
    active_rom,
    standby_rom,
    pc,                 \* where paramsSave is, "idle" when no call runs
    res,                \* the last value a call returned (or res of paramsSave)
    stored_crc          \* the local of _save

device == <<flash, unlocked>>
pools == <<ints, strs>>
config == <<all_params_amount, crc_enabled>>
roms == <<rom, active_rom, standby_rom>>
call == <<pc, res, stored_crc>>
vars == <<device, pools, config, roms, call>>

ZeroRom == [inited |-> FALSE, erased |-> FALSE, write_protected |-> FALSE]
FreshRom == [inited |-> TRUE, erased |-> FALSE, write_protected |-> TRUE]

RomState == [inited : BOOLEAN, erased : BOOLEAN, write_protected : BOOLEAN]

TypeOK ==
    /\ flash \in [Roms -> Content]
    /\ unlocked \in BOOLEAN
    /\ ints \in IntPool
    /\ strs \in StrPool
    /\ all_params_amount \in {0, NumInts + NumStrs}
    /\ crc_enabled \in BOOLEAN
    /\ rom \in [Roms -> RomState]
    /\ active_rom \in Roms \cup {NoRom}
    /\ standby_rom \in Roms \cup {NoRom}
    /\ pc \in PCs
    /\ res \in Codes
    /\ stored_crc \in Int

----------------------------------------------------------------------------
(* Static storage after a reset of the device.                             *)

VolatileInit ==
    /\ unlocked = FALSE
    /\ ints = [i \in IntIdx |-> 0]
    /\ strs = [j \in StrIdx |-> ZeroStr]
    /\ all_params_amount = 0
    /\ crc_enabled = FALSE
    /\ rom = [r \in Roms |-> ZeroRom]
    /\ active_rom = NoRom
    /\ standby_rom = NoRom
    /\ pc = "idle"
    /\ res = "OK"
    /\ stored_crc = 0

Reset ==
    /\ unlocked' = FALSE
    /\ ints' = [i \in IntIdx |-> 0]
    /\ strs' = [j \in StrIdx |-> ZeroStr]
    /\ all_params_amount' = 0
    /\ crc_enabled' = FALSE
    /\ rom' = [r \in Roms |-> ZeroRom]
    /\ active_rom' = NoRom
    /\ standby_rom' = NoRom
    /\ pc' = "idle"
    /\ res' = "OK"
    /\ stored_crc' = 0

\* A device that has never stored parameters.
Init ==
    /\ flash = [r \in Roms |-> ErasedContent]
    /\ VolatileInit

\* A call that returns at once.
Return(code) == pc' = "idle" /\ res' = code /\ stored_crc' = 0

----------------------------------------------------------------------------
(* paramsInit, paramsEnableCrc                                             *)

\* The arguments tried: the ones of the application, a NULL driver, a page
\* range the device does not have, more parameters than the region holds.
InitArgs == {"app", "null_flash", "bad_pages", "too_many"}

\* Mutant: the strings are counted twice.
DoubleAmount == NumInts + 2 * NumStrs

ParamsAmount == NumInts + NumStrs

ParamsInit(args) ==
    /\ pc = "idle"
    /\ \/ /\ args = "null_flash"
          /\ Return("WRONG_ARGS")
          /\ UNCHANGED <<config, roms>>
       \/ /\ args = "bad_pages"
          /\ rom' = [rom EXCEPT !["primary"] = ZeroRom]
          /\ Return("UNKNOWN_ERROR")
          /\ UNCHANGED <<config, active_rom, standby_rom>>
       \/ /\ args = "too_many"
          /\ rom' = [rom EXCEPT !["primary"] = FreshRom]
          /\ Return("WRONG_ARGS")
          /\ UNCHANGED <<config, active_rom, standby_rom>>
       \/ /\ args = "app"
          /\ rom' = [rom EXCEPT !["primary"] = FreshRom]
          /\ all_params_amount' = ParamsAmount
          /\ crc_enabled' = FALSE
          /\ active_rom' = "primary"
          /\ standby_rom' = NoRom
          /\ Return("OK")
    /\ UNCHANGED <<device, pools>>

\* integers_amount is 0 until the first successful paramsInit.
IntegersAmount == IF all_params_amount = 0 THEN 0 ELSE NumInts

ParamsEnableCrc ==
    /\ pc = "idle"
    /\ IF CrcIdx < IntegersAmount
       THEN crc_enabled' = TRUE /\ Return("OK")
       ELSE crc_enabled' = crc_enabled /\ Return("WRONG_ARGS")
    /\ UNCHANGED <<device, pools, all_params_amount, roms>>

----------------------------------------------------------------------------
(* Reading.  What a pool may hold after romRead, whose result is ignored:  *)
(* romRead leaves it alone on a rom that is not inited, and the driver     *)
(* that may fail to read, the one of the FRAM, receives straight into it.  *)

\* The amounts are 0, and every read and loop is empty, until they are set.
Configured == all_params_amount # 0

ReadInts(r, inited, old) ==
    IF ~Configured \/ ~inited THEN {old}
    ELSE IF "read" \in FaultOps THEN {flash[r].ints} \cup PartialIntReads(flash[r].ints, old)
    ELSE {flash[r].ints}

ReadStrs(r, inited, old) ==
    IF ~Configured \/ ~inited THEN {old}
    ELSE IF "read" \in FaultOps THEN {flash[r].strs} \cup PartialStrReads(flash[r].strs, old)
    ELSE {flash[r].strs}

\* What _isRomCrcValid may answer.  It reads byte by byte and takes a byte it
\* cannot read for 0, which may hide a difference as well as make one.
RomCrcValid(r) ==
    IF ~crc_enabled THEN {FALSE}
    ELSE IF "read" \in FaultOps THEN BOOLEAN
    ELSE {CrcMatches(flash[r])}

\* paramsIsCrcValid when no read fails.
ParamsIsCrcValid ==
    /\ active_rom # NoRom
    /\ rom[active_rom].inited
    /\ crc_enabled
    /\ CrcMatches(flash[active_rom])

\* paramsLoad
ParamsLoad ==
    /\ pc = "idle"
    /\ IF active_rom = NoRom
       THEN Return("NOT_INITIALIZED") /\ UNCHANGED pools
       ELSE /\ \E i \in ReadInts(active_rom, rom[active_rom].inited, ints),
                  s \in ReadStrs(active_rom, rom[active_rom].inited, strs) :
                 /\ ints' = IF Configured THEN LoadedInts(i) ELSE ints
                 /\ strs' = IF Configured THEN LoadedStrs(s) ELSE strs
            /\ Return("OK")
    /\ UNCHANGED <<device, config, roms>>

\* Mutant: paramsLoadRom does not set the flag.
NeverLooksErased(f) == FALSE

\* paramsLoadRom only asks whether some integer is out of its range.
LooksErased(f) == Configured /\ AnyOutOfRange(f)

\* Mutant: the state of the primary region is not looked at.
UseRedundantRomFirst(pErased, rErased, pValid, rValid) == ~rErased

\* use_redundant_rom of _chooseRom.
UseRedundantRom(pErased, rErased, pValid, rValid) ==
    (pErased /\ ~rErased) \/ (rValid /\ ~pValid)

\* _chooseRom once the two regions were read, raw, into the pools.
ChooseRom(pInts, rInts, rStrs, pValid, rValid) ==
    LET pErased == rom["primary"].erased \/ LooksErased(pInts)
        rErased == LooksErased(rInts)
        useRedundant == UseRedundantRom(pErased, rErased, pValid, rValid)
    IN /\ rom' = [rom EXCEPT !["primary"].erased = pErased,
                             !["redundant"] = [FreshRom EXCEPT !.erased = rErased]]
       /\ ints' = rInts
       /\ strs' = rStrs
       /\ active_rom' = IF useRedundant THEN "redundant" ELSE "primary"
       /\ standby_rom' = IF useRedundant THEN "primary" ELSE "redundant"

\* paramsInitRedundantPage: the redundant region is read over the primary one.
ParamsInitRedundantPage ==
    /\ pc = "idle"
    /\ IF ~rom["primary"].inited
       THEN /\ rom' = [rom EXCEPT !["redundant"] = ZeroRom]
            /\ Return("UNKNOWN_ERROR")
            /\ UNCHANGED <<pools, active_rom, standby_rom>>
       ELSE /\ \E pInts \in ReadInts("primary", TRUE, ints),
                  pStrs \in ReadStrs("primary", TRUE, strs) :
               \E rInts \in ReadInts("redundant", TRUE, pInts),
                  rStrs \in ReadStrs("redundant", TRUE, pStrs),
                  pValid \in RomCrcValid("primary"),
                  rValid \in RomCrcValid("redundant") :
                    ChooseRom(pInts, rInts, rStrs, pValid, rValid)
            /\ Return("OK")
    /\ UNCHANGED <<device, config>>

----------------------------------------------------------------------------
(* The pools.                                                              *)

\* paramsSetIntegerValue returns nothing and ignores what it does not accept.
ParamsSetIntegerValue(i, v) ==
    /\ pc = "idle"
    /\ ints' = IF Configured /\ SetIntegerAccepts(i, v)
               THEN [ints EXCEPT ![i] = v] ELSE ints
    /\ UNCHANGED <<device, strs, config, roms, call>>

ParamsSetStringValue(j, v) ==
    /\ pc = "idle"
    /\ strs' = IF Configured /\ SetStringAccepts(j)
               THEN [strs EXCEPT ![j] = v] ELSE strs
    /\ UNCHANGED <<device, ints, config, roms, call>>

ParamsResetToDefault ==
    /\ pc = "idle"
    /\ IF Configured
       THEN ints' = ResetInts(ints) /\ strs' = DefaultStrs /\ Return("OK")
       ELSE Return("NOT_INITIALIZED") /\ UNCHANGED pools
    /\ UNCHANGED <<device, config, roms>>

----------------------------------------------------------------------------
(* paramsSave and _save                                                    *)

\* Mutant: the active region is written in place.
ActiveTarget == active_rom

\* The region paramsSave works on, before and after it switches roms.
Target == IF standby_rom # NoRom THEN standby_rom ELSE active_rom

CrcInUse == crc_enabled /\ CrcIdx \in IntIdx

Goto(label) == pc' = label /\ UNCHANGED <<res, stored_crc>>

ParamsSave ==
    /\ pc = "idle"
    /\ IF Configured
       THEN pc' = "begin" /\ res' = "OK" /\ stored_crc' = 0
       ELSE Return("NOT_INITIALIZED")
    /\ UNCHANGED <<device, pools, config, roms>>

\* Mutant: a region that could not be erased is writable all the same.
RomBeginWriteAnyway(r, erased) ==
    /\ unlocked' = TRUE
    /\ \E c \in PartialErases(flash[r]) : flash' = [flash EXCEPT ![r] = c]
    /\ rom' = [rom EXCEPT ![r].erased = erased, ![r].write_protected = FALSE]

\* romBeginWrite(r), r marked erased or not by the caller: afterwards r is
\* writable, or it is not and nothing tells the caller.
RomBeginWrite(r, erased) ==
    LET marked == [rom EXCEPT ![r].erased = erased]
    IN \/ /\ ~rom[r].inited \/ "unlock" \in FaultOps
          /\ rom' = marked
          /\ UNCHANGED device
       \/ /\ rom[r].inited
          /\ "erase" \in FaultOps
          /\ unlocked' = TRUE
          /\ \E c \in PartialErases(flash[r]) : flash' = [flash EXCEPT ![r] = c]
          /\ rom' = marked
       \/ /\ rom[r].inited
          /\ unlocked' = TRUE
          /\ flash' = [flash EXCEPT ![r] = ErasedContent]
          /\ rom' = [marked EXCEPT ![r].write_protected = FALSE]

\* romWrite reaches the driver only on a rom that is inited and writable.
Writable(r) == rom[r].inited /\ ~rom[r].write_protected

\* Mutants: romEndWrite does not lock, or does not protect the region.
NeverLocks(r) == unlocked
NeverProtects(r) == rom

\* romEndWrite(r) does nothing, not even lock, on a rom that is protected.
UnlockedAfter(r) == unlocked /\ ~Writable(r)
RomsAfter(r) == [rom EXCEPT ![r].write_protected = @ \/ rom[r].inited]

BeginWrite ==
    /\ pc = "begin"
    /\ RomBeginWrite(Target, standby_rom = NoRom \/ rom[Target].erased)
    /\ Goto("ints")
    /\ UNCHANGED <<pools, config, active_rom, standby_rom>>

\* The integer pool that is written: the checksum replaces the CRC cell.
PoolWithCrc ==
    IF CrcInUse THEN [ints EXCEPT ![CrcIdx] = PoolsCrc(ints, strs)] ELSE ints

\* The local stored_crc once the checksum is in the pool.
StoredCrc == IF CrcInUse THEN ints[CrcIdx] ELSE 0

\* Mutant: the checksum stays in the pool when a write fails.
CrcKept(pool, crc) == pool

\* The pool a write that failed leaves: both error paths restore the cell.
CrcRestored(pool, crc) == IF CrcInUse THEN [pool EXCEPT ![CrcIdx] = crc] ELSE pool

\* Mutant: the result of romWrite is not looked at.
WriteErrorIgnored == "OK"

\* Mutant: a save that failed starts again.
Retry == "begin"

\* What _save returns when romWrite fails, and where paramsSave goes on.
WriteError == "UNKNOWN_ERROR"
AfterWriteError == "end"

\* _save up to the string pool.
WriteInts ==
    /\ pc = "ints"
    /\ \/ /\ NumInts = 0 \/ Writable(Target)
          /\ flash' = [flash EXCEPT ![Target].ints = PoolWithCrc]
          /\ ints' = PoolWithCrc
          /\ stored_crc' = StoredCrc
          /\ pc' = "strs"
          /\ UNCHANGED res
       \/ /\ NumInts > 0
          /\ \/ /\ ~Writable(Target)
                /\ UNCHANGED flash
             \/ /\ Writable(Target)
                /\ "write" \in FaultOps
                /\ \E c \in PartialIntWrites(flash[Target], PoolWithCrc) :
                     flash' = [flash EXCEPT ![Target] = c]
          /\ ints' = CrcRestored(PoolWithCrc, StoredCrc)
          /\ pc' = AfterWriteError
          /\ res' = WriteError
          /\ UNCHANGED stored_crc
    /\ UNCHANGED <<unlocked, strs, config, roms>>

\* Mutant: the region that was written stays marked.
StaysMarked(r) == rom

\* rom_driver->erased = false at the end of _save.
MarkedWritten(r) == [rom EXCEPT ![r].erased = FALSE]

\* _save from the string pool on.
WriteStrs ==
    /\ pc = "strs"
    /\ \/ /\ NumStrs = 0 \/ Writable(Target)
          /\ flash' = [flash EXCEPT ![Target].strs = strs]
          /\ rom' = MarkedWritten(Target)
          /\ pc' = "end"
          /\ UNCHANGED <<ints, res>>
       \/ /\ NumStrs > 0
          /\ \/ /\ ~Writable(Target)
                /\ UNCHANGED flash
             \/ /\ Writable(Target)
                /\ "write" \in FaultOps
                /\ \E c \in PartialStrWrites(flash[Target], strs) :
                     flash' = [flash EXCEPT ![Target] = c]
          /\ ints' = CrcRestored(ints, stored_crc)
          /\ pc' = AfterWriteError
          /\ res' = WriteError
          /\ UNCHANGED rom
    /\ UNCHANGED <<unlocked, strs, config, active_rom, standby_rom, stored_crc>>

\* Mutant: the regions are switched whatever _save returned.
SwitchesAlways == standby_rom # NoRom

SwitchesRoms == standby_rom # NoRom /\ res = "OK"

\* romEndWrite; after a successful save the two regions change roles and the
\* old one is about to be erased.
EndWrite ==
    /\ pc = "end"
    /\ unlocked' = UnlockedAfter(Target)
    /\ \/ /\ SwitchesRoms
          /\ rom' = [RomsAfter(standby_rom) EXCEPT ![active_rom].erased = TRUE]
          /\ active_rom' = standby_rom
          /\ standby_rom' = active_rom
          /\ Goto("begin_old")
       \/ /\ ~SwitchesRoms
          /\ rom' = RomsAfter(Target)
          /\ Return(res)
          /\ UNCHANGED <<active_rom, standby_rom>>
    /\ UNCHANGED <<flash, pools, config>>

\* Mutant: the new copy is erased.
EraseNew ==
    /\ pc = "begin_old"
    /\ RomBeginWrite(active_rom, TRUE)
    /\ Goto("end_old")
    /\ UNCHANGED <<pools, config, active_rom, standby_rom>>

\* The second romBeginWrite and romEndWrite of paramsSave: erase the old copy.
EraseOld ==
    /\ pc = "begin_old"
    /\ RomBeginWrite(standby_rom, TRUE)
    /\ Goto("end_old")
    /\ UNCHANGED <<pools, config, active_rom, standby_rom>>

EndOld ==
    /\ pc = "end_old"
    /\ unlocked' = UnlockedAfter(standby_rom)
    /\ rom' = RomsAfter(standby_rom)
    /\ Return(res)
    /\ UNCHANGED <<flash, pools, config, active_rom, standby_rom>>

SaveStep == BeginWrite \/ WriteInts \/ WriteStrs \/ EndWrite \/ EraseOld \/ EndOld

----------------------------------------------------------------------------
(* The device loses power or is reset, possibly inside a flash operation.  *)

\* What the operation under way may have left in region r.
CutShort(r) ==
    IF pc \in {"begin", "begin_old"} /\ rom[r].inited THEN PartialErases(flash[r])
    ELSE IF pc = "ints" /\ Writable(r) THEN PartialIntWrites(flash[r], PoolWithCrc)
    ELSE IF pc = "strs" /\ Writable(r) THEN PartialStrWrites(flash[r], strs)
    ELSE {flash[r]}

PowerLoss ==
    /\ IF Target = NoRom
       THEN flash' = flash
       ELSE \E c \in CutShort(Target) : flash' = [flash EXCEPT ![Target] = c]
    /\ Reset

----------------------------------------------------------------------------
ApplicationCall ==
    \/ \E args \in InitArgs : ParamsInit(args)
    \/ ParamsEnableCrc
    \/ ParamsInitRedundantPage
    \/ ParamsLoad
    \/ \E i \in IntIdx, v \in SetInts : ParamsSetIntegerValue(i, v)
    \/ \E j \in StrIdx, v \in SetStrs : ParamsSetStringValue(j, v)
    \/ ParamsResetToDefault
    \/ ParamsSave

Next == ApplicationCall \/ SaveStep \/ PowerLoss

Spec == Init /\ [][Next]_vars

\* The thread that called paramsSave keeps running until it returns or the
\* device loses power.
FairSpec == Spec /\ WF_vars(SaveStep)

----------------------------------------------------------------------------
(* Properties of the store under any order of calls.                       *)

\* Flash is programmed only where it is erased: the region a save writes is
\* blank before the integer pool, and its string cells are before the string
\* pool, whichever of the earlier operations failed.
ProgramsErasedFlash ==
    /\ pc = "ints" /\ Writable(Target) => flash[Target] = ErasedContent
    /\ pc = "strs" /\ Writable(Target) => flash[Target].strs = ErasedContent.strs

\* A region is writable only inside the write session paramsSave opened on
\* it: romWrite through any other RomDriverInstance is refused.
OnlyTargetWritable ==
    \A r \in Roms : Writable(r) => r = Target /\ pc \in {"ints", "strs", "end", "end_old"}

\* Without failing operations the flash controller is locked again when
\* paramsSave returns, and after any other call.
LockedWhenIdle == pc = "idle" => ~unlocked

\* With a redundant region, no step and no power loss changes the region
\* active_rom points to: paramsSave works on the other one, and switches
\* them before it erases the old copy.
ActiveCopyNeverTouched ==
    [][standby_rom # NoRom => flash'[active_rom] = flash[active_rom]]_vars

\* The old copy is erased only when the new one is complete in flash.
NewCopyCompleteBeforeOldErased ==
    pc \in {"begin_old", "end_old"} => flash[active_rom] = [ints |-> ints, strs |-> strs]

\* paramsSave is about to return in this step (and power did not fail).
SaveReturns == pc # "idle" /\ pc' = "idle" /\ active_rom' # NoRom

\* paramsSave returns LIBPARAMS_OK only when both pools are in the active
\* region, although romBeginWrite tells nothing of a failed unlock or erase.
AcknowledgedMeansStored ==
    [][SaveReturns /\ res' = "OK" =>
          flash'[active_rom'] = [ints |-> ints', strs |-> strs']]_vars

\* With one region, paramsSave never returns LIBPARAMS_OK with the flash
\* controller unlocked, although a save before it whose erase failed left it
\* so: romEndWrite locks only after an erase that succeeded.
AcknowledgedMeansLocked ==
    [][SaveReturns /\ res' = "OK" /\ standby_rom' = NoRom => ~unlocked']_vars

\* A second paramsInitRedundantPage after a successful paramsSave takes the
\* region that was just written, although primary_rom keeps its erased flag
\* and the old copy may still be there, because its erase failed.
RechoiceKeepsActive ==
    [][SaveReturns /\ res' = "OK" /\ standby_rom' # NoRom /\ ~AnyOutOfRange(ints') =>
          (active_rom' = "redundant" <=>
             UseRedundantRom((rom["primary"].erased \/ LooksErased(flash["primary"].ints))',
                             LooksErased(flash["redundant"].ints)',
                             (crc_enabled /\ CrcMatches(flash["primary"]))',
                             (crc_enabled /\ CrcMatches(flash["redundant"]))'))]_vars

\* After a successful paramsSave with CRC support, paramsIsCrcValid is true.
CrcValidAfterSave ==
    [][SaveReturns /\ res' = "OK" /\ CrcInUse => ParamsIsCrcValid']_vars

\* paramsSave ends: it returns, or the device is reset.
SaveTerminates == pc # "idle" ~> pc = "idle"
====
