---- MODULE StorageApp ----
(***************************************************************************)
(* The store as an application uses it: after every reset it boots with    *)
(* paramsInit, paramsEnableCrc and paramsInitRedundantPage when it wants   *)
(* them, and paramsLoad, in this order (the order of README.md and of the  *)
(* fixtures in tests/unit_tests/test_storage.cpp); then it sets, resets    *)
(* and saves parameters.  Power may fail at any point.                     *)
(*                                                                         *)
(* Recovered(flash) is what a boot from this flash would load.  Most       *)
(* properties relate it to what the application saved.                     *)
(***************************************************************************)
EXTENDS Storage

CONSTANTS
    UseCrc,         \* does the application call paramsEnableCrc?
    UseRedundant    \* does it call paramsInitRedundantPage?

VARIABLES
    boot            \* the next call of the boot sequence, or "ready"

ASSUME AppAssumption ==
    /\ UseCrc \in BOOLEAN
    /\ UseRedundant \in BOOLEAN
    /\ UseCrc => CrcIdx \in IntIdx

appVars == <<vars, boot>>

BootSteps == {"init", "crc", "redundant", "load", "ready"}

Pools == [ints |-> ints, strs |-> strs]

AppTypeOK ==
    /\ TypeOK
    /\ boot \in BootSteps

AppInit ==
    /\ Init
    /\ boot = "init"

----------------------------------------------------------------------------
AfterCrc == IF UseRedundant THEN "redundant" ELSE "load"

BootInit ==
    /\ boot = "init"
    /\ ParamsInit("app")
    /\ boot' = IF UseCrc THEN "crc" ELSE AfterCrc

BootEnableCrc ==
    /\ boot = "crc"
    /\ ParamsEnableCrc
    /\ boot' = AfterCrc

BootInitRedundantPage ==
    /\ boot = "redundant"
    /\ ParamsInitRedundantPage
    /\ boot' = "load"

BootLoad ==
    /\ boot = "load"
    /\ ParamsLoad
    /\ boot' = "ready"

Edit ==
    /\ boot = "ready"
    /\ \/ \E i \in IntIdx, v \in SetInts : ParamsSetIntegerValue(i, v)
       \/ \E j \in StrIdx, v \in SetStrs : ParamsSetStringValue(j, v)
       \/ ParamsResetToDefault
    /\ UNCHANGED boot

Save ==
    /\ boot = "ready"
    /\ ParamsSave
    /\ UNCHANGED boot

ContinueSave ==
    /\ SaveStep
    /\ UNCHANGED boot

LosePower ==
    /\ PowerLoss
    /\ boot' = "init"

AppNext ==
    \/ BootInit
    \/ BootEnableCrc
    \/ BootInitRedundantPage
    \/ BootLoad
    \/ Edit
    \/ Save
    \/ ContinueSave
    \/ LosePower

AppSpec == AppInit /\ [][AppNext]_appVars

----------------------------------------------------------------------------
(* What the next boot loads, when no read fails.                           *)

\* The parameters of a region or of the pools as paramsLoad returns them,
\* without the CRC cell, which is not a setting of the application.
Image(c) == [ints |-> LET f == LoadedInts(c.ints)
                      IN IF UseCrc THEN Masked(f) ELSE f,
             strs |-> LoadedStrs(c.strs)]

ChosenRom(f) ==
    LET pErased == AnyOutOfRange(f["primary"].ints)
        rErased == AnyOutOfRange(f["redundant"].ints)
    IN IF UseRedundant /\ UseRedundantRom(pErased, rErased,
                                           UseCrc /\ CrcMatches(f["primary"]),
                                           UseCrc /\ CrcMatches(f["redundant"]))
       THEN "redundant" ELSE "primary"

Recovered(f) == Image(f[ChosenRom(f)])

\* paramsIsErased when no read fails: its first 256 bytes are 64 integers,
\* then bytes no pool uses.
ParamsIsErased ==
    /\ active_rom # NoRom
    /\ \A i \in IntIdx : i < 64 => flash[active_rom].ints[i] = -1
    /\ NumInts < 64 => ErasedByte = "ff"

\* Some region holds a complete image under its checksum.
Backed == \E r \in Roms : CrcMatches(flash[r])

\* The parameter that holds the checksum accepts every checksum.
CrcCellAcceptsCrc == UseCrc => \A c \in MaskedContent : InRange(CrcIdx, Crc(c))

\* Where erases leave 0xFF, a region that a save or an erase left half done
\* is recognised by its checksum, and one that matches is in range.
TornSavesAreDetected ==
    /\ ErasedByte = "ff"
    /\ TornChecksumsMatchNothing
    /\ DefaultsInRange
    /\ CrcCellAcceptsCrc

\* No range contains what erased or half-programmed cells read as, nor a
\* value of the range whose low bits were erased (unless they were set).
TornIntegersAreDetected ==
    /\ ErasedByte = "ff"
    /\ DefaultsInRange
    /\ \A i \in IntIdx : 0 <= IntDesc[i].min
    /\ \A i \in IntIdx, u \in TornUnits : \A v \in IntDesc[i].min .. IntDesc[i].max :
           InRange(i, HalfErasedInt(v, u)) => HalfErasedInt(v, u) = v

----------------------------------------------------------------------------
(* Properties                                                              *)

\* paramsLoad at the end of the boot loads what Recovered says: the region
\* chosen by _chooseRom is still the active one and the raw values it left
\* in the pools are gone.
BootLoadsRecovered ==
    [][BootLoad => Image(Pools') = Recovered(flash)]_appVars

\* After the boot every integer the application can read is in its range,
\* even after paramsInitRedundantPage filled the pools with erased flash.
VisibleInRange ==
    boot = "ready" => \A i \in IntIdx : InRange(i, GetInteger(ints, i))

\* When paramsSave returns LIBPARAMS_OK a reboot loads what was saved.
AcknowledgedSurvives ==
    [][SaveReturns /\ res' = "OK" => Recovered(flash') = Image(Pools')]_appVars

\* The region a boot would load is the one paramsSave works on: a boot whose
\* reads failed took the other one for the active region, or the save before
\* wrote the integers and failed on the strings.
GoodCopyIsStandby == standby_rom # NoRom /\ ChosenRom(flash) = standby_rom

\* With redundancy but no checksum: the integers are never torn by a save,
\* if no range contains what erased or half-programmed cells read as, and
\* unless the region that is erased and written is the one a boot would load.
IntegersNeverTorn ==
    [][\/ pc \in {"begin", "ints"} /\ GoodCopyIsStandby
       \/ Recovered(flash').ints \in {Recovered(flash).ints, Image(Pools).ints}]_appVars

\* "Checks if params section was: mass erased/never flashed/sector erased"
\* (storage.h): it is not after a save that succeeded, although the strings
\* are not among the bytes paramsIsErased looks at and the other region is
\* erased, if an integer does not accept -1.
SavedIsNotErased ==
    [][SaveReturns /\ res' = "OK" => ~ParamsIsErased']_appVars

\* The comment of _chooseRom: "Choose a rom which addreses a non-erased part
\* of flash memory".
NonErasedRomIsChosen ==
    boot = "load" /\ standby_rom # NoRom /\ flash[active_rom] = ErasedContent
        => flash[standby_rom] = ErasedContent

\* With a redundant region, the checksum and no failing operation, a power
\* loss at any point leaves the old image or the new one.
Atomic == INSTANCE AtomicStore WITH
    Images <- Content,
    NoImage <- NoRom,
    disk <- Recovered(flash),
    mem <- IF boot = "ready" THEN Image(Pools) ELSE NoRom,
    saving <- pc # "idle",
    backed <- Backed

ImplementsAtomicStore == Atomic!Spec
====
