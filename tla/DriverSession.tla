---- MODULE DriverSession ----
(***************************************************************************)
(* Module Storage takes a flash operation for one step and FlashRegion     *)
(* says what such a step may leave in a region.  This module relates both  *)
(* to the drivers: the half-words of FlashDrivers are read as the cells of *)
(* a region, a driver call happens when it ends, and every step of the     *)
(* write session must be one that Storage allows.                          *)
(*                                                                         *)
(* Storage is taken with one region and no CRC; the integers that are      *)
(* saved are 1, the strings "new", over integers 2 and strings "old".      *)
(***************************************************************************)
EXTENDS FlashDrivers

CONSTANTS
    HalfWord,   \* 2^16
    NoRom       \* a NULL RomDriverInstance*

ASSUME SessionAssumption ==
    /\ IntSize = 2
    /\ NoRom \notin {"primary", "redundant"}

VARIABLES
    before      \* memory and lock when the driver call that runs began

sessionVars == <<vars, before>>

DriverCalls == {"erase", "ints", "strs"}

SessionInit ==
    /\ Init
    /\ before = [mem |-> mem, unlocked |-> FALSE]

SessionNext ==
    /\ Next
    /\ before' = IF pc' \in DriverCalls THEN before
                 ELSE [mem |-> mem', unlocked |-> "LOCK" \notin cr']

SessionSpec == SessionInit /\ [][SessionNext]_sessionVars

----------------------------------------------------------------------------
(* A region of half-words as a content of FlashRegion                      *)

\* The two halves of an integer, the low one at the lower address.
LowHalf(x, i) ==
    CASE x = Erased -> HalfWord - 1
      [] x = Old -> 2
      [] x = Datum("ints", i * IntSize) -> 1
      [] OTHER -> 3
HighHalf(x, i) ==
    CASE x = Erased -> -1
      [] x \in {Old, Datum("ints", i * IntSize + 1)} -> 0
      [] OTHER -> 3

IntCell(m, i) ==
    LET at == PoolOffset.ints + i * IntSize
    IN HighHalf(FlashRead(m, at + 1), i) * HalfWord + LowHalf(FlashRead(m, at), i)

\* A string that is half erased reads as one that is erased, a half
\* programmed one holds its first bytes on erased memory.
StrCell(m, j) ==
    LET at == PoolOffset.strs + j * StrSize
        Cell(k) == FlashRead(m, at + k)
        New(k) == Cell(k) = Datum("strs", j * StrSize + k)
        LastCell == StrSize - 1
    IN CASE Cell(0) = Erased -> "ff"
         [] \A k \in 0 .. LastCell : Cell(k) = Old -> "old"
         [] \A k \in 0 .. LastCell : New(k) -> "new"
         [] \E n \in 1 .. LastCell : /\ \A k \in 0 .. n - 1 : New(k)
                                 /\ \A k \in n .. LastCell : Cell(k) = Erased -> "torn"
         [] OTHER -> "lost"

ContentOf(m) == [ints |-> [i \in 0 .. app.ints - 1 |-> IntCell(m, i)],
                 strs |-> [j \in 0 .. app.strs - 1 |-> StrCell(m, j)]]

----------------------------------------------------------------------------
(* The write session of Storage                                            *)

ErasedCells(a) == [ints |-> [i \in 0 .. a.ints - 1 |-> -1],
                   strs |-> [j \in 0 .. a.strs - 1 |-> "ff"]]

NotInited == [inited |-> FALSE, erased |-> FALSE, write_protected |-> FALSE]

StoragePC ==
    CASE pc = "erase" -> "begin"
      [] pc = "call_ints" -> "ints"
      [] pc = "call_strs" -> "strs"
      [] OTHER -> pc

NoCrc(c) == 0

Store(a) == INSTANCE Storage WITH
    NumInts <- a.ints,
    NumStrs <- a.strs,
    IntDesc <- [i \in 0 .. a.ints - 1 |->
                   [min |-> 0, max |-> 2, def |-> 0, is_mutable |-> TRUE, is_required |-> FALSE]],
    StrDesc <- [j \in 0 .. a.strs - 1 |-> [def |-> "old", is_mutable |-> TRUE]],
    StrVal <- {"zero", "ff", "old", "new", "torn"},
    ZeroStr <- "zero",
    FFStr <- "ff",
    DataVal <- Int,
    CrcIdx <- a.ints,
    Crc <- NoCrc,
    HasGap <- FALSE,
    ErasedByte <- "ff",
    TornUnits <- {HalfWord},
    TornStr <- "torn",
    FaultOps <- {"unlock", "erase", "write"},
    SetInts <- {},
    SetStrs <- {},
    flash <- [primary |-> ContentOf(before.mem), redundant |-> ErasedCells(a)],
    unlocked <- before.unlocked,
    ints <- [i \in 0 .. a.ints - 1 |-> 1],
    strs <- [j \in 0 .. a.strs - 1 |-> "new"],
    all_params_amount <- a.ints + a.strs,
    crc_enabled <- FALSE,
    rom <- [primary |-> [inited |-> TRUE, erased |-> erased, write_protected |-> write_protected],
            redundant |-> NotInited],
    active_rom <- "primary",
    standby_rom <- NoRom,
    pc <- StoragePC,
    res <- IF res = 0 THEN "OK" ELSE "UNKNOWN_ERROR",
    stored_crc <- 0

----------------------------------------------------------------------------
(* Properties                                                              *)

\* What a power loss leaves is one of the contents module Storage gives it.
CutShortOf(a) ==
    /\ StoragePC' = "idle"
    /\ ~before.unlocked'
    /\ ContentOf(mem') \in Store(a)!CutShort("primary")

\* The drivers do what Storage and FlashRegion take for granted: an erase or
\* a write that stops, at whatever half-word, bank, page, flash word or chunk,
\* leaves one of the contents of PartialErases, PartialIntWrites and
\* PartialStrWrites, one that succeeds has done all of it, a region is writable
\* exactly when its erase succeeded, and the flags agree at every step.
SessionImplementsStorage ==
    [][\E a \in Apps :
          /\ app = a
          /\ \/ CutShortOf(a)
             \/ Store(a)!ParamsSave
             \/ Store(a)!SaveStep
             \/ UNCHANGED Store(a)!vars]_sessionVars
====
