---- MODULE FlashDrivers ----
(***************************************************************************)
(* The flash drivers under src/platform_specific, below the write session  *)
(* of src/rom.c: which pages an erase hands to the controller, which words *)
(* a write programs, what a failing operation leaves in the registers.     *)
(*                                                                         *)
(*   f103   stm32f103/flash_driver.c, registers, half-words                *)
(*   g0b1   stm32g0b1/flash_driver.c, HAL, two banks, double words         *)
(*   h753   stm32h753xx/flash_driver.c, HAL, one or two banks, flash words *)
(*   fram   stm32h753xx_spifram/flash_driver.c, no erase needed            *)
(*                                                                         *)
(* Memory is counted in half-words, what the smallest of them programs;    *)
(* integers and strings are whole numbers of half-words.  A driver call is *)
(* a queue of jobs for the memory, ended by the first one that fails.  A   *)
(* write to the FRAM is two of them: the command that sets its write       *)
(* enable latch, and the command that carries the data.                    *)
(***************************************************************************)
EXTENDS Integers, Sequences

CONSTANTS
    FlashStart,  \* FLASH_START_ADDR
    IntSize,     \* sizeof(IntegerParamValue_t)
    StrSize,     \* MAX_STRING_LENGTH
    EraseChunk,  \* SPIFRAM_ERASE_CHUNK_SIZE
    Apps         \* devices, each with the region and the amounts it is used with

App == [driver : {"f103", "g0b1", "h753", "fram"}, pages : Nat, bank : Nat, page_size : Nat,
        word : Nat, first : Nat, num : Nat, ints : Nat, strs : Nat]

\* Pages, strings and banks are made of whole words, except for strings on
\* the H753, where the pools are more than a flash word apart: 512 parameters
\* of each type take 30 KB, a sector has 128 KB.  A half-word is a word where
\* the hardware takes half-words or less, and there are two banks at most.
\* What romInit and paramsInit check holds.
DriversAssumption(a) ==
    /\ a.num > 0 /\ a.first + a.num <= a.pages
    /\ a.ints * IntSize + a.strs * StrSize <= a.num * a.page_size
    /\ a.word > 0 /\ a.page_size % a.word = 0 /\ FlashStart % a.word = 0
    /\ a.driver \in {"f103", "fram"} => a.word = 1
    /\ a.driver \in {"g0b1", "h753"} => a.pages <= 2 * a.bank
    /\ \/ StrSize % a.word = 0
       \/ /\ a.driver = "h753"
          /\ a.ints * IntSize + a.strs * StrSize + a.word < a.num * a.page_size

ASSUME SizesAssumption ==
    /\ {FlashStart, IntSize, StrSize} \subseteq Nat
    /\ EraseChunk \in Nat \ {0}

ASSUME AppsAssumption ==
    /\ Apps \subseteq App
    /\ \A a \in Apps : DriversAssumption(a)
    /\ \A a \in Apps : FlashStart >= a.pages * a.page_size

VARIABLES
    app,              \* chosen once
    mem,              \* content of each half-word of the device
    cr,               \* LOCK and PG of the control register; on the FRAM, which
                      \* has none, LOCK unless flashUnlock was called last
    sr,               \* the error flags of the status register
    latch,            \* the write enable latch of the FRAM
    write_protected,  \* of the RomDriverInstance
    erased,           \* of the RomDriverInstance
    todo,             \* what is left to do of the driver call that runs
    pc,
    res               \* what _save has got from romWrite: 0 or negative

registers == <<cr, sr, latch>>
rom == <<write_protected, erased>>
vars == <<app, mem, registers, rom, todo, pc, res>>

Pools == {"ints", "strs"}

Erased == <<"ff", 0>>
Old == <<"old", 0>>
Datum(pool, i) == <<pool, i>>

Size(a) == a.pages * a.page_size
RegionLo == app.first * app.page_size
RegionHi == (app.first + app.num) * app.page_size
PoolSize == [ints |-> app.ints * IntSize, strs |-> app.strs * StrSize]
PoolOffset == [ints |-> RegionLo, strs |-> RegionHi - PoolSize.strs]

----------------------------------------------------------------------------
(* Erasing                                                                 *)

ErasePage(p) == [kind |-> "erase", at |-> p * app.page_size,
                 cells |-> [i \in 1 .. app.page_size |-> Erased]]

\* One page after the other, by its address.
F103Erase == [i \in 1 .. app.num |-> ErasePage(app.first + i - 1)]

NoOperation == [kind |-> "erase", at |-> 0, cells |-> <<>>]

\* HAL_FLASHEx_Erase: pages of one bank, by their index in it, which on the
\* G0B1 starts at twice the size of a bank for the second one.  There are no
\* pages past the end of a bank.
HalErase(bank, page, num, second) ==
    LET index == IF bank = 1 THEN page ELSE page - second
    IN [i \in 1 .. num |->
           IF index + i - 1 \in 0 .. app.bank - 1
           THEN ErasePage((bank - 1) * app.bank + index + i - 1)
           ELSE NoOperation]

G0SingleBank(first, num) ==
    IF first < app.bank
    THEN HalErase(1, first, num, 2 * app.bank)
    ELSE HalErase(2, app.bank + first, num, 2 * app.bank)

\* Mutant: a range that touches both banks is not split.
G0EraseUnsplit == G0SingleBank(app.first, app.num)

G0Erase ==
    LET last == app.first + app.num
    IN IF app.first <= app.bank - 1 /\ last >= app.bank
       THEN G0SingleBank(app.first, app.bank - app.first)
            \o G0SingleBank(app.bank, last - app.bank)
       ELSE G0SingleBank(app.first, app.num)

\* Mutant: the second bank loses as many sectors as the whole range has.
H7EraseWholeCount ==
    IF app.first < app.bank /\ app.first + app.num > app.bank
    THEN HalErase(1, app.first, app.bank - app.first, 0) \o HalErase(2, 0, app.num, 0)
    ELSE HalErase(IF app.first < app.bank THEN 1 ELSE 2, app.first % app.bank, app.num, 0)

\* One bank without DUAL_BANK.
H7Erase ==
    LET last == app.first + app.num
    IN IF app.first < app.bank /\ last > app.bank
       THEN HalErase(1, app.first, app.bank - app.first, 0)
            \o HalErase(2, 0, last - app.bank, 0)
       ELSE IF app.first < app.bank
            THEN HalErase(1, app.first, app.num, 0)
            ELSE HalErase(2, app.first - app.bank, app.num, 0)

\* spiframNormalizeOffset: reads and erases give offsets, writes addresses.
Normalized(offset) == IF offset >= FlashStart THEN offset - FlashStart ELSE offset

FramFits(offset, size) == Normalized(offset) + size <= Size(app)

\* spiframWriteEnable: the command WREN.
FramWriteEnable == [kind |-> "wren", at |-> 0, cells |-> <<>>]

FramData(offset, cells) == [kind |-> "fram", at |-> Normalized(offset), cells |-> cells]

\* Mutant: the latch is not set before the data.
FramWriteDisabled(offset, cells) == <<NoOperation, FramData(offset, cells)>>

\* spiframWrite
FramWrite(offset, cells) == <<FramWriteEnable, FramData(offset, cells)>>

\* Chunks of 0xFF, each a write of its own: chunk i begins at i * EraseChunk.
FramErase ==
    LET bytes == app.num * app.page_size
        Left(i) == bytes - i * EraseChunk
        Chunk(i) == FramWrite(RegionLo + i * EraseChunk,
                              [k \in 1 .. (IF Left(i) < EraseChunk THEN Left(i) ELSE EraseChunk)
                                  |-> Erased])
    IN [j \in 1 .. 2 * ((bytes + EraseChunk - 1) \div EraseChunk) |->
           Chunk((j - 1) \div 2)[1 + ((j - 1) % 2)]]

EraseJobs ==
    CASE app.driver = "f103" -> F103Erase
      [] app.driver = "g0b1" -> G0Erase
      [] app.driver = "h753" -> H7Erase
      [] app.driver = "fram" -> FramErase

----------------------------------------------------------------------------
(* Programming: pool, address and size are what romWrite passes            *)

Program(addr, cells) == [kind |-> "program", at |-> addr - FlashStart, cells |-> cells]

F103Write(pool, addr, size) ==
    [i \in 1 .. size |-> Program(addr + i - 1, <<Datum(pool, i - 1)>>)]

\* Mutant: what does not fill a double word is dropped.
G0WriteTruncated(pool, addr, size) ==
    [i \in 1 .. size \div app.word |->
        Program(addr + (i - 1) * app.word,
                [k \in 1 .. app.word |-> Datum(pool, (i - 1) * app.word + k - 1)])]

\* Double words from the address on, the last one padded with 0xFF.
G0Write(pool, addr, size) ==
    [i \in 1 .. (size + app.word - 1) \div app.word |->
        LET src_offset == (i - 1) * app.word
        IN Program(addr + src_offset,
                   [k \in 1 .. app.word |->
                       IF src_offset + k - 1 < size
                       THEN Datum(pool, src_offset + k - 1) ELSE Erased])]

\* Mutant: flash words from the address on, as double words on the G0B1.
H7WriteUnaligned(pool, addr, size) == G0Write(pool, addr, size)

\* Flash words aligned down, padded with 0xFF at both ends.
H7Write(pool, addr, size) ==
    LET first_addr == addr - (addr % app.word)
        last_addr == addr + size
    IN [i \in 1 .. (last_addr - first_addr + app.word - 1) \div app.word |->
           LET a == first_addr + (i - 1) * app.word
           IN Program(a, [k \in 1 .. app.word |->
                             IF addr <= a + k - 1 /\ a + k - 1 < last_addr
                             THEN Datum(pool, a + k - 1 - addr) ELSE Erased])]

\* romWrite adds the start address of the device to the offset.
Address(pool) == FlashStart + PoolOffset[pool]

WriteJobs(pool) ==
    LET addr == Address(pool)
        size == PoolSize[pool]
    IN CASE app.driver = "f103" -> F103Write(pool, addr, size)
         [] app.driver = "g0b1" -> G0Write(pool, addr, size)
         [] app.driver = "h753" -> H7Write(pool, addr, size)
         [] app.driver = "fram" ->
                FramWrite(addr, [k \in 1 .. size |-> Datum(pool, k - 1)])

\* Reading maps flash m from its start, or asks the FRAM.
FlashRead(m, offset) ==
    m[IF app.driver = "fram" THEN Normalized(offset) ELSE offset]

\* The memory after the first n half-words of a job.  A half-word that was
\* not erased is lost when it is programmed.  The FRAM takes no data unless
\* its latch is set.
After(job, n) ==
    IF job.kind = "fram" /\ ~latch THEN mem
    ELSE [c \in DOMAIN mem |->
             IF c < job.at \/ c >= job.at + n THEN mem[c]
             ELSE IF job.kind = "program" /\ mem[c] # Erased THEN <<"lost", 0>>
             ELSE job.cells[c - job.at + 1]]

\* The latch is reset at the end of a write that was under way, at the latest
\* when the FRAM is deselected.
LatchAfter(job) == job.kind = "wren"

\* Where a job may stop when it fails, and what the latch may be then: a
\* command that failed may have been taken.
Stops(job) == {0} \cup 1 .. Len(job.cells) - 1
LatchesAfterError(job, n) == IF n = 0 THEN {latch, LatchAfter(job)} ELSE {FALSE}

----------------------------------------------------------------------------
(* The write session of src/rom.c and src/storage.c over a driver          *)

PCs == {"idle", "begin", "erase", "call_ints", "ints", "call_strs", "strs", "end"}

Init ==
    /\ app \in Apps
    /\ mem = [c \in 0 .. Size(app) - 1 |-> Old]
    /\ cr = {"LOCK"}
    /\ sr = {}
    /\ latch = FALSE
    /\ write_protected = TRUE
    /\ erased = FALSE
    /\ todo = <<>>
    /\ pc = "idle"
    /\ res = 0

\* Mutant: the error flags are not looked at.
NeverRefused(erasing) == FALSE

\* What the drivers check first: flashWaitForLastOperation of the F103, the
\* arguments in the others.  Operations end long before the 50 s after which
\* the F103 driver gives up, and the option bytes are sound.
Refused(erasing) ==
    CASE app.driver = "f103" -> sr # {}
      [] app.driver \in {"g0b1", "h753"} ->
             erasing /\ (app.first + app.num > app.pages \/ app.num = 0)
      [] app.driver = "fram" -> ~FramFits(RegionLo, RegionHi - RegionLo)

\* paramsSave without a redundant region.
ParamsSave ==
    /\ pc = "idle"
    /\ pc' = "begin"
    /\ res' = 0
    /\ UNCHANGED <<app, mem, registers, rom, todo>>

\* flashUnlock of the G0B1 and of the H753 is the one of the HAL.
UnlockMayFail == app.driver \in {"g0b1", "h753"}

\* The other drivers write the keys, or do nothing.
Unlocked == cr \ {"LOCK"}

\* romBeginWrite: unlock, then erase.  The region is marked erased afterwards,
\* whatever happened.
BeginWrite ==
    /\ pc = "begin"
    /\ \/ /\ UnlockMayFail
          /\ pc' = "call_ints"
          /\ erased' = TRUE
          /\ UNCHANGED <<cr, todo>>
       \/ /\ Refused(TRUE)
          /\ cr' = Unlocked
          /\ pc' = "call_ints"
          /\ erased' = TRUE
          /\ UNCHANGED todo
       \/ /\ ~Refused(TRUE)
          /\ cr' = Unlocked
          /\ todo' = EraseJobs
          /\ pc' = "erase"
          /\ UNCHANGED erased
    /\ UNCHANGED <<app, mem, sr, latch, write_protected, res>>

CallPC(pool) == IF pool = "ints" THEN "call_ints" ELSE "call_strs"
FollowingPC(pool) == IF pool = "ints" THEN "call_strs" ELSE "end"

\* At the end of _save the region is no longer marked erased.
ErasedAfter(pool) == erased /\ pool = "ints"

\* Mutant: the write protection is not looked at.
UnprotectedCall(pool) == ~Refused(FALSE)

Accepted(pool) == ~write_protected /\ ~Refused(FALSE)

\* romWrite of one pool, up to the call of the driver and its first wait.
CallWrite(pool) ==
    /\ pc = CallPC(pool)
    /\ \/ /\ PoolSize[pool] = 0
          /\ pc' = FollowingPC(pool)
          /\ erased' = ErasedAfter(pool)
          /\ UNCHANGED <<todo, res>>
       \/ /\ PoolSize[pool] > 0
          /\ Accepted(pool)
          /\ todo' = WriteJobs(pool)
          /\ pc' = pool
          /\ UNCHANGED <<erased, res>>
       \/ /\ PoolSize[pool] > 0
          /\ ~Accepted(pool)
          /\ pc' = "end"
          /\ res' = -1
          /\ UNCHANGED <<todo, erased>>
    /\ UNCHANGED <<app, mem, registers, write_protected>>

JobDone ==
    /\ todo # <<>>
    /\ mem' = After(Head(todo), Len(Head(todo).cells))
    /\ todo' = Tail(todo)
    /\ latch' = LatchAfter(Head(todo))
    /\ UNCHANGED <<app, cr, sr, rom, pc, res>>

\* Mutant: PER stays set when a page could not be erased.
ControlKeepsPER == IF app.driver = "f103" THEN cr \cup {"PER"} ELSE cr

\* The F103 clears PER after each page, and PG only after a half-word that
\* succeeded.  The HAL clears its registers itself.
ControlAfterError ==
    IF app.driver = "f103" /\ pc \in Pools THEN cr \cup {"PG"} ELSE cr

\* The error flags of the F103 stay; only programming has two of them.
ErrorFlags ==
    CASE app.driver # "f103" -> {sr}
      [] app.driver = "f103" /\ pc = "erase" -> {sr \cup {"WRPRTERR"}}
      [] app.driver = "f103" /\ pc \in Pools -> {sr \cup {"WRPRTERR"}, sr \cup {"PGERR"}}

\* Every loop stops at the first error.  That of an erase is only seen by the
\* write protection, that of a write is returned.
JobFails ==
    /\ todo # <<>>
    /\ \E n \in Stops(Head(todo)) :
          mem' = After(Head(todo), n) /\ latch' \in LatchesAfterError(Head(todo), n)
    /\ sr' \in ErrorFlags
    /\ cr' = ControlAfterError
    /\ todo' = <<>>
    /\ \/ pc = "erase" /\ pc' = "call_ints" /\ erased' = TRUE /\ UNCHANGED res
       \/ pc \in Pools /\ pc' = "end" /\ res' = -1 /\ UNCHANGED erased
    /\ UNCHANGED <<app, write_protected>>

CallDone ==
    /\ todo = <<>>
    /\ \/ /\ pc = "erase"
          /\ write_protected' = FALSE
          /\ erased' = TRUE
          /\ pc' = "call_ints"
       \/ /\ pc \in Pools
          /\ erased' = ErasedAfter(pc)
          /\ pc' = FollowingPC(pc)
          /\ UNCHANGED write_protected
    /\ UNCHANGED <<app, mem, registers, todo, res>>

Locked == cr \cup {"LOCK"}

\* romEndWrite locks only a region it may write.
EndWrite ==
    /\ pc = "end"
    /\ cr' = IF write_protected THEN cr ELSE Locked
    /\ write_protected' = TRUE
    /\ pc' = "idle"
    /\ UNCHANGED <<app, mem, sr, latch, erased, todo, res>>

\* Power is lost between two jobs or inside one; the registers are reset.
PowerLoss ==
    /\ IF todo = <<>>
       THEN UNCHANGED mem
       ELSE \E n \in 0 .. Len(Head(todo).cells) : mem' = After(Head(todo), n)
    /\ cr' = {"LOCK"}
    /\ sr' = {}
    /\ latch' = FALSE
    /\ write_protected' = TRUE
    /\ erased' = FALSE
    /\ todo' = <<>>
    /\ pc' = "idle"
    /\ res' = 0
    /\ UNCHANGED app

Next ==
    \/ ParamsSave
    \/ BeginWrite
    \/ \E pool \in Pools : CallWrite(pool)
    \/ JobDone
    \/ JobFails
    \/ CallDone
    \/ EndWrite
    \/ PowerLoss

Spec == Init /\ [][Next]_vars

----------------------------------------------------------------------------
(* Properties                                                              *)

TypeOK ==
    /\ app \in Apps
    /\ mem \in [0 .. Size(app) - 1 -> {Erased, Old, <<"lost", 0>>} \cup (Pools \X Nat)]
    /\ cr \subseteq {"LOCK", "PG"}
    /\ sr \subseteq {"WRPRTERR", "PGERR"}
    /\ latch \in BOOLEAN
    /\ write_protected \in BOOLEAN
    /\ erased \in BOOLEAN
    /\ pc \in PCs
    /\ todo # <<>> => pc \in {"erase", "ints", "strs"}
    /\ res \in {0, -1}

\* When romBeginWrite makes a region writable, all of it is erased, whatever
\* banks its pages are in and however the last save ended.
WritableMeansErased ==
    ~write_protected /\ pc = "call_ints" =>
        \A c \in RegionLo .. RegionHi - 1 : FlashRead(mem, c) = Erased

\* Nothing outside the region is ever erased or programmed: the other region
\* and the program of the application share the device.
OnlyRegionChanges ==
    [][\A c \in DOMAIN mem : mem'[c] # mem[c] => c \in RegionLo .. RegionHi - 1]_vars

\* A controller is only given words at their alignment, unlocked, and each
\* word at most once after an erase: the padding of one pool never covers a
\* word of the other.
WordsAlignedAndErased ==
    todo # <<>> /\ Head(todo).kind = "program" =>
        LET job == Head(todo)
        IN /\ job.at % app.word = 0
           /\ Len(job.cells) = app.word
           /\ "LOCK" \notin cr
           /\ \A c \in job.at .. job.at + app.word - 1 :
                  c \in RegionLo .. RegionHi - 1 /\ mem[c] = Erased

\* A save that got no error from the driver reads back from the offsets
\* paramsLoad uses, whichever addresses it was written to.
SavedReadsBack ==
    pc = "end" /\ res = 0 =>
        \A pool \in Pools : \A i \in 0 .. PoolSize[pool] - 1 :
            FlashRead(mem, PoolOffset[pool] + i) = Datum(pool, i)

\* After an error the F103 driver changes nothing until the device is reset:
\* its flags are never cleared, and each operation waits for them first.
ErrorStopsDriver == [][sr # {} => mem' = mem]_vars
====
