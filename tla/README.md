# Verification of libparams

TLA+ models of libparams, the library that keeps the parameters (integers and
strings) of a microcontroller application in flash, checked with TLC and proved
about with TLAPS. Paths are relative to the root of the repository; line numbers
are those of the modelled commit (`PROJECT.json`, "map", gives them for every
definition).

## The system

One thread of an application calls the store; the store calls a driver; the
driver programs a memory. There is no concurrency inside the library. What makes
it hard is that power may fail (or the process be killed) between any two steps of
the driver, that every driver operation may fail, that `romBeginWrite` returns
nothing, and that the next boot has only the content of two regions to decide which
one to load.

| Part | State | Operations | What must hold |
| ---- | ----- | ---------- | -------------- |
| Parameter store, `src/src/storage.c` | the pools, `primary_rom`, `redundant_rom`, `active_rom`, `standby_rom`, the CRC settings, the amounts | `paramsInit`, `paramsInitRedundantPage`, `paramsEnableCrc`, `paramsIsCrcValid`, `paramsLoad`, `paramsSave`, `paramsResetToDefault`, setters, `paramsIsErased`, `paramsFind` and the lookups | a save is atomic; an OK means stored; no value out of range is visible; a name finds its parameter |
| Region access, `src/src/rom.c` | `RomDriverInstance`: page range, `inited`, `erased`, `write_protected` | `romInit`, `romRead`, `romBeginWrite`, `romWrite`, `romEndWrite` | accesses stay in the region; only erased cells are programmed; locked when idle |
| Flash drivers, `src/platform_specific/stm32*` | controller registers, flash | `init`, `unlock`, `lock`, `erase`, `write`, `read` | what was asked is erased and programmed, nothing else; errors are reported |
| SITL driver, `src/platform_specific/ubuntu` | `flash_memory`, `region_pages`, one YAML file per page | the same, and `read_from_dir`, `write_to_dir` | what is acknowledged is in the files; a start reads it back |
| Generator, `src/scripts` | none | `render_default_params` and code generation | its default pages have the split of the driver |

Interactions: the application passes a `FlashDriverOps` table to `paramsInit`;
`romInit` calls the driver's `init` for each region; `_chooseRom` compares the two
regions by their ranges and checksums; `paramsSave` opens a write session on the
standby region, writes both pools, swaps the regions and erases the old copy. The
SITL driver calls back into the store (`paramsGetIntegersAmount`,
`paramsGetDir`) for its size and its directory.

## Modules

| Module | Models | Built on |
| ------ | ------ | -------- |
| `ParamPools` | descriptors, the pools, ranges, what `paramsLoad` and `paramsResetToDefault` do to a pool, the getters and the acceptance of the setters | |
| `FlashRegion` | the content of one region: erased cells, erases and writes that stop half way, the bytes the checksums cover | `ParamPools` |
| `Storage` | `storage.c` over `rom.c`: every public call in any order, `paramsSave` step by step, failing driver operations, power loss | `FlashRegion` |
| `StorageApp` | the store as an application uses it: the boot sequence, then edits and saves | `Storage` |
| `AtomicStore` | the abstract specification: one durable image that a save replaces all at once | |
| `StorageHistory` | `StorageApp` with the history of what each region was last given | `StorageApp` |
| `RomLayout` | the address arithmetic of `rom.c` and `storage.c`: page ranges, pool offsets, which bytes each call asks the driver for | |
| `ParamLookup` | `paramsFind` with `_isNameEqual`, and the lookups by index, over the amounts the last calls of `paramsInit` left | `RomLayout` |
| `FlashDrivers` | the STM32F103, G0B1 and H753 drivers and the SPI-FRAM one under a write session of `rom.c`: pages, banks, words, padding, registers, the write enable latch of the FRAM | |
| `DriverSession` | the refinement that ties the drivers to the store: half-words are read as the cells of a region, and every step of the session must be one `Storage` allows | `FlashDrivers`, instantiates `Storage` |
| `SitlStore` | the store on the SITL driver: page files, the page split, the reader, kills, files that cannot be written, new versions of the program | |
| `StorageProofs`, `StorageAppProofs`, `StorageHistoryProofs` | theorems about the store | the module of that name, each also the one before it where it has one |
| `RomLayoutProofs`, `ParamLookupProofs`, `FlashDriversProofs`, `SitlStoreProofs` | theorems about addresses, lookups, drivers and page files | the module of that name |
| `InductionLemmas` | induction over the natural numbers, recursive functions and `FlattenSeq` | |
| `MCParams`, `MCStorage`, `MCStorageApp`, `MCStorageHistory`, `MCRomLayout`, `MCFlashDrivers`, `MCSitlStore` | the constants of the runs | |

### How state and actions correspond to the code

`Storage` has one variable for each static variable of `storage.c` that changes
(`ints` is `integer_values_pool`, `strs` is `string_values_pool`), the flash, and
the lock of the controller. Page numbers and addresses are in `RomLayout`; in
`Storage` the regions are simply two different ones. A call that programs nothing
is one action, since nothing can be observed between its statements.
`paramsSave` is a sequence:

| pc | Action | Code |
| -- | ------ | ---- |
| `begin` | `BeginWrite` | `romBeginWrite` of the standby region (or of the only one) |
| `ints` | `WriteInts` | `_save` up to the integer pool, the checksum put into the pool first |
| `strs` | `WriteStrs` | `_save` from the string pool on, the CRC cell restored on failure |
| `end` | `EndWrite` | `romEndWrite`, the swap of the regions |
| `begin_old` | `EraseOld` | the second `romBeginWrite`, which erases the old copy |
| `end_old` | `EndOld` | the second `romEndWrite`, return |

Each of the driver operations may fail if it is in `FaultOps`; an erase then has
erased a prefix of the region and a write has programmed a prefix of the pool,
possibly with one cell half erased (`HalfErasedInt`) or half programmed (`TornInt`,
`StrsTornAt`). A read may fail at any byte: the FRAM driver, the only one whose reads fail,
receives straight into the pool, so that a failed read leaves a prefix of one region over
what the pool held before, perhaps the other region, and an integer may be made of both
(`PartialIntReads`, `PartialStrReads`, `MixedInt`). `PowerLoss` leaves the same partial
contents of flash and resets everything else.

An integer is a number, a string is one of a few values: `zero` and `ff` (the first
byte is `'\0'` or 255, which `paramsLoad` replaces by the default), `torn` (cut in
the middle or a mixture), the default and another one. The bytes between the two pools matter to
the checksum only; `HasGap` says whether there are any.

`SitlStore` is at the level of the process: the CRC is left out, a start is one
action, which a running process may take again, and `paramsSave` has one step for every
page file of each of its two `flashWrite` calls. A file holds the list of its integers
and of its strings. A kill, or a disk that is full, leaves any prefix of the page being
written, with its last line cut; a file that cannot be opened keeps its old content. The
program is the variable `app`: its parameters, what it passes to `paramsSetDir`, whether its
last parameters have names (the driver goes on without files if they have not, `FilesUsed`),
whether it uses the redundant region, whether there are default files and whether files may fail.
`Update` replaces it, between two processes, by another version of it. In `RomLayout` the
page ranges an application uses are the variable `ranges`, which never changes.

The reader is translated with what it does to files it does not expect: it goes by
positions and ignores names, a string ends at the second quotation mark of its line,
strings too many end the reading, and an integer too many is noticed one line too late,
after it was put behind the last one (`SpilledStrs`). It goes line by line and takes a
parameter from every line with a colon, while the writer prints a string as it is. So there
are three classes of strings besides the plain ones: `QuotedStr` comes back cut and harms
nothing else (a quotation mark inside, or a line break and no colon after it); the second
line of `NumberedStr` ends like `x: 5` and is taken for an integer; that of `NamedStr` ends
like `x: y` and is taken for a string. A file keeps the last two as they are, and
`TakeStrs` makes of them what the reader does (`StrLines`, `IntLines`).

`FlashDrivers` counts memory in half-words. A driver call is a queue of jobs
(`todo`): the pages of an erase, the words of a write, the chunks of the FRAM. The
operators named after a driver and a function (`G0Erase`, `H7Write`) compute the queue
as that function does; `JobDone`, `JobFails` and `PowerLoss` are what the memory makes of
it, and a job that fails or is cut has been done up to any half-word. Each half-word
holds which pool and which position it was given, so that data put in the wrong place
is seen. One region is saved again and again; what a session that was cut leaves is
what the next one starts from. A write to the FRAM is two commands, write enable and
data; the data is ignored unless the latch is set, and the end of a write resets it.

`DriverSession` says that this is what `Storage` takes for granted. Its mapping reads the
half-words of the region as a content of `FlashRegion` (`ContentOf`), lets a driver call
happen at the moment it ends (`before` remembers the memory when it began), and maps
`pc`, `res`, the lock, `erased` and `write_protected`. `SessionImplementsStorage` then says of
every step: it is `Storage!ParamsSave`, one of `Storage!SaveStep`, a stutter, or a power loss
that leaves one of the contents `Storage!CutShort` names. So an erase that stops in the
middle of an integer, on whichever driver, leaves one of `PartialErases`, and a write one
of `PartialIntWrites` or `PartialStrWrites`: the contents over which the runs of the store
check atomicity.

## Runs

| Run | Question | Bounds |
| --- | -------- | ------ |
| `StorageFaults` | any order of calls, failing `unlock`, `erase` and `write`: what is programmed and erased when, what an OK means for the regions and for the lock, which region a second `paramsInitRedundantPage` takes, does a save end | one integer, one string |
| `AppRedundantCrc` | does an application with the redundant region and the CRC implement `AtomicStore`; is what it loads at boot the last image; is the stored checksum the one that is checked | a CRC cell and a setting, one string |
| `AppRedundantNoCrc` | the same without the checksum and with reads that fail at any byte of any boot, for integers whose ranges exclude what erased or torn cells read as; are all visible values in range; does a saved region never pass for erased | two settings, one string |
| `HistoryFaults` | with failing erases and writes: what does a matching checksum prove, what does a reboot recover, what does a failed save leave in the pools | a CRC cell and a setting that is set to 0, one string |
| `Layout` | which bytes each call asks the driver for, over all page ranges and several pool sizes, accepted and refused; which parameter a name finds | four pages, any page range; names of at most three characters that are prefixes of each other, all buffers of three bytes with every length |
| `Drivers` | each driver with failures and power losses: what is erased and programmed, what reads back, and is every step one of `Storage` | four pages in two banks, three page ranges, four pairs of amounts; an FRAM of two pages, erased in chunks that end inside parameters |
| `Sitl` | the page files: acknowledged saves, reloads and restarts agree, what kills and files that cannot be written leave, also with quotation marks and line breaks in strings, what a new version of the program reads | fourteen programs on pages of 6 bytes (integers of 2, strings of 4), at most two pages; three updates |

The bounds are enough because the code treats the cells of a pool alike: a second
integer is needed where one cell is special (the CRC cell) or where two cells may
differ in age (torn saves), a third never meets a new case. Values are 0 and 1 (in
range), 2 (out of range), -1 (erased) and the values a cell has when one of its two
half-words is programmed or erased. The two regions are all there are. In `Layout` offsets wrap at `Word`,
which stands for 2^32 and is small enough to be reached by an offset error. In `Sitl` the
pages are small so that applications fill a page exactly, spill to a second one, and
leave bytes that no parameter fits; its updates append an integer, which moves a string to
another page, append a string, and drop an integer. `AppRedundantNoCrc` needs no run
without failing reads: every behaviour without them is one of its behaviours. In `Drivers` a string is two double words, or
a flash word and a third, as 56 bytes are whole double words of 8 and more than one flash word of 32; pages of the F103
and the G0B1 are filled to the last half-word, and the H753 has the room between its
pools that 512 parameters of each type leave in a sector of 128 KB. Nothing is counted without bound, so that no
state constraint is used; the state graphs are complete.

Fairness: only `SaveTerminates` uses it, as weak fairness of the steps of
`paramsSave`. The thread that called it does not wait for anything, so it keeps
running until it returns or the device is reset. Deadlock checking is on in every
run: there is always a call to make or a power loss.

### Disagreements between the code and what is written about it

Five runs end in a violation, each of one property that says what a comment, or a check
in the code, says.

| Run | What happens |
| --- | ------------ |
| `ErasedRomChosen` | `_chooseRom` should choose the region that is not erased. It decides by the ranges of the integers, so that an erased region counts as stored when every integer accepts -1 (or there are no integers). Without a checksum the erased region is then the active one although the other holds the last save. |
| `EraseFailureLosesSave` | `paramsSave` returns `LIBPARAMS_OK` although the old copy could not be erased; both copies are valid, and the next boot prefers the old one if it is in the primary region. |
| `LayoutShrinks` | `paramsInit` checks that a region has room for both pools and refuses one that has not, but it has already replaced `primary_rom`; the next save writes overlapping pools into the smaller region. |
| `SitlPages` | the number of pages is computed from bytes and the files are split by whole parameters: 73 strings are accepted and can never be saved. |
| `SitlRange` | a start should load what the files hold into the primary region and use it. When a new version narrows the range of an integer, the value in the files is out of range and the primary region looks erased; the redundant region, blank at every start, does not if every range contains 0. It is chosen, and all integers load as 0 and all strings as their defaults. |

More of them are visible in the modules and have no run of their own:

- On the SITL driver `paramsIsCrcValid` is false right after a successful save: the
  checksum counts the bytes between the pools as 0xFF, the driver erases to 0
  (`GapIsErased` is the hypothesis of the theorem about it; `MCStorage` with
  `ErasedByte = "zero"` violates `CrcValidAfterSave`).
- `paramsInitRedundantPage` is described as "Call this on paramsSave() to backup
  parameters" (storage.h:91); it saves nothing and leaves the raw content of the
  redundant region in the pools until `paramsLoad` is called.
- `paramsLoad` returns `LIBPARAMS_OK` when the driver could not read (`ParamsLoad` with a
  failed read: the pools hold a mixture of the region and of what they held before).
- `is_required` parameters "will not be reset" (storage.h:58-59); they are when they
  are mutable (`ResetInts`).
- With too few pages before the primary region the index of the redundant region is
  negative; `romInit` counts it from the end of the device and may accept a region
  that overlaps the primary one (`RoomBefore` is the hypothesis that excludes it).
- The SITL reader ignores names: when a kill cuts the strings of page 0, those of
  page 1 are taken for other parameters (`IntegersStayInPlace` says why integers are
  safe: they all are on page 0).
- The SITL driver does not look at whether a page file could be opened or written:
  `paramsSave` returns `LIBPARAMS_OK` with nothing stored, where storage.h:116-117 promises
  the opposite (`AcknowledgedIsInFiles` holds only where files can be written; the
  disjunct `app.faulty` of `WriteFile` violates it without that condition).
- A string with a quotation mark is stored and comes back cut at it (`Printed`), and so
  does one with a line break. If a colon follows the line break the second line becomes
  another string, so that the strings after it move by one although `paramsSave` returned
  `LIBPARAMS_OK`, or, where a kill has cut the integers of page 0, another
  integer; `PlainFiles` excludes both where the properties of `SitlStore` speak of files.
- If a second line holds a number that does not fit an `int`, `std::stoi` throws
  `std::out_of_range`, which nobody catches: the program ends at each start. Not modelled;
  no integer that the driver prints is out of range.
- When the last integer or the last string of the program has no name, the SITL driver
  writes no files and `paramsSave` returns `LIBPARAMS_OK` (`FilesUsed`; the test that
  passes 512 for the amount of integers, tests/unit_tests/test_storage.cpp:214-216, takes
  this path).
- A version of the program that drops an integer loses all strings, because the reader
  gives up at the integer too many; it still reads the integers it kept
  (`UpdateKeepsParameters` says how much survives). One that drops strings may lose the
  last one it kept, because it opens fewer pages: of 100 strings the 73rd is on the third
  page, which a version with 73 strings does not read.
- `paramsIsErased` looks at 256 bytes. It says "erased" of a region that holds only
  strings, or whose integers all are -1; `SavedIsNotErased` needs an integer that does not
  accept -1.
- A read that fails at boot can make the store take the good copy for the standby one, as
  can, without the checksum, a save that wrote the integers and failed on the strings; the
  next save then erases what a boot would load and writes it anew (`GoodCopyIsStandby` in
  `IntegersNeverTorn`).
- `_isCorrectStringParamIndex` is true for the indices that are not correct; its callers
  expect that.

## Assumptions

- The checksum has no collisions on the contents that occur (`CrcAssumption`); that
  a mixture of two saves is recognised rests on it. The theorems about torn saves also
  need that a checksum with its low bits erased is not the checksum of another content
  (`TornChecksumsMatchNothing`). A 32-bit checksum has such collisions; they are what
  it leaves to chance.
- A cell is programmed and erased in units that divide one another, half-words or bytes
  (`RegionAssumption`), as on the devices of `src/platform_specific`.
- The cell of the checksum accepts every checksum where a theorem uses the checksum
  (`CrcCellAcceptsCrc`), and erases leave 0xFF (`TornSavesAreDetected`). Without the
  checksum the ranges of the integers must exclude what torn cells read as
  (`TornIntegersAreDetected`). The modules of the runs assume the same, so that TLC
  evaluates both for the applications it checks.
- An erase goes through the region from its first page, a write from its first
  cell; a string that is cut and whose first byte is neither 0 nor 255 is not blank.
- A read fills a pool from its first byte on; where it fails the rest keeps what it held.
- Reads do not fail where `BootLoadsRecovered` and `AtomicStore` compare what a boot
  loads; they do in `AppRedundantNoCrc`.
- The boot calls come in the order of `src/README.md` and of the test fixtures
  (`StorageApp`); `Storage` and `RomLayout` allow any order.
- Defaults are in the range of their parameters where `VisibleInRange` needs it. The
  generator does not compare them.
- `paramsInit` passes page counts that do not make `first_page_idx + pages_amount`
  wrap at 2^32 (`LayoutAssumption`).
- A flash operation ends long before the 50 s of the F103 driver's time-out, the option
  bytes are sound, and the HAL does what its interface says.
- On the SITL driver at most 512 integers, which are exactly one page, and at least
  one parameter, as `paramsInit` checks; pages and strings are whole integers and a page
  holds a string; defaults are in range and have neither a quotation mark nor a line break
  (`SitlAssumption`);
  `paramsSetDir` is called before `paramsInit`, as README.md of the driver says.
- Where a property of `SitlStore` says so, every string in the files is on one line, as far
  as the reader can tell (`PlainFiles`); without it `AcknowledgedIsInFiles` fails with a `NamedStr`. The
  integers of an acknowledged save need no such condition.
- `BootLoadsFiles` and `ReloadAgreesWithRestart` need that versions of a program with the
  redundant region only widen the range of an integer, or that 0 is outside of the range
  of one (`RangesOnlyWiden`; TLC evaluates it for the programs of `Sitl`). `SitlRange` is
  what happens without it.
- Pages, strings and banks of a driver are made of whole words, except for strings on
  the H753, where the pools are more than a flash word apart; there are two banks at
  most; the pools fit the region (`DriversAssumption`, `AppsAssumption`).
- Names have no NUL inside, and the length of a query is no longer than its buffer
  (`LookupAssumption`).
- The FRAM takes a command either not at all or up to the byte where it stopped; a write
  enable that reported an error may have been taken.

## Proofs

`tlapm` checks all theorems; they hold for any number of parameters, any
descriptors, any checksum and any set of failing operations, those of the drivers for any
sizes of pages, banks, words, chunks and pools, those of the page files for any
programs, any sizes and any sequence of versions.

`StorageProofs`. The properties are not inductive by themselves. `IInv` adds to the
type invariant: where the pointers may point (`Pointers`: the standby region is
never the active one, a save runs only with an active region), that a region is
writable only inside the session of `paramsSave`, and how far the save is
(`Progress`): at `strs` the integers are in flash and a session is open unless there
are no integers, at `end` with an OK all is in flash, after the swap the active
region is complete, and the pool holds the checksum of itself from the moment it was
written. Every action has a lemma that it preserves `IInv`. From it follow
`TypeCorrect`, `OnlyTargetIsWritable`, `FlashIsErasedBeforeProgrammed`,
`OldCopyOutlivesSave`, `ActiveCopyIsNeverTouched` (no step and no power loss changes
the region `active_rom` points to), `AcknowledgedIsStored` and, where the gap reads
as 0xFF or there is none (`GapIsErased`), `CrcIsValidAfterSave`.
`LockedBetweenCalls` needs that no erase fails: a failed erase leaves the controller
unlocked. `SaveMarks` adds that inside a save that has met no error a session is open and
that the erased flags are those of the two regions, in which case two more theorems hold
whatever fails: `LockedAfterAcknowledgedSave` (with one region, an OK means locked) and
`RechoiceIsActive` (choosing the region again after an OK takes the one that was written,
for all the flags that are left from earlier choices; it needs `GapIsErased`).

`StorageAppProofs`. `AppIsAClient` carries every theorem of `Storage` over to an
application that boots as `StorageApp` says. On top of `IInv`:

- `VisibleIntegersInRange`: `Booted` (the boot sequence has set the active region and
  the amounts when it reaches `paramsLoad`, and no save runs before its end) and
  `PoolInRange`, which also says that the value a failing save puts back into the CRC
  cell is in range. It assumes `DefaultsInRange`, and `CrcCellAcceptsCrc`: the
  parameter that holds the checksum accepts every checksum. No assumption on failures.
- `BootLoadsWhatIsRecovered`: `Opened` (the regions are open and the CRC flag is what
  the application asked for, which `SaveKeepsRegions` shows of the steps of a save)
  and `ChosenIsActive`, when no read fails.
- `AcknowledgedSurvivesReset`: always with one region. With two it assumes
  `SavesAreRecognised`: the unlock and the erase of the old copy do not fail, some
  integer does not accept what an erase leaves, the saved integers are in range, and
  with the CRC the gap reads as 0xFF. `EraseFailureLosesSave` is what happens without
  the first of these, and `ErasedRomChosen` shows the choice without the second.

`RomLayoutProofs`. `LInv` says that every access of the last call lies in a region
`romInit` accepted, which ends on the device; it is inductive with the types and
gives `AccessesStayInRegion` and `AccessesStayOnDevice` for any device and any calls.
For an application that names one region with room before it, `OneRegionInv`
(every region in use is that one or the one right before it, and both hold the
amounts that are set) gives `PoolsAreDisjoint` and `RegionsAreDisjoint`.

`StorageHistoryProofs`. `FailedSaveKeepsPools` needs only `CallInv`: during a save the
pools are those of the call, except for the checksum in the CRC cell, which is put back
before any step that returns an error. The other two assume `TornSavesAreDetected` and
rest on `HInv`. That a matching checksum proves a whole save is not inductive: a region
may lose the checksum, bit by bit, in one cut erase after the other, and get part of
another one. `StoredChecksum` says what remains: the CRC cell holds the checksum of the
last write session, that checksum with low bits erased (which by the assumptions on
checksums belongs to nothing else), or a negative number, which an erase or a cut write
leaves and no checksum is. From it follow `ValidCopiesWereSaved` and, with the choice of the boot,
`WholeSaveIsRecovered`.

`StorageAppProofs` also has the refinement. `ImplementsAbstract` proves the refinement step by step
(`OperationIsAtomic`): each step of the application and each power loss is a step of
`AtomicStore` or changes nothing it sees. The invariant is `RInv`:

- `Origins`: every region either holds no part of a checksum, or each of its cells is
  what erases left of one and the same save (`LeftOf`; as unsigned numbers the cells are
  above those of that save, because erasing only sets bits). So a region that matches its
  checksum is whole, and a region that a cut erase has damaged does not become valid
  again by the next one.
- `ValidInRange`: a valid region has its integers in range, so that the range test of
  `_chooseRom` does not overrule the checksum.
- `NewCopyOrNone` and `SaveRuns`: while a save runs the region that is written is invalid
  or holds what is saved.
- `ActiveIsChosen`: between saves the active region is the one a boot would choose. This
  is what makes a save that erases the standby region first harmless.

`IntegersAreNeverTorn`, for applications without the checksum, has no assumption on
failures: by `CellsLeft` every integer cell is what erases left of some value in its range,
so that a region with a torn cell looks erased until all its integers are written. A boot
then loads the other region, which is not touched before, or the one that is written, once
its integers are complete. That does not depend on which region the boot before took for the
active one, so that nothing is asked of its reads; what is excluded is a save that erases
and writes the region a boot would load (`GoodCopyIsStandby`).

`FlashDriversProofs`. One invariant, `DInv`, for the four drivers: the job queue brings
cells of the region to what the session wants there (`JobsTo`: the region erased, then
the first pool in it, then both), and while no error was met what is not yet as it
should be is still in the queue, and the words to be programmed are erased (`Progress`).
Its lemmas say of each driver's own arithmetic that the queue is right: `BankedErases`
(the G0B1 and the H753 erase the pages of the region and no others, whatever the banks
it lies in), `FramErases` (the chunks), `WordJobs` (the words of a pool do not meet
those of the other one, and their padding is outside both) and `FramWrites`. From `DInv`
follow `DriversTypeOK`, `TheRestIsKept`, `WritableIsErased`, `WordsArePermitted` and
`SavedIsReadBack`; `ErrorStopsTheDriver` needs no invariant.

`ParamLookupProofs`. `NameEqualIsEquality`: `_isNameEqual` is equality of names,
although `strncmp` alone is not, whatever is behind the NUL. With `AmountsInForce` (the
three amounts are those of one accepted `paramsInit`) it gives `NamesFindTheirParameter`.
Both use that a set of naturals has a least member (`LeastNat` of `InductionLemmas`).

`InductionLemmas`. The induction theorems of the library take a predicate as a parameter,
which the provers cannot instantiate; with a set in place of the predicate they can:
`LeastNat` comes from the well-foundedness of inclusion on finite sets, and
`NatSetInduction` from it. From that follow that a function defined by recursion over
`0 .. n` exists and has its steps, and what `FlattenSeq` does to the slices of a sequence,
to a first sequence followed by empty ones, and to a longer list of sequences.

`SitlStoreProofs`. Most of it says that writer and reader are inverse. `WrittenSteps` and
`WrittenFacts` say what the writer has printed before each page: all integers are on page
0 and the strings go on where the page before stopped, so that the pages are slices of the
parameters (`PageOfFacts`) and reading all of them gives the parameters back (`ReadBack`).
`DefaultsSplit` shows that the while loops of the generator count the same
(`FittingIsQuotient`). The reader takes the integers from page 0 alone, whatever pages are
missing or cut (`ReadFacts`), and reading twice is reading once (`ReadFilesFacts`). Strings
of several lines enter in one place: `TakeFacts` says that the reader takes the integers
of page 0 first, whatever the strings after them are, and `PlainLines` that it takes just
the strings if each of them is on one line. The integers of an acknowledged save therefore
need no assumption on the strings; what speaks of strings, or of files that were cut, has
`PlainFiles` as a condition. The invariants are:

- `BaseInv`: the types, that files hold no quotation mark and pages other than the first
  no integers (`FilesTyped`, which the cuts of kills and full disks preserve,
  `PageWritten`), and that only the files outlive the process (`Shape`). From it follow
  `SitlTypes`, `SplitAlike` and `SitlUpdateKeeps`. For the last one
  `MorePages` shows that a version with more parameters does not read fewer pages.
- `SaveInv`: what the files and the region hold at every label of `paramsSave`. The first
  `flashWrite` prints a region without its strings, the second one prints all pages again;
  what counts is that the last round printed the region that equals the pools.
  `SitlAcknowledged` follows, and `SitlIntegersStay`, since what is cut is a page of the
  pools.
- `RangeInv`: a running program has its integers in range, and a number in page 0 is one
  that some version before had in range, or its first digits. `OfSomeVersion` is what
  makes the recovery inductive across versions.
- `IdleInv`: between saves the active region is the one that was read from the files
  (`Started`) or the one that was printed to them (`JustSaved`), and the other region is
  blank or equal, as long as the files could be written and are plain. With
  `RangesOnlyWiden` it gives `SitlBootLoads` and `SitlReloadAgrees`.

Only model-checked, with the reasons:

- `SaveTerminates` of `Storage` and `SitlStore`: liveness under fairness is out of the
  prover's reach.
- `SessionImplementsStorage`: the mapping of `DriverSession`. Its parts are proved
  (what each driver erases and programs); that every prefix of the jobs, read as cells, is
  one of the contents `Storage` takes for cut short is left to TLC.
- The five disagreements above are counterexamples.

## Not modelled, and the plan

Not modelled because nothing can go wrong there that these methods show: logging,
text generation, the CRC polynomial, `romGetErrorCode`, the legacy macros, build
files and examples. Not modelled although it matters: the terminator the SITL reader
writes behind a string of full length, which is one byte of the next string's cell or one
byte past the region (contents of strings are abstracted; the next string is read
after it and repairs its first byte).

Planned next: the proof of the step simulation of `DriverSession`, on top of `DInv`.
