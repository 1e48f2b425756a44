---- MODULE RomLayout ----
(***************************************************************************)
(* The address arithmetic of src/rom.c and of its caller src/storage.c:    *)
(* which bytes of the device a RomDriverInstance covers, where the two     *)
(* pools lie in it, and which accesses reach the flash driver.             *)
(*                                                                         *)
(* Addresses are byte offsets from the start of the device.  accesses      *)
(* holds what the last call asked of the driver, so that the invariants    *)
(* can say where a call reads, writes and erases.                          *)
(***************************************************************************)
EXTENDS Integers

CONSTANTS
    NumPages,   \* get_number_of_pages()
    PageSize,   \* get_page_size()
    IntSize,    \* sizeof(IntegerParamValue_t)
    StrSize,    \* MAX_STRING_LENGTH
    Word,       \* 2^32: the unsigned arithmetic of offsets wraps there
    RangeSets,  \* sets of <<first_page_idx, pages_num>>: each is an application
    Amounts     \* the <<int_num, str_num>> passed to paramsInit

ASSUME LayoutAssumption ==
    /\ NumPages \in Nat
    /\ PageSize \in Nat \ {0}
    /\ IntSize \in Nat \ {0}
    /\ StrSize \in Nat \ {0}
    /\ Word \in Nat \ {0}
    /\ NumPages * PageSize < Word
    /\ RangeSets \subseteq SUBSET (Int \X Nat)
    /\ \A S \in RangeSets : \A x \in S : NumPages + x[2] < Word   \* no wrapping page counts
    /\ Amounts \subseteq (0 .. 512) \X (0 .. 512)   \* paramsInit refuses more

VARIABLES
    ranges,             \* the page ranges this application passes to paramsInit
    rom,                \* primary_rom and redundant_rom
    active_rom,
    standby_rom,
    integers_amount,
    strings_amount,
    all_params_amount,
    accesses

amounts == <<integers_amount, strings_amount, all_params_amount>>
vars == <<ranges, rom, active_rom, standby_rom, amounts, accesses>>

Roms == {"primary", "redundant"}

RomInstance == [inited : BOOLEAN, first_page_idx : Nat, pages_amount : Nat]
NotInited == [inited |-> FALSE, first_page_idx |-> 0, pages_amount |-> 0]

Access == [op : {"read", "write", "erase"}, what : {"ints", "strs", "region"},
           lo : Nat, hi : Nat]

TypeOK ==
    /\ ranges \in RangeSets
    /\ rom \in [Roms -> RomInstance]
    /\ active_rom \in Roms \cup {"NULL"}
    /\ standby_rom \in Roms \cup {"NULL"}
    /\ integers_amount \in Nat
    /\ strings_amount \in Nat
    /\ all_params_amount \in Nat
    /\ accesses \in SUBSET Access

Init ==
    /\ ranges \in RangeSets
    /\ rom = [r \in Roms |-> NotInited]
    /\ active_rom = "NULL"
    /\ standby_rom = "NULL"
    /\ integers_amount = 0
    /\ strings_amount = 0
    /\ all_params_amount = 0
    /\ accesses = {}

----------------------------------------------------------------------------
(* src/rom.c                                                               *)

FromStart(first) == IF first < 0 THEN first + NumPages ELSE first

\* Mutant: an index still negative after it was counted from the end passes.
FitsNegative(f, pages) == f + pages <= NumPages /\ pages # 0

\* Mutant: the last page is not counted.
FitsLoosely(f, pages) == f >= 0 /\ f + pages <= NumPages + 1 /\ pages # 0

\* romInit accepts the pages [f, f + pages).
Fits(f, pages) == f >= 0 /\ f + pages <= NumPages /\ pages # 0

RomInit(first, pages) ==
    IF Fits(FromStart(first), pages)
    THEN [inited |-> TRUE, first_page_idx |-> FromStart(first), pages_amount |-> pages]
    ELSE NotInited

Addr(r) == r.first_page_idx * PageSize
TotalSize(r) == r.pages_amount * PageSize

\* romRead, clamped to the end of the region.
ReadAccess(r, what, offset, size) ==
    IF r.inited /\ offset < TotalSize(r) /\ size # 0
    THEN {[op |-> "read", what |-> what, lo |-> Addr(r) + offset,
           hi |-> Addr(r) + (IF TotalSize(r) - offset < size
                             THEN TotalSize(r) ELSE offset + size)]}
    ELSE {}

\* Mutant: only the first byte is checked.
WriteStartsInside(r, offset, size) == r.inited /\ offset < TotalSize(r) /\ size # 0

\* romWrite refuses what does not fit the region.
WriteAccepted(r, offset, size) ==
    r.inited /\ offset < TotalSize(r) /\ size # 0 /\ offset + size <= TotalSize(r)

WriteAccess(r, what, offset, size) ==
    [op |-> "write", what |-> what, lo |-> Addr(r) + offset, hi |-> Addr(r) + offset + size]

\* romBeginWrite erases the pages of the region.
EraseAccess(r) ==
    IF r.inited
    THEN {[op |-> "erase", what |-> "region", lo |-> Addr(r), hi |-> Addr(r) + TotalSize(r)]}
    ELSE {}

----------------------------------------------------------------------------
(* src/storage.c                                                           *)

IntPoolSize == IntSize * integers_amount
StrPoolSize == StrSize * strings_amount

\* _getStringMemoryPoolAddress: the string pool ends where the region ends.
StrOffset(r) == (TotalSize(r) - StrPoolSize) % Word

LoadAccesses(r) ==
    ReadAccess(r, "ints", 0, IntPoolSize) \cup ReadAccess(r, "strs", StrOffset(r), StrPoolSize)

\* Mutant: the strings are forgotten.
NeedOfInts(amount) == IntSize * amount[1]

Need(amount) == IntSize * amount[1] + StrSize * amount[2]

\* paramsInit: when the region is too small the amounts are put back, but
\* primary_rom is not.
ParamsInit(range, amount) ==
    LET r == RomInit(range[1], range[2])
    IN /\ rom' = [rom EXCEPT !["primary"] = r]
       /\ accesses' = {}
       /\ \/ /\ r.inited
             /\ TotalSize(r) >= Need(amount)
             /\ integers_amount' = amount[1]
             /\ strings_amount' = amount[2]
             /\ all_params_amount' = amount[1] + amount[2]
             /\ active_rom' = "primary"
             /\ standby_rom' = "NULL"
          \/ /\ ~r.inited \/ TotalSize(r) < Need(amount)
             /\ UNCHANGED <<amounts, active_rom, standby_rom>>

\* Mutant: the page before the primary region, whatever its size.
OnePageBefore(p) == p.first_page_idx - 1

RedundantFirst(p) == p.first_page_idx - p.pages_amount

\* The region right before the primary one, or what romInit makes of a
\* negative index.  _chooseRom may choose either region.
ParamsInitRedundantPage ==
    LET p == rom["primary"]
        r == RomInit(RedundantFirst(p), p.pages_amount)
    IN /\ rom' = [rom EXCEPT !["redundant"] = r]
       /\ \/ /\ p.inited /\ r.inited
             /\ accesses' = LoadAccesses(p) \cup LoadAccesses(r)
             /\ \E a \in Roms : active_rom' = a /\ standby_rom' \in Roms \ {a}
          \/ /\ ~(p.inited /\ r.inited)
             /\ accesses' = {}
             /\ UNCHANGED <<active_rom, standby_rom>>
       /\ UNCHANGED amounts

ParamsLoad ==
    /\ active_rom # "NULL"
    /\ accesses' = LoadAccesses(rom[active_rom])
    /\ UNCHANGED <<rom, active_rom, standby_rom, amounts>>

Target == IF standby_rom # "NULL" THEN standby_rom ELSE active_rom

\* The writes of _save, which stops at the first one that is refused.
IntWrites(r) ==
    IF WriteAccepted(r, 0, IntPoolSize) THEN {WriteAccess(r, "ints", 0, IntPoolSize)} ELSE {}
StrWrites(r) ==
    IF WriteAccepted(r, StrOffset(r), StrPoolSize)
    THEN {WriteAccess(r, "strs", StrOffset(r), StrPoolSize)} ELSE {}

IntsSaved(r) == IntPoolSize = 0 \/ IntWrites(r) # {}
StrsSaved(r) == StrPoolSize = 0 \/ StrWrites(r) # {}

\* paramsSave: on success with a redundant region the old one is erased.
ParamsSave ==
    /\ all_params_amount # 0
    /\ LET t == rom[Target]
           old == rom[active_rom]
       IN \/ /\ ~IntsSaved(t)
             /\ accesses' = EraseAccess(t)
             /\ UNCHANGED <<active_rom, standby_rom>>
          \/ /\ IntsSaved(t) /\ ~StrsSaved(t)
             /\ accesses' = EraseAccess(t) \cup IntWrites(t)
             /\ UNCHANGED <<active_rom, standby_rom>>
          \/ /\ IntsSaved(t) /\ StrsSaved(t) /\ standby_rom = "NULL"
             /\ accesses' = EraseAccess(t) \cup IntWrites(t) \cup StrWrites(t)
             /\ UNCHANGED <<active_rom, standby_rom>>
          \/ /\ IntsSaved(t) /\ StrsSaved(t) /\ standby_rom # "NULL"
             /\ accesses' = EraseAccess(t) \cup IntWrites(t) \cup StrWrites(t) \cup EraseAccess(old)
             /\ active_rom' = standby_rom
             /\ standby_rom' = active_rom
    /\ UNCHANGED <<rom, amounts>>

Next ==
    /\ \/ \E range \in ranges, amount \in Amounts : ParamsInit(range, amount)
       \/ ParamsInitRedundantPage
       \/ ParamsLoad
       \/ ParamsSave
    /\ UNCHANGED ranges

Spec == Init /\ [][Next]_vars

----------------------------------------------------------------------------
(* Properties                                                              *)

Within(a, r) == Addr(r) <= a.lo /\ a.lo < a.hi /\ a.hi <= Addr(r) + TotalSize(r)

Disjoint(a, b) == a.hi <= b.lo \/ b.hi <= a.lo

\* Whatever paramsInit was called with, and whether it succeeded, every
\* access that reaches the driver stays inside a region romInit accepted.
AccessesInRegion ==
    \A a \in accesses : \E r \in Roms : rom[r].inited /\ Within(a, rom[r])

\* No access goes past the end of the device.
AccessesOnDevice == \A a \in accesses : a.hi <= NumPages * PageSize

\* paramsInit is only ever called for one region (other calls fail in
\* romInit), and there is room for the redundant one before it.
OneRegion ==
    \A x, y \in ranges :
        LET p == RomInit(x[1], x[2])
            q == RomInit(y[1], y[2])
        IN p.inited /\ q.inited => p = q
RoomBefore == \A x \in ranges : RomInit(x[1], x[2]).inited => FromStart(x[1]) >= x[2]

\* The two pools of a save share no byte: what paramsInit checked for the
\* region it was called with.
WritesApart ==
    \A a, b \in accesses :
        a.op = "write" /\ b.op = "write" /\ a.what # b.what => Disjoint(a, b)

\* In an application with one region a save never writes one pool over the
\* other, even after calls of paramsInit that failed and put the amounts
\* back.
PoolsDisjoint == OneRegion /\ RoomBefore => WritesApart

RegionsApart ==
    rom["primary"].inited /\ rom["redundant"].inited =>
        \/ Addr(rom["primary"]) + TotalSize(rom["primary"]) <= Addr(rom["redundant"])
        \/ Addr(rom["redundant"]) + TotalSize(rom["redundant"]) <= Addr(rom["primary"])

\* In such an application the redundant region shares no byte with the
\* primary one, so that erasing one spares the copy in the other.
RegionsDisjoint == OneRegion /\ RoomBefore => RegionsApart
====
