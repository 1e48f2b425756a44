---- MODULE RomLayoutProofs ----
(***************************************************************************)
(* Theorems of RomLayout, for any device, sizes, page ranges and amounts.  *)
(***************************************************************************)
EXTENDS RomLayout, TLAPS

----------------------------------------------------------------------------
(* Arithmetic                                                              *)

\* A product of naturals, as sizes and addresses are, is a natural.
LEMMA ProductType == \A m, n \in Nat : m * n \in Nat
  OBVIOUS

\* More pages take at least as many bytes.
LEMMA ProductMonotonic ==
    ASSUME NEW l \in Nat, NEW m \in Nat, NEW n \in Nat, l <= m
    PROVE  l * n <= m * n
  OBVIOUS

\* The bytes of two ranges of pages add up.
LEMMA ProductSum ==
    ASSUME NEW l \in Nat, NEW m \in Nat, NEW n \in Nat
    PROVE  (l + m) * n = l * n + m * n
  OBVIOUS

----------------------------------------------------------------------------
(* Regions                                                                 *)

\* A region that romInit accepted lies on the device.
OnDevice(r) == r.inited => r.pages_amount # 0 /\ r.first_page_idx + r.pages_amount <= NumPages

\* romInit returns a RomDriverInstance, accepted or not.
LEMMA RomInitType ==
    ASSUME NEW first \in Int, NEW pages \in Nat
    PROVE  RomInit(first, pages) \in RomInstance /\ OnDevice(RomInit(first, pages))
<1>1. FromStart(first) \in Int
  BY LayoutAssumption DEF FromStart
<1> QED
  BY <1>1 DEF RomInit, Fits, RomInstance, NotInited, OnDevice

\* The address and the size of a region are naturals.
LEMMA RegionType ==
    ASSUME NEW r \in RomInstance
    PROVE  Addr(r) \in Nat /\ TotalSize(r) \in Nat
<1>1. r.first_page_idx \in Nat /\ r.pages_amount \in Nat /\ PageSize \in Nat
  BY LayoutAssumption DEF RomInstance
<1> QED
  BY <1>1, ProductType DEF Addr, TotalSize

\* A region that romInit accepts ends on the device.
LEMMA RegionEnd ==
    ASSUME NEW r \in RomInstance, OnDevice(r), r.inited
    PROVE  Addr(r) + TotalSize(r) <= NumPages * PageSize
<1> DEFINE f == r.first_page_idx
           p == r.pages_amount
<1>1. f \in Nat /\ p \in Nat /\ f + p <= NumPages /\ NumPages \in Nat /\ PageSize \in Nat
  BY LayoutAssumption DEF RomInstance, OnDevice
<1>2. (f + p) * PageSize <= NumPages * PageSize
  BY <1>1, ProductMonotonic
<1>3. (f + p) * PageSize = f * PageSize + p * PageSize
  BY <1>1, ProductSum
<1> QED
  BY <1>2, <1>3 DEF Addr, TotalSize

----------------------------------------------------------------------------
(* Accesses                                                                *)

\* Every access of a set is one, and inside the region r.
Inside(accs, r) == \A a \in accs : a \in Access /\ r.inited /\ Within(a, r)

\* romRead is clamped to its region.
LEMMA ReadInside ==
    ASSUME NEW r \in RomInstance, NEW what \in {"ints", "strs"},
           NEW offset \in Nat, NEW size \in Nat
    PROVE  Inside(ReadAccess(r, what, offset, size), r)
<1>1. Addr(r) \in Nat /\ TotalSize(r) \in Nat
  BY RegionType
<1> QED
  BY <1>1 DEF ReadAccess, Inside, Access, Within

\* romWrite passes on only what lies in its region.
LEMMA WriteInside ==
    ASSUME NEW r \in RomInstance, NEW what \in {"ints", "strs"},
           NEW offset \in Nat, NEW size \in Nat, WriteAccepted(r, offset, size)
    PROVE  Inside({WriteAccess(r, what, offset, size)}, r)
<1>1. Addr(r) \in Nat /\ TotalSize(r) \in Nat
  BY RegionType
<1> QED
  BY <1>1 DEF WriteAccepted, WriteAccess, Inside, Access, Within

\* romBeginWrite erases exactly the pages of its region.
LEMMA EraseInside ==
    ASSUME NEW r \in RomInstance, OnDevice(r)
    PROVE  Inside(EraseAccess(r), r)
<1>1. Addr(r) \in Nat /\ TotalSize(r) \in Nat
  BY RegionType
<1>2. r.inited => TotalSize(r) > 0
  <2>1. r.inited => r.pages_amount \in Nat \ {0} /\ PageSize \in Nat \ {0}
    BY LayoutAssumption DEF RomInstance, OnDevice
  <2> QED
    BY <2>1 DEF TotalSize
<1> QED
  BY <1>1, <1>2 DEF EraseAccess, Inside, Access, Within

----------------------------------------------------------------------------
(* The inductive invariant                                                 *)

LInv ==
    /\ TypeOK
    /\ \A r \in Roms : OnDevice(rom[r])
    /\ active_rom = "NULL" => standby_rom = "NULL" /\ all_params_amount = 0
    /\ AccessesInRegion

\* The sizes a call computes.
LEMMA SizesType ==
    ASSUME TypeOK
    PROVE  /\ IntPoolSize \in Nat
           /\ StrPoolSize \in Nat
           /\ \A r \in Roms : StrOffset(rom[r]) \in Nat
<1>1. IntPoolSize \in Nat /\ StrPoolSize \in Nat
  BY LayoutAssumption, ProductType DEF TypeOK, IntPoolSize, StrPoolSize
<1>2. ASSUME NEW r \in Roms PROVE StrOffset(rom[r]) \in Nat
  <2>1. TotalSize(rom[r]) - StrPoolSize \in Int /\ Word \in Nat \ {0}
    BY <1>1, RegionType, LayoutAssumption DEF TypeOK
  <2> QED
    BY <2>1, SMT DEF StrOffset
<1> QED
  BY <1>1, <1>2

\* Accesses inside accepted regions are typed and in a region.
LEMMA InsideInRegion ==
    ASSUME NEW r \in Roms, NEW accs, Inside(accs, rom[r])
    PROVE  /\ accs \in SUBSET Access
           /\ \A a \in accs : \E q \in Roms : rom[q].inited /\ Within(a, rom[q])
  BY DEF Inside

\* What paramsLoad reads lies in the region it reads.
LEMMA LoadInside ==
    ASSUME TypeOK, NEW r \in Roms
    PROVE  Inside(LoadAccesses(rom[r]), rom[r])
<1>1. rom[r] \in RomInstance /\ 0 \in Nat
  BY DEF TypeOK
<1>2. Inside(ReadAccess(rom[r], "ints", 0, IntPoolSize), rom[r])
  BY <1>1, SizesType, ReadInside
<1>3. Inside(ReadAccess(rom[r], "strs", StrOffset(rom[r]), StrPoolSize), rom[r])
  BY <1>1, SizesType, ReadInside
<1> QED
  BY <1>2, <1>3 DEF LoadAccesses, Inside

\* What _save writes lies in the region it writes.
LEMMA SaveInside ==
    ASSUME TypeOK, NEW r \in Roms, OnDevice(rom[r])
    PROVE  Inside(EraseAccess(rom[r]) \cup IntWrites(rom[r]) \cup StrWrites(rom[r]), rom[r])
<1>1. rom[r] \in RomInstance /\ 0 \in Nat
  BY DEF TypeOK
<1>2. Inside(EraseAccess(rom[r]), rom[r])
  BY <1>1, EraseInside
<1>3. Inside(IntWrites(rom[r]), rom[r])
  <2>1. WriteAccepted(rom[r], 0, IntPoolSize) =>
            Inside({WriteAccess(rom[r], "ints", 0, IntPoolSize)}, rom[r])
    BY <1>1, SizesType, WriteInside
  <2> QED
    BY <2>1 DEF IntWrites, Inside
<1>4. Inside(StrWrites(rom[r]), rom[r])
  <2>1. WriteAccepted(rom[r], StrOffset(rom[r]), StrPoolSize) =>
            Inside({WriteAccess(rom[r], "strs", StrOffset(rom[r]), StrPoolSize)}, rom[r])
    BY <1>1, SizesType, WriteInside
  <2> QED
    BY <2>1 DEF StrWrites, Inside
<1> QED
  BY <1>2, <1>3, <1>4 DEF Inside

\* Before the first call no access was made.
LEMMA InitLInv == Init => LInv
  BY DEF Init, LInv, TypeOK, NotInited, RomInstance, OnDevice, AccessesInRegion, Roms

\* paramsInit keeps the invariant: it makes no access.
LEMMA ParamsInitLInv ==
    ASSUME LInv, NEW range \in ranges, NEW amount \in Amounts, ParamsInit(range, amount),
           UNCHANGED ranges
    PROVE  LInv'
<1> DEFINE r == RomInit(range[1], range[2])
<1>1. range[1] \in Int /\ range[2] \in Nat /\ amount[1] \in Nat /\ amount[2] \in Nat
  BY LayoutAssumption, SMTT(30) DEF LInv, TypeOK
<1>2. r \in RomInstance /\ OnDevice(r)
  BY <1>1, RomInitType
<1>3. rom' = [rom EXCEPT !["primary"] = r] /\ accesses' = {}
  BY DEF ParamsInit
<1> HIDE DEF r
<1>4. rom' \in [Roms -> RomInstance] /\ \A q \in Roms : OnDevice(rom'[q])
  BY <1>2, <1>3 DEF LInv, TypeOK
<1>5. /\ integers_amount' \in Nat /\ strings_amount' \in Nat /\ all_params_amount' \in Nat
      /\ active_rom' \in Roms \cup {"NULL"} /\ standby_rom' \in Roms \cup {"NULL"}
      /\ active_rom' = "NULL" => standby_rom' = "NULL" /\ all_params_amount' = 0
  BY <1>1 DEF ParamsInit, LInv, TypeOK, amounts, Roms
<1>6. TypeOK'
  BY <1>3, <1>4, <1>5 DEF LInv, TypeOK
<1> QED
  BY <1>3, <1>4, <1>5, <1>6 DEF LInv, AccessesInRegion

\* paramsInitRedundantPage keeps it: it reads the two regions.
LEMMA ParamsInitRedundantPageLInv ==
    ASSUME LInv, ParamsInitRedundantPage, UNCHANGED ranges
    PROVE  LInv'
<1> DEFINE p == rom["primary"]
           r == RomInit(RedundantFirst(p), p.pages_amount)
<1>0. TypeOK /\ p \in RomInstance /\ OnDevice(p)
  BY DEF LInv, TypeOK, Roms
<1>1. r \in RomInstance /\ OnDevice(r)
  <2>1. RedundantFirst(p) \in Int /\ p.pages_amount \in Nat
    BY <1>0 DEF RedundantFirst, RomInstance
  <2> QED
    BY <2>1, RomInitType
<1>2. /\ rom' = [rom EXCEPT !["redundant"] = r]
      /\ \/ /\ p.inited /\ r.inited
            /\ accesses' = LoadAccesses(p) \cup LoadAccesses(r)
            /\ active_rom' \in Roms /\ standby_rom' \in Roms
         \/ /\ accesses' = {}
            /\ UNCHANGED <<active_rom, standby_rom>>
      /\ UNCHANGED amounts
  BY DEF ParamsInitRedundantPage
<1> HIDE DEF r
<1>3. /\ rom' \in [Roms -> RomInstance] /\ \A q \in Roms : OnDevice(rom'[q])
      /\ rom'["primary"] = p /\ rom'["redundant"] = r
  BY <1>0, <1>1, <1>2 DEF LInv, TypeOK, Roms
<1>4. Inside(LoadAccesses(p), p) /\ Inside(LoadAccesses(r), r)
  <2>1. IntPoolSize \in Nat /\ StrPoolSize \in Nat
    BY <1>0, SizesType
  <2>2. ASSUME NEW q \in RomInstance PROVE Inside(LoadAccesses(q), q)
    <3>1. StrOffset(q) \in Nat
      <4>1. TotalSize(q) - StrPoolSize \in Int /\ Word \in Nat \ {0}
        BY <2>1, RegionType, LayoutAssumption
      <4> QED
        BY <4>1, SMT DEF StrOffset
    <3>2. Inside(ReadAccess(q, "ints", 0, IntPoolSize), q)
      BY <2>1, ReadInside
    <3>3. Inside(ReadAccess(q, "strs", StrOffset(q), StrPoolSize), q)
      BY <2>1, <3>1, ReadInside
    <3> QED
      BY <3>2, <3>3 DEF LoadAccesses, Inside
  <2> QED
    BY <1>0, <1>1, <2>2
<1>5. accesses' \in SUBSET Access /\ AccessesInRegion'
  BY <1>2, <1>3, <1>4 DEF Inside, AccessesInRegion, Roms
<1>6. TypeOK'
  BY <1>0, <1>2, <1>3, <1>5 DEF TypeOK, amounts
<1>7. active_rom' = "NULL" => standby_rom' = "NULL" /\ all_params_amount' = 0
  BY <1>2 DEF LInv, Roms, amounts
<1> QED
  BY <1>3, <1>5, <1>6, <1>7 DEF LInv

\* paramsLoad keeps it: it reads the active region.
LEMMA ParamsLoadLInv ==
    ASSUME LInv, ParamsLoad, UNCHANGED ranges
    PROVE  LInv'
<1>1. /\ active_rom \in Roms /\ accesses' = LoadAccesses(rom[active_rom])
      /\ UNCHANGED <<rom, active_rom, standby_rom, integers_amount, strings_amount,
                      all_params_amount>>
  BY DEF ParamsLoad, LInv, TypeOK, amounts
<1>2. Inside(accesses', rom[active_rom])
  BY <1>1, LoadInside DEF LInv
<1>3. accesses' \in SUBSET Access /\ AccessesInRegion'
  BY <1>1, <1>2, InsideInRegion DEF AccessesInRegion
<1> QED
  BY <1>1, <1>3 DEF LInv, TypeOK

\* paramsSave keeps it, whichever of its writes is refused.
LEMMA ParamsSaveLInv ==
    ASSUME LInv, ParamsSave, UNCHANGED ranges
    PROVE  LInv'
<1>1. active_rom \in Roms /\ Target \in Roms
  BY DEF ParamsSave, LInv, TypeOK, Target
<1> DEFINE t == rom[Target]
           old == rom[active_rom]
<1>2. /\ UNCHANGED <<rom, integers_amount, strings_amount, all_params_amount>>
      /\ accesses' \subseteq
             EraseAccess(t) \cup IntWrites(t) \cup StrWrites(t) \cup EraseAccess(old)
      /\ active_rom' \in Roms /\ standby_rom' \in Roms \cup {"NULL"}
  BY <1>1 DEF ParamsSave, amounts, LInv, TypeOK
<1>3. /\ Inside(EraseAccess(t) \cup IntWrites(t) \cup StrWrites(t), t)
      /\ Inside(EraseAccess(old), old)
  BY <1>1, SaveInside DEF LInv, Inside
<1>4. accesses' \in SUBSET Access /\ AccessesInRegion'
  BY <1>1, <1>2, <1>3 DEF Inside, AccessesInRegion
<1>5. active_rom' # "NULL"
  BY <1>2 DEF Roms
<1> QED
  BY <1>2, <1>4, <1>5 DEF LInv, TypeOK

\* Every call keeps the invariant.
LEMMA NextLInv == LInv /\ [Next]_vars => LInv'
<1> SUFFICES ASSUME LInv, [Next]_vars PROVE LInv'
  OBVIOUS
<1>1. CASE UNCHANGED vars
  BY <1>1 DEF vars, amounts, LInv, TypeOK, AccessesInRegion
<1>2. CASE Next
  BY <1>2, ParamsInitLInv, ParamsInitRedundantPageLInv, ParamsLoadLInv, ParamsSaveLInv DEF Next
<1> QED
  BY <1>1, <1>2

----------------------------------------------------------------------------
(* Theorems                                                                *)

\* The invariant holds for any device and any calls.
THEOREM LayoutInvariance == Spec => []LInv
  BY InitLInv, NextLInv, PTL DEF Spec

\* The page indices and the addresses are never negative.
THEOREM LayoutTypeCorrect == Spec => []TypeOK
<1>1. LInv => TypeOK
  BY DEF LInv
<1> QED
  BY <1>1, LayoutInvariance, PTL

\* Every read, write and erase stays inside a region romInit accepted,
\* whatever paramsInit was called with and whether or not it succeeded.
THEOREM AccessesStayInRegion == Spec => []AccessesInRegion
<1>1. LInv => AccessesInRegion
  BY DEF LInv
<1> QED
  BY <1>1, LayoutInvariance, PTL

\* And on the device.
THEOREM AccessesStayOnDevice == Spec => []AccessesOnDevice
<1>1. LInv => AccessesOnDevice
  <2> SUFFICES ASSUME LInv, NEW a \in accesses PROVE a.hi <= NumPages * PageSize
    BY DEF AccessesOnDevice
  <2>1. PICK r \in Roms : rom[r].inited /\ Within(a, rom[r])
    BY DEF LInv, AccessesInRegion
  <2>2. rom[r] \in RomInstance /\ OnDevice(rom[r]) /\ a.hi \in Nat
    BY DEF LInv, TypeOK, Access
  <2>3. Addr(rom[r]) + TotalSize(rom[r]) <= NumPages * PageSize
    BY <2>1, <2>2, RegionEnd
  <2>4. NumPages * PageSize \in Nat /\ Addr(rom[r]) \in Nat /\ TotalSize(rom[r]) \in Nat
    BY <2>2, RegionType, ProductType, LayoutAssumption
  <2> QED
    BY <2>1, <2>2, <2>3, <2>4 DEF Within
<1> QED
  BY <1>1, LayoutInvariance, PTL

----------------------------------------------------------------------------
(* An application with one region                                          *)

\* Every region in use is the one of paramsInit or the one before it, and
\* large enough for the amounts that are set.
Region(x) == RomInit(x[1], x[2])

OnlyRegions ==
    /\ \/ rom["primary"].inited /\ \E x \in ranges : rom["primary"] = Region(x)
       \/ ~rom["primary"].inited /\ rom["primary"].pages_amount = 0
    /\ rom["redundant"].inited =>
          \E x \in ranges :
              /\ Region(x).inited
              /\ rom["redundant"].first_page_idx = Region(x).first_page_idx - Region(x).pages_amount
              /\ rom["redundant"].pages_amount = Region(x).pages_amount

LargeEnough ==
    \A x \in ranges : Region(x).inited => TotalSize(Region(x)) >= IntPoolSize + StrPoolSize

OneRegionInv == OnlyRegions /\ LargeEnough /\ WritesApart

\* In an application with one region, what romInit returns for its range.
LEMMA RegionFacts ==
    ASSUME TypeOK, NEW x \in ranges, Region(x).inited
    PROVE  /\ Region(x) \in RomInstance /\ OnDevice(Region(x))
           /\ Region(x).first_page_idx = FromStart(x[1])
           /\ Region(x).pages_amount = x[2]
           /\ RoomBefore => Region(x).first_page_idx >= Region(x).pages_amount
<1>1. x[1] \in Int /\ x[2] \in Nat
  BY LayoutAssumption DEF TypeOK
<1>2. Region(x) \in RomInstance /\ OnDevice(Region(x))
  BY <1>1, RomInitType DEF Region
<1>3. Region(x).first_page_idx = FromStart(x[1]) /\ Region(x).pages_amount = x[2]
  BY DEF Region, RomInit, NotInited
<1> QED
  BY <1>2, <1>3 DEF RoomBefore, Region

\* A region and the one before it have the same size and do not overlap.
LEMMA BeforeRegion ==
    ASSUME NEW p \in RomInstance, NEW r \in RomInstance,
           r.first_page_idx = p.first_page_idx - p.pages_amount,
           r.pages_amount = p.pages_amount
    PROVE  TotalSize(r) = TotalSize(p) /\ Addr(r) + TotalSize(r) = Addr(p)
<1>1. /\ r.first_page_idx \in Nat /\ p.pages_amount \in Nat /\ PageSize \in Nat
      /\ p.first_page_idx = r.first_page_idx + p.pages_amount
  BY LayoutAssumption DEF RomInstance
<1>2. (r.first_page_idx + p.pages_amount) * PageSize =
         r.first_page_idx * PageSize + p.pages_amount * PageSize
  BY <1>1, ProductSum
<1> QED
  BY <1>1, <1>2 DEF Addr, TotalSize

\* What a region in use looks like when there is only one.
LEMMA RomSize ==
    ASSUME LInv, OnlyRegions, LargeEnough, NEW r \in Roms, rom[r].inited
    PROVE  TotalSize(rom[r]) >= IntPoolSize + StrPoolSize
<1>1. CASE r = "primary"
  BY <1>1 DEF OnlyRegions, LargeEnough
<1>2. CASE r = "redundant"
  <2>1. PICK x \in ranges : /\ Region(x).inited
                            /\ rom[r].first_page_idx =
                                    Region(x).first_page_idx - Region(x).pages_amount
                            /\ rom[r].pages_amount = Region(x).pages_amount
    BY <1>2 DEF OnlyRegions
  <2>2. TotalSize(rom[r]) = TotalSize(Region(x))
    BY <2>1 DEF TotalSize
  <2> QED
    BY <2>1, <2>2 DEF LargeEnough
<1> QED
  BY <1>1, <1>2 DEF Roms

\* In a region that is large enough the string pool begins after the integer
\* pool, and nothing wraps.
LEMMA PoolsApart ==
    ASSUME LInv, NEW r \in Roms, rom[r].inited,
           TotalSize(rom[r]) >= IntPoolSize + StrPoolSize
    PROVE  StrOffset(rom[r]) >= IntPoolSize
<1>1. rom[r] \in RomInstance /\ OnDevice(rom[r]) /\ TypeOK
  BY DEF LInv, TypeOK
<1>2. /\ TotalSize(rom[r]) \in Nat /\ Addr(rom[r]) \in Nat
      /\ IntPoolSize \in Nat /\ StrPoolSize \in Nat
  BY <1>1, RegionType, SizesType
<1>3. Addr(rom[r]) + TotalSize(rom[r]) <= NumPages * PageSize
  BY <1>1, RegionEnd
<1>4. NumPages * PageSize \in Nat /\ NumPages * PageSize < Word /\ Word \in Nat
  BY LayoutAssumption, ProductType
<1>5. TotalSize(rom[r]) - StrPoolSize \in 0 .. Word - 1
  BY <1>2, <1>3, <1>4
<1>6. StrOffset(rom[r]) = TotalSize(rom[r]) - StrPoolSize
  BY <1>4, <1>5, SMT DEF StrOffset
<1> QED
  BY <1>2, <1>6

\* OneRegionInv holds before the first call.
LEMMA InitOneRegion == Init => OneRegionInv
<1> SUFFICES ASSUME Init PROVE OneRegionInv
  OBVIOUS
<1>0. TypeOK
  BY InitLInv DEF LInv
<1>1. IntPoolSize = 0 /\ StrPoolSize = 0
  BY LayoutAssumption DEF Init, IntPoolSize, StrPoolSize
<1>2. ASSUME NEW x \in ranges, Region(x).inited
      PROVE  TotalSize(Region(x)) \in Nat
  BY <1>0, <1>2, RegionFacts, RegionType
<1> QED
  BY <1>1, <1>2 DEF Init, OneRegionInv, OnlyRegions, LargeEnough, WritesApart, NotInited, Roms

\* paramsInit keeps OneRegionInv: a refused call replaces the region by itself.
LEMMA ParamsInitOneRegion ==
    ASSUME OneRegion, LInv, OneRegionInv,
           NEW range \in ranges, NEW amount \in Amounts, ParamsInit(range, amount),
           UNCHANGED ranges
    PROVE  OneRegionInv'
<1>1. rom' = [rom EXCEPT !["primary"] = Region(range)] /\ accesses' = {}
  BY DEF ParamsInit, Region
<1>2. rom'["primary"] = Region(range) /\ rom'["redundant"] = rom["redundant"]
  BY <1>1 DEF LInv, TypeOK, Roms
<1>3. Region(range).inited \/ Region(range) = NotInited
  BY DEF Region, RomInit
<1>4. OnlyRegions'
  BY <1>2, <1>3 DEF OneRegionInv, OnlyRegions, NotInited
<1>5. LargeEnough'
  <2>1. CASE UNCHANGED amounts
    BY <2>1 DEF OneRegionInv, LargeEnough, amounts, IntPoolSize, StrPoolSize
  <2>2. CASE /\ Region(range).inited
             /\ TotalSize(Region(range)) >= Need(amount)
             /\ integers_amount' = amount[1]
             /\ strings_amount' = amount[2]
    <3>1. \A x \in ranges : Region(x).inited => Region(x) = Region(range)
      BY <2>2 DEF OneRegion, Region
    <3>2. IntPoolSize' + StrPoolSize' = Need(amount)
      BY <2>2 DEF IntPoolSize, StrPoolSize, Need
    <3> QED
      BY <2>2, <3>1, <3>2 DEF LargeEnough
  <2> QED
    BY <2>1, <2>2 DEF ParamsInit, Region
<1>6. WritesApart'
  BY <1>1 DEF WritesApart
<1> QED
  BY <1>4, <1>5, <1>6 DEF OneRegionInv

\* Reading disturbs no pool.
LEMMA LoadWritesApart ==
    ASSUME \A a \in accesses' : a.op = "read"
    PROVE  WritesApart'
  BY DEF WritesApart

\* paramsLoad only reads.
LEMMA LoadReads == \A r : \A a \in LoadAccesses(r) : a.op = "read"
  BY DEF LoadAccesses, ReadAccess

\* paramsInitRedundantPage keeps OneRegionInv: the new region ends where the primary one begins.
LEMMA RedundantOneRegion ==
    ASSUME RoomBefore, LInv, OneRegionInv, ParamsInitRedundantPage, UNCHANGED ranges
    PROVE  OneRegionInv'
<1> DEFINE p == rom["primary"]
           r == RomInit(RedundantFirst(p), p.pages_amount)
<1>1. /\ rom' = [rom EXCEPT !["redundant"] = r]
      /\ accesses' = {} \/ accesses' = LoadAccesses(p) \cup LoadAccesses(r)
      /\ UNCHANGED amounts
  BY DEF ParamsInitRedundantPage
<1>2. WritesApart'
  BY <1>1, LoadReads, LoadWritesApart
<1>3. LargeEnough'
  BY <1>1 DEF OneRegionInv, LargeEnough, amounts, IntPoolSize, StrPoolSize
<1>4. OnlyRegions'
  <2>1. rom'["primary"] = p /\ rom'["redundant"] = r
    BY <1>1 DEF LInv, TypeOK, Roms
  <2>2. ASSUME r.inited
        PROVE  \E x \in ranges :
                  /\ Region(x).inited
                  /\ r.first_page_idx = Region(x).first_page_idx - Region(x).pages_amount
                  /\ r.pages_amount = Region(x).pages_amount
    <3>1. /\ p.pages_amount # 0
          /\ r.first_page_idx = FromStart(RedundantFirst(p))
          /\ r.pages_amount = p.pages_amount
      BY <2>2 DEF RomInit, NotInited, Fits
    <3>2. PICK x \in ranges : p = Region(x) /\ Region(x).inited
      BY <3>1 DEF OneRegionInv, OnlyRegions
    <3>3. p \in RomInstance /\ p.first_page_idx >= p.pages_amount
      BY <3>2, RegionFacts DEF LInv
    <3>4. r.first_page_idx = p.first_page_idx - p.pages_amount
      BY <3>1, <3>3 DEF RedundantFirst, FromStart, RomInstance
    <3> QED
      BY <3>1, <3>2, <3>4
  <2> QED
    BY <2>1, <2>2 DEF OneRegionInv, OnlyRegions
<1> QED
  BY <1>2, <1>3, <1>4 DEF OneRegionInv

\* paramsSave keeps OneRegionInv: both regions have the size paramsInit checked.
LEMMA ParamsSaveOneRegion ==
    ASSUME LInv, OneRegionInv, ParamsSave, UNCHANGED ranges
    PROVE  OneRegionInv'
<1>1. active_rom \in Roms /\ Target \in Roms
  BY DEF ParamsSave, LInv, TypeOK, Target
<1> DEFINE t == rom[Target]
           old == rom[active_rom]
<1>2. /\ UNCHANGED rom /\ UNCHANGED amounts
      /\ accesses' \subseteq
             EraseAccess(t) \cup IntWrites(t) \cup StrWrites(t) \cup EraseAccess(old)
  BY <1>1 DEF ParamsSave
<1>3. OnlyRegions' /\ LargeEnough'
  BY <1>2 DEF OneRegionInv, OnlyRegions, LargeEnough, amounts, IntPoolSize, StrPoolSize
<1>4. WritesApart'
  <2> SUFFICES ASSUME NEW a \in accesses', NEW b \in accesses',
                      a.op = "write", b.op = "write", a.what # b.what
               PROVE  Disjoint(a, b)
    BY DEF WritesApart
  <2>1. \A c \in accesses' : c.op = "write" => c \in IntWrites(t) \cup StrWrites(t)
    BY <1>2 DEF EraseAccess
  <2>2. \A c \in IntWrites(t) : /\ c.what = "ints" /\ t.inited
                                /\ c.hi = Addr(t) + 0 + IntPoolSize
    BY DEF IntWrites, WriteAccess, WriteAccepted
  <2>3. \A c \in StrWrites(t) : /\ c.what = "strs" /\ t.inited
                                /\ c.lo = Addr(t) + StrOffset(t)
    BY DEF StrWrites, WriteAccess, WriteAccepted
  <2>4. t.inited
    BY <2>1, <2>2, <2>3
  <2>5. StrOffset(t) >= IntPoolSize
    BY <1>1, <2>4, RomSize, PoolsApart DEF OneRegionInv
  <2>6. /\ t \in RomInstance /\ TypeOK
    BY <1>1 DEF LInv, TypeOK
  <2>7. Addr(t) \in Nat /\ IntPoolSize \in Nat /\ StrOffset(t) \in Nat
    BY <1>1, <2>6, RegionType, SizesType
  <2> HIDE DEF t
  <2>8. \A c \in IntWrites(t), d \in StrWrites(t) : c.hi <= d.lo
    BY <2>2, <2>3, <2>5, <2>7
  <2> QED
    BY <2>1, <2>2, <2>3, <2>8 DEF Disjoint
<1> QED
  BY <1>3, <1>4 DEF OneRegionInv

\* Every call keeps OneRegionInv.
LEMMA NextOneRegion ==
    ASSUME OneRegion, RoomBefore, LInv, OneRegionInv, [Next]_vars
    PROVE  OneRegionInv'
<1>1. CASE UNCHANGED vars
  BY <1>1 DEF vars, amounts, OneRegionInv, OnlyRegions, LargeEnough, WritesApart,
     IntPoolSize, StrPoolSize
<1>2. CASE ParamsLoad /\ UNCHANGED ranges
  <2>1. /\ UNCHANGED rom /\ UNCHANGED amounts
        /\ accesses' = LoadAccesses(rom[active_rom])
    BY <1>2 DEF ParamsLoad
  <2>2. WritesApart'
    BY <2>1, LoadReads, LoadWritesApart
  <2> QED
    BY <1>2, <2>1, <2>2
    DEF OneRegionInv, OnlyRegions, LargeEnough, amounts, IntPoolSize, StrPoolSize
<1> QED
  BY <1>1, <1>2, ParamsInitOneRegion, RedundantOneRegion, ParamsSaveOneRegion DEF Next

\* The pages an application names never change.
LEMMA OneRegionInvariance == Spec => [](OneRegion /\ RoomBefore => OneRegionInv)
<1>1. Init => (OneRegion /\ RoomBefore => OneRegionInv)
  BY InitOneRegion
<1>2. LInv /\ (OneRegion /\ RoomBefore => OneRegionInv) /\ [Next]_vars
         => (OneRegion /\ RoomBefore => OneRegionInv)'
  <2> SUFFICES ASSUME LInv, OneRegion /\ RoomBefore => OneRegionInv, [Next]_vars,
                      OneRegion', RoomBefore'
               PROVE  OneRegionInv'
    OBVIOUS
  <2>1. ranges' = ranges
    BY DEF Next, vars
  <2>2. OneRegion /\ RoomBefore
    BY <2>1 DEF OneRegion, RoomBefore
  <2> QED
    BY <2>2, NextOneRegion
<1> QED
  BY <1>1, <1>2, LayoutInvariance, PTL DEF Spec

\* An application that uses one region never writes one pool over the other,
\* even after calls of paramsInit that failed.
THEOREM PoolsAreDisjoint == Spec => []PoolsDisjoint
<1>1. (OneRegion /\ RoomBefore => OneRegionInv) => PoolsDisjoint
  BY DEF OneRegionInv, PoolsDisjoint
<1> QED
  BY <1>1, OneRegionInvariance, PTL

\* With room for it before the primary region, the redundant one does not
\* overlap it.
THEOREM RegionsAreDisjoint == Spec => []RegionsDisjoint
<1>1. LInv /\ (OneRegion /\ RoomBefore => OneRegionInv) => RegionsDisjoint
  <2> DEFINE p == rom["primary"]
             r == rom["redundant"]
  <2> SUFFICES ASSUME LInv, OneRegion, RoomBefore, OneRegionInv, p.inited, r.inited
               PROVE  Addr(r) + TotalSize(r) <= Addr(p)
    BY DEF RegionsDisjoint, RegionsApart
  <2>1. PICK x \in ranges : p = Region(x)
    BY DEF OneRegionInv, OnlyRegions
  <2>2. PICK y \in ranges : /\ Region(y).inited
                            /\ r.first_page_idx = Region(y).first_page_idx - Region(y).pages_amount
                            /\ r.pages_amount = Region(y).pages_amount
    BY DEF OneRegionInv, OnlyRegions
  <2>3. Region(x) = Region(y)
    BY <2>1, <2>2 DEF OneRegion, Region
  <2>4. p \in RomInstance /\ r \in RomInstance
    BY DEF LInv, TypeOK, Roms
  <2>5. Addr(r) + TotalSize(r) = Addr(p) /\ Addr(p) \in Nat
    BY <2>1, <2>2, <2>3, <2>4, BeforeRegion, RegionType
  <2> QED
    BY <2>5
<1> QED
  BY <1>1, OneRegionInvariance, LayoutInvariance, PTL
====
