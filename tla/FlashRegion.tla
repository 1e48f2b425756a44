---- MODULE FlashRegion ----
(***************************************************************************)
(* The content of one region of flash (a RomDriverInstance): the integer   *)
(* pool at its start, the string pool at its end, the gap between them.    *)
(* Also the checksum src/storage.c keeps in one of the integer cells, and  *)
(* the contents an erase or a write leaves behind when it stops half way.  *)
(*                                                                         *)
(* CRC-32 is abstracted to an operator Crc without collisions on the       *)
(* contents the model meets (CrcAssumption).  Its results are 31-bit       *)
(* non-negative integers, as the code masks them.                          *)
(***************************************************************************)
EXTENDS ParamPools

CONSTANTS
    DataVal,     \* the values an integer cell other than the CRC may hold
    CrcIdx,      \* crc_param_idx, the integer that stores the CRC
    Crc(_),      \* the checksum of a masked content
    HasGap,      \* are there bytes between the two pools?
    ErasedByte,  \* what an erase leaves: "ff" (flash, FRAM) or "zero" (SITL)
    TornUnits,   \* {2^b : a cell can be programmed or erased in its low b bits only}
    TornStr      \* a string whose first bytes only were programmed

\* The CRC cell holds any checksum, torn or not; the others hold data.
IntPool == {f \in [IntIdx -> Int] : \A i \in IntIdx \ {CrcIdx} : f[i] \in DataVal}
StrPool == [StrIdx -> StrVal]

Content == [ints : IntPool, strs : StrPool]

\* The input of the checksum: the CRC cell reads as 0.
GapVal == {"none", "ff", "zero"}
MaskedContent == [ints : [IntIdx -> DataVal], gap : GapVal, strs : StrPool]

TornInt(v, u) == (v % u) - u

ErasedInt == IF ErasedByte = "ff" THEN -1 ELSE 0

\* An integer whose low bits only were read from flash, over the value that
\* was in the pool.
MixedInt(v, old, u) == (old - (old % u)) + (v % u)

\* An integer whose low bits only were erased.
HalfErasedInt(v, u) == (v - (v % u)) + (ErasedInt % u)

ASSUME RegionAssumption ==
    /\ CrcIdx \in Nat
    /\ HasGap \in BOOLEAN
    /\ ErasedByte \in {"ff", "zero"}
    /\ TornStr \in StrVal
    /\ DataVal \subseteq Int
    /\ {-1, 0} \subseteq DataVal
    /\ \A i \in IntIdx \ {CrcIdx} : IntDesc[i].def \in DataVal
    /\ TornUnits \subseteq Nat \ {0}
    /\ \A u, w \in TornUnits : u % w = 0 \/ w % u = 0
    /\ \A v \in DataVal, u \in TornUnits : {TornInt(v, u), HalfErasedInt(v, u)} \subseteq DataVal
    /\ \A v, w \in DataVal, u \in TornUnits : MixedInt(v, w, u) \in DataVal

ASSUME CrcAssumption ==
    \A c, d \in MaskedContent : Crc(c) \in Nat /\ (Crc(c) = Crc(d) => c = d)

ErasedStr == IF ErasedByte = "ff" THEN FFStr ELSE ZeroStr

ErasedContent == [ints |-> [i \in IntIdx |-> ErasedInt],
                  strs |-> [j \in StrIdx |-> ErasedStr]]

\* The first k cells of region content c are erased, the others are not.
ErasedUpTo(c, k) ==
    [ints |-> [i \in IntIdx |-> IF i < k THEN ErasedInt ELSE c.ints[i]],
     strs |-> [j \in StrIdx |-> IF NumInts + j < k THEN ErasedStr ELSE c.strs[j]]]

\* As ErasedUpTo, with integer k erased in its low bits.  A string that is
\* half erased begins with an erased byte and reads as one that is erased.
HalfErasedAt(c, k, u) ==
    [ints |-> [ErasedUpTo(c, k).ints EXCEPT ![k] = HalfErasedInt(c.ints[k], u)],
     strs |-> ErasedUpTo(c, k).strs]

\* An erase goes from the first page of the region to the last.  A page or a
\* chunk may end anywhere, even inside a cell, so every prefix is possible.
PartialErases(c) ==
    {ErasedUpTo(c, k) : k \in 0 .. NumInts + NumStrs}
        \cup {HalfErasedAt(c, k, u) : k \in IntIdx, u \in TornUnits}

\* Programming the integer pool goes from low to high addresses: cells
\* before k are programmed, the others keep the content of c.
IntsUpTo(c, new, k) ==
    [c EXCEPT !.ints = [i \in IntIdx |-> IF i < k THEN new[i] ELSE c.ints[i]]]

\* As IntsUpTo, with cell k cut after its low bits (k < NumInts).
IntsTornAt(c, new, k, u) ==
    [c EXCEPT !.ints = [i \in IntIdx |-> IF i < k THEN new[i]
                                         ELSE IF i = k THEN TornInt(new[i], u)
                                         ELSE c.ints[i]]]

PartialIntWrites(c, new) ==
    {IntsUpTo(c, new, k) : k \in 0 .. NumInts}
        \cup {IntsTornAt(c, new, k, u) : k \in IntIdx, u \in TornUnits}

StrsUpTo(c, new, k) ==
    [c EXCEPT !.strs = [j \in StrIdx |-> IF j < k THEN new[j] ELSE c.strs[j]]]

\* A string cut after some of its bytes.  One that begins with '\0' or 255
\* still reads as blank when it is cut, as an erased cell does.
StrsTornAt(c, new, k) ==
    [c EXCEPT !.strs = [j \in StrIdx |->
                          IF j < k THEN new[j]
                          ELSE IF j = k THEN IF ReadsAsBlank(new[j]) THEN ErasedStr ELSE TornStr
                          ELSE c.strs[j]]]

PartialStrWrites(c, new) ==
    {StrsUpTo(c, new, k) : k \in 0 .. NumStrs} \cup {StrsTornAt(c, new, k) : k \in StrIdx}

----------------------------------------------------------------------------
\* A read fills a pool from low to high addresses, and one that fails may
\* stop at any byte: the cells it has not reached keep what the pool held.

IntsReadUpTo(new, old, k) == [i \in IntIdx |-> IF i < k THEN new[i] ELSE old[i]]

PartialIntReads(new, old) ==
    {IntsReadUpTo(new, old, k) : k \in 0 .. NumInts}
        \cup {[IntsReadUpTo(new, old, k) EXCEPT ![k] = MixedInt(new[k], old[k], u)] :
                 k \in IntIdx, u \in TornUnits}

StrsReadUpTo(new, old, k) == [j \in StrIdx |-> IF j < k THEN new[j] ELSE old[j]]

\* A string is blank by its first byte, whatever follows it.
PartialStrReads(new, old) ==
    {StrsReadUpTo(new, old, k) : k \in 0 .. NumStrs}
        \cup {[StrsReadUpTo(new, old, k) EXCEPT
                   ![k] = IF ReadsAsBlank(new[k]) THEN new[k] ELSE TornStr] : k \in StrIdx}

----------------------------------------------------------------------------
\* The checksum (_calculateRomCrc, _calculatePoolsCrc, _isRomCrcValid).

Masked(f) == [i \in IntIdx |-> IF i = CrcIdx THEN 0 ELSE f[i]]

Gap(byte) == IF HasGap THEN byte ELSE "none"

\* Mutant: the checksum covers the integers only.
CrcOfInts(f, byte, s) == Crc([ints |-> Masked(f), gap |-> Gap(byte), strs |-> DefaultStrs])

\* The bytes both checksums go through, the whole region.
CrcOf(f, byte, s) == Crc([ints |-> Masked(f), gap |-> Gap(byte), strs |-> s])

\* The region as it is in flash: the gap holds what an erase left.
RomCrc(c) == CrcOf(c.ints, ErasedByte, c.strs)

\* Mutant: the CRC cell is not taken as 0.
PoolsCrcUnmasked(f, s) == Crc([ints |-> f, gap |-> Gap("ff"), strs |-> s])

\* The image about to be written: the code fills the gap with 0xFF.
PoolsCrc(f, s) == CrcOf(f, "ff", s)

\* The code takes the bytes between the pools as 0xFF: right where an erase
\* leaves 0xFF, and where there are no such bytes.
GapIsErased == HasGap => ErasedByte = "ff"

CrcMatches(c) == CrcIdx \in IntIdx /\ c.ints[CrcIdx] = RomCrc(c)

\* As CrcAssumption, for a checksum whose low bits were erased: it is not the
\* checksum of another content.  Only the results about torn saves assume it.
TornChecksumsMatchNothing ==
    \A c, d \in MaskedContent, u \in TornUnits :
        HalfErasedInt(Crc(c), u) = Crc(d) => c = d
====
