---- MODULE StorageProofs ----
(***************************************************************************)
(* Theorems of Storage: for any number of parameters, any descriptors and  *)
(* any set of failing flash operations, under any order of calls.          *)
(***************************************************************************)
EXTENDS Storage, TLAPS

----------------------------------------------------------------------------
(* What the operators of ParamPools and FlashRegion return                 *)

\* An erased cell is data, so an erased region is a content.
LEMMA ErasedContentType == ErasedContent \in Content
<1>1. ErasedInt \in DataVal /\ ErasedInt \in Int
  BY RegionAssumption DEF ErasedInt
<1>2. ErasedStr \in StrVal
  BY PoolsAssumption DEF ErasedStr
<1>3. [i \in IntIdx |-> ErasedInt] \in IntPool
  BY <1>1 DEF IntPool
<1> QED
  BY <1>2, <1>3 DEF ErasedContent, Content, StrPool

\* A cell cut while it was programmed is still of its type.
LEMMA TornIntType ==
    ASSUME NEW f \in IntPool, NEW i \in IntIdx, NEW u \in TornUnits
    PROVE  /\ TornInt(f[i], u) \in Int
           /\ i # CrcIdx => TornInt(f[i], u) \in DataVal
<1>1. f[i] \in Int /\ (i # CrcIdx => f[i] \in DataVal)
  BY DEF IntPool
<1>2. u \in Nat \ {0}
  BY RegionAssumption
<1>3. TornInt(f[i], u) \in Int
  BY <1>1, <1>2, SMT DEF TornInt
<1>4. i # CrcIdx => TornInt(f[i], u) \in DataVal
  BY <1>1, RegionAssumption
<1> QED
  BY <1>3, <1>4

\* And so is a cell that was half erased.
LEMMA HalfErasedIntType ==
    ASSUME NEW f \in IntPool, NEW i \in IntIdx, NEW u \in TornUnits
    PROVE  /\ HalfErasedInt(f[i], u) \in Int
           /\ i # CrcIdx => HalfErasedInt(f[i], u) \in DataVal
<1>1. f[i] \in Int /\ (i # CrcIdx => f[i] \in DataVal)
  BY DEF IntPool
<1>2. u \in Nat \ {0}
  BY RegionAssumption
<1>3. ErasedInt \in Int
  BY DEF ErasedInt
<1>4. f[i] % u \in Int /\ ErasedInt % u \in Int
  BY <1>1, <1>2, <1>3, SMT
<1>5. HalfErasedInt(f[i], u) \in Int
  BY <1>1, <1>4 DEF HalfErasedInt
<1>6. i # CrcIdx => HalfErasedInt(f[i], u) \in DataVal
  BY <1>1, RegionAssumption
<1> QED
  BY <1>5, <1>6

\* An erase that stops half way leaves a content.
LEMMA PartialErasesType ==
    ASSUME NEW c \in Content, NEW d \in PartialErases(c)
    PROVE  d \in Content
<1>1. ErasedInt \in DataVal /\ ErasedInt \in Int /\ ErasedStr \in StrVal
  BY RegionAssumption, PoolsAssumption DEF ErasedInt, ErasedStr
<1>2. c.ints \in IntPool /\ c.strs \in StrPool
  BY DEF Content
<1>3. ASSUME NEW k \in 0 .. NumInts + NumStrs
      PROVE  /\ [i \in IntIdx |-> IF i < k THEN ErasedInt ELSE c.ints[i]] \in IntPool
             /\ [j \in StrIdx |-> IF NumInts + j < k THEN ErasedStr ELSE c.strs[j]] \in StrPool
  BY <1>1, <1>2 DEF IntPool, StrPool
<1>4. ASSUME NEW k \in 0 .. NumInts + NumStrs
      PROVE  ErasedUpTo(c, k) \in Content
  BY <1>3 DEF ErasedUpTo, Content
<1>5. ASSUME NEW k \in IntIdx, NEW u \in TornUnits
      PROVE  HalfErasedAt(c, k, u) \in Content
  <2>1. k \in 0 .. NumInts + NumStrs
    BY PoolsAssumption DEF IntIdx
  <2> DEFINE erased == [i \in IntIdx |-> IF i < k THEN ErasedInt ELSE c.ints[i]]
             blanked == [j \in StrIdx |-> IF NumInts + j < k THEN ErasedStr ELSE c.strs[j]]
  <2>2. erased \in IntPool /\ blanked \in StrPool
    BY <1>3, <2>1
  <2>3. /\ HalfErasedInt(c.ints[k], u) \in Int
        /\ k # CrcIdx => HalfErasedInt(c.ints[k], u) \in DataVal
    BY <1>2, HalfErasedIntType
  <2>4. [erased EXCEPT ![k] = HalfErasedInt(c.ints[k], u)] \in IntPool
    BY <2>2, <2>3 DEF IntPool
  <2> DEFINE half == [erased EXCEPT ![k] = HalfErasedInt(c.ints[k], u)]
  <2>5. HalfErasedAt(c, k, u) = [ints |-> half, strs |-> blanked]
    BY DEF HalfErasedAt, ErasedUpTo
  <2>6. half \in IntPool
    BY <2>4
  <2> HIDE DEF erased, half, blanked
  <2>7. [ints |-> half, strs |-> blanked] \in Content
    BY <2>2, <2>6 DEF Content
  <2> QED
    BY <2>5, <2>7
<1>6. \/ \E k \in 0 .. NumInts + NumStrs : d = ErasedUpTo(c, k)
      \/ \E k \in IntIdx, u \in TornUnits : d = HalfErasedAt(c, k, u)
  BY DEF PartialErases
<1> QED
  BY <1>4, <1>5, <1>6

\* So does a write of the integer pool that stops half way.  It leaves the
\* strings alone.
LEMMA PartialIntWritesType ==
    ASSUME NEW c \in Content, NEW new \in IntPool, NEW d \in PartialIntWrites(c, new)
    PROVE  d \in Content /\ d.strs = c.strs
<1>1. c = [ints |-> c.ints, strs |-> c.strs] /\ c.ints \in IntPool /\ c.strs \in StrPool
  BY DEF Content
<1>2. ASSUME NEW k \in 0 .. NumInts, d = IntsUpTo(c, new, k)
      PROVE  d \in Content /\ d.strs = c.strs
  <2>1. [i \in IntIdx |-> IF i < k THEN new[i] ELSE c.ints[i]] \in IntPool
    BY <1>1 DEF IntPool
  <2> QED
    BY <1>1, <1>2, <2>1 DEF IntsUpTo, Content
<1>3. ASSUME NEW k \in IntIdx, NEW u \in TornUnits, d = IntsTornAt(c, new, k, u)
      PROVE  d \in Content /\ d.strs = c.strs
  <2>1. /\ TornInt(new[k], u) \in Int
        /\ k # CrcIdx => TornInt(new[k], u) \in DataVal
    BY TornIntType
  <2>2. [i \in IntIdx |-> IF i < k THEN new[i]
                          ELSE IF i = k THEN TornInt(new[i], u)
                          ELSE c.ints[i]] \in IntPool
    BY <1>1, <2>1 DEF IntPool
  <2> QED
    BY <1>1, <1>3, <2>2 DEF IntsTornAt, Content
<1> QED
  BY <1>2, <1>3 DEF PartialIntWrites

\* And a write of the string pool.
LEMMA PartialStrWritesType ==
    ASSUME NEW c \in Content, NEW new \in StrPool, NEW d \in PartialStrWrites(c, new)
    PROVE  d \in Content
<1>1. c = [ints |-> c.ints, strs |-> c.strs] /\ c.ints \in IntPool /\ c.strs \in StrPool
  BY DEF Content
<1>2. ASSUME NEW k \in 0 .. NumStrs, d = StrsUpTo(c, new, k)
      PROVE  d \in Content
  <2>1. [j \in StrIdx |-> IF j < k THEN new[j] ELSE c.strs[j]] \in StrPool
    BY <1>1 DEF StrPool
  <2> QED
    BY <1>1, <1>2, <2>1 DEF StrsUpTo, Content
<1>3. ASSUME NEW k \in StrIdx, d = StrsTornAt(c, new, k)
      PROVE  d \in Content
  <2>1. TornStr \in StrVal /\ ErasedStr \in StrVal
    BY RegionAssumption, PoolsAssumption DEF ErasedStr
  <2>2. [j \in StrIdx |->
           IF j < k THEN new[j]
           ELSE IF j = k THEN IF ReadsAsBlank(new[j]) THEN ErasedStr ELSE TornStr
           ELSE c.strs[j]] \in StrPool
    BY <1>1, <2>1 DEF StrPool
  <2> QED
    BY <1>1, <1>3, <2>2 DEF StrsTornAt, Content
<1> QED
  BY <1>2, <1>3 DEF PartialStrWrites

\* A checksum is a natural number: the contents it is taken of are data once
\* the CRC cell is masked.
LEMMA CrcOfType ==
    ASSUME NEW f \in IntPool, NEW s \in StrPool, NEW byte \in {"ff", "zero"}
    PROVE  CrcOf(f, byte, s) \in Nat
<1>1. Masked(f) \in [IntIdx -> DataVal]
  BY RegionAssumption DEF Masked, IntPool
<1>2. Gap(byte) \in GapVal
  BY DEF Gap, GapVal
<1>3. [ints |-> Masked(f), gap |-> Gap(byte), strs |-> s] \in MaskedContent
  BY <1>1, <1>2 DEF MaskedContent
<1> QED
  BY <1>3, CrcAssumption DEF CrcOf

\* The checksum does not depend on the CRC cell, so it can be stored there.
LEMMA CrcIgnoresItsCell ==
    ASSUME NEW f \in IntPool, NEW s \in StrPool, NEW byte, NEW v \in Int
    PROVE  CrcOf([f EXCEPT ![CrcIdx] = v], byte, s) = CrcOf(f, byte, s)
<1>1. Masked([f EXCEPT ![CrcIdx] = v]) = Masked(f)
  BY DEF Masked, IntPool
<1> QED
  BY <1>1 DEF CrcOf

\* Only the CRC cell of the pool may be overwritten with any integer.
LEMMA CrcCellType ==
    ASSUME NEW f \in IntPool, NEW v \in Int
    PROVE  [f EXCEPT ![CrcIdx] = v] \in IntPool
  BY DEF IntPool

\* What paramsLoad and paramsResetToDefault leave in the pools.
LEMMA LoadedType ==
    /\ \A f \in IntPool : LoadedInts(f) \in IntPool /\ ResetInts(f) \in IntPool
    /\ \A s \in StrPool : LoadedStrs(s) \in StrPool
    /\ DefaultStrs \in StrPool
<1>1. \A i \in IntIdx : /\ IntDesc[i].def \in Int
                        /\ i # CrcIdx => IntDesc[i].def \in DataVal
  BY PoolsAssumption, RegionAssumption DEF IntegerDesc
<1>2. \A j \in StrIdx : StrDesc[j].def \in StrVal
  BY PoolsAssumption DEF StringDesc
<1>3. ASSUME NEW f \in IntPool
      PROVE  LoadedInts(f) \in IntPool /\ ResetInts(f) \in IntPool
  BY <1>1 DEF LoadedInts, ResetInts, IntPool
<1>4. ASSUME NEW s \in StrPool
      PROVE  LoadedStrs(s) \in StrPool
  BY <1>2 DEF LoadedStrs, StrPool
<1>5. DefaultStrs \in StrPool
  BY <1>2 DEF DefaultStrs, StrPool
<1> QED
  BY <1>3, <1>4, <1>5

\* Every integer paramsLoad leaves in the pool is in its range, whatever was
\* read, when the defaults are.
LEMMA LoadedInRange ==
    ASSUME DefaultsInRange, NEW f \in IntPool, NEW i \in IntIdx
    PROVE  InRange(i, LoadedInts(f)[i])
<1>1. LoadedInts(f)[i] = IF InRange(i, f[i]) THEN f[i] ELSE IntDesc[i].def
  BY DEF LoadedInts
<1>2. InRange(i, IntDesc[i].def)
  BY DEF DefaultsInRange, InRange
<1> QED
  BY <1>1, <1>2

----------------------------------------------------------------------------
(* Cells that were cut                                                     *)

LEMMA Division ==
    ASSUME NEW v \in Int, NEW u \in Nat \ {0}
    PROVE  /\ v \div u \in Int
           /\ v % u \in 0 .. u - 1
           /\ v = u * (v \div u) + (v % u)
  BY SMT

\* Quotient and remainder are unique.
LEMMA Remainder ==
    ASSUME NEW u \in Nat \ {0}, NEW q \in Int, NEW m \in 0 .. u - 1
    PROVE  (u * q + m) % u = m
<1> DEFINE v == u * q + m
           p == v \div u
           n == v % u
<1>1. p \in Int /\ n \in 0 .. u - 1 /\ v = u * p + n
  BY Division, SMT
<1>2. u * (q - p) = n - m /\ n - m < u /\ n - m > -u
  BY <1>1, SMT
<1> HIDE DEF p, n
<1>3. q - p \in Int /\ ~(q - p >= 1) /\ ~(q - p <= -1)
  BY <1>1, <1>2, SMT
<1>4. n = m
  BY <1>1, <1>2, <1>3, SMT
<1> QED
  BY <1>4 DEF n

\* A cell that was programmed in its low bits only has its high bits erased,
\* so that it is negative, and not below the value it was cut from if that
\* one is.
LEMMA TornIntIsNegative ==
    ASSUME NEW v \in Int, NEW u \in TornUnits
    PROVE  TornInt(v, u) \in Int /\ TornInt(v, u) < 0 /\ (v < 0 => v <= TornInt(v, u))
<1>1. u \in Nat \ {0}
  BY RegionAssumption
<1> DEFINE q == v \div u
           m == v % u
<1>2. q \in Int /\ m \in 0 .. u - 1 /\ v = u * q + m
  BY <1>1, Division
<1>3. TornInt(v, u) = m - u
  BY DEF TornInt
<1> HIDE DEF q, m
<1>4. (q >= 0 => u * q >= 0) /\ (q <= -1 => u * q <= -u) /\ u * q \in Int
  BY <1>1, <1>2, SMT
<1> QED
  BY <1>1, <1>2, <1>3, <1>4, SMT

\* A half-erased cell keeps its sign and does not become smaller.
LEMMA HalfErasedBounds ==
    ASSUME ErasedByte = "ff", NEW v \in Int, NEW u \in TornUnits
    PROVE  /\ HalfErasedInt(v, u) = u * (v \div u) + (u - 1)
           /\ HalfErasedInt(v, u) \in Int
           /\ v <= HalfErasedInt(v, u)
           /\ v < 0 <=> HalfErasedInt(v, u) < 0
<1>1. u \in Nat \ {0}
  BY RegionAssumption
<1> DEFINE q == v \div u
           m == v % u
<1>2. q \in Int /\ m \in 0 .. u - 1 /\ v = u * q + m
  BY <1>1, Division
<1>3. (-1) % u = u - 1
  <2>1. -1 = u * (-1) + (u - 1)
    BY <1>1, SMT
  <2> QED
    BY <1>1, <2>1, Remainder, SMT
<1>4. HalfErasedInt(v, u) = (v - m) + (u - 1)
  BY <1>3 DEF HalfErasedInt, ErasedInt
<1> HIDE DEF q, m
<1>5. HalfErasedInt(v, u) = u * q + (u - 1)
  BY <1>1, <1>2, <1>4, SMT
<1>6. (q >= 0 => u * q >= 0) /\ (q <= -1 => u * q <= -u) /\ u * q \in Int
  BY <1>1, <1>2, SMT
<1>7. v < 0 <=> q <= -1
  BY <1>1, <1>2, <1>6, SMT
<1>8. u * q + (u - 1) < 0 <=> q <= -1
  BY <1>1, <1>2, <1>6, SMT
<1> QED
  BY <1>1, <1>2, <1>5, <1>6, <1>7, <1>8 DEF q

\* Half erasing a cell twice is half erasing it once, where it was cut higher.
LEMMA HalfErasedTwice ==
    ASSUME ErasedByte = "ff",
           NEW v \in Int, NEW u \in TornUnits, NEW w \in TornUnits
    PROVE  HalfErasedInt(HalfErasedInt(v, u), w) \in {HalfErasedInt(v, u), HalfErasedInt(v, w)}
<1>1. u \in Nat \ {0} /\ w \in Nat \ {0}
  BY RegionAssumption
<1> DEFINE x == HalfErasedInt(v, u)
           q == v \div u
           Q == v \div w
<1>2. x = u * q + (u - 1) /\ x \in Int /\ q \in Int
  BY <1>1, Division, HalfErasedBounds
<1>3. HalfErasedInt(x, w) = w * (x \div w) + (w - 1)
  BY <1>2, HalfErasedBounds
<1>4. CASE u % w = 0
  <2> DEFINE k == u \div w
             p == k * (q + 1) - 1
  <2>1. k \in Int /\ u = w * k
    BY <1>1, <1>4, Division, SMT
  <2> HIDE DEF k, q
  <2>2. x = w * p + (w - 1) /\ p \in Int
    BY <1>1, <1>2, <2>1, SMT
  <2> HIDE DEF p, x
  <2>3. x % w = w - 1
    <3>1. w - 1 \in 0 .. w - 1
      BY <1>1, SMT
    <3>2. (w * p + (w - 1)) % w = w - 1
      BY <1>1, <2>2, <3>1, Remainder
    <3> QED
      BY <2>2, <3>2
  <2>4. HalfErasedInt(x, w) = x
    <3>1. x = w * (x \div w) + (x % w)
      BY <1>1, <1>2, Division
    <3> QED
      BY <1>3, <2>3, <3>1 DEF x
  <2> QED
    BY <2>4 DEF x
<1>5. CASE w % u = 0
  <2> DEFINE k == w \div u
             m == v % u
             M == v % w
             d == q - k * Q
             y == u * d + (u - 1)
  <2>1. k \in Int /\ w = u * k
    BY <1>1, <1>5, Division, SMT
  <2>2. Q \in Int /\ M \in 0 .. w - 1 /\ v = w * Q + M
    BY <1>1, Division
  <2>3. m \in 0 .. u - 1 /\ v = u * q + m
    BY <1>1, Division
  <2> HIDE DEF k, q, Q, m, M
  <2>4. w * Q = u * (k * Q) /\ k * Q \in Int /\ d \in Int
    BY <1>1, <1>2, <2>1, <2>2, SMT
  <2>5. u * d = u * q - w * Q
    BY <1>1, <1>2, <2>1, <2>2, <2>4, SMT
  <2>6. u * d + m = M /\ u * d \in Int
    BY <1>1, <1>2, <2>2, <2>3, <2>4, <2>5, SMTT(30)
  <2>7. d >= 0
    <3>1. d <= -1 => u * d <= -u
      BY <1>1, <2>4, SMT
    <3> QED
      BY <1>1, <2>2, <2>3, <2>4, <2>6, <3>1, SMT
  <2>8. d <= k - 1
    <3>1. d >= k => u * d >= u * k
      BY <1>1, <2>1, <2>4, SMT
    <3> QED
      BY <1>1, <2>1, <2>2, <2>3, <2>4, <2>6, <3>1, SMT
  <2>9. u * d <= u * (k - 1) /\ u * (k - 1) = w - u /\ u * d >= 0
    BY <1>1, <2>1, <2>4, <2>7, <2>8, SMT
  <2>10. x = w * Q + y /\ y \in 0 .. w - 1
    BY <1>1, <1>2, <2>2, <2>5, <2>6, <2>9, SMT
  <2> HIDE DEF x, y
  <2>11. x % w = y
    <3>1. (w * Q + y) % w = y
      BY <1>1, <2>2, <2>10, Remainder
    <3> QED
      BY <2>10, <3>1
  <2>12. w * (x \div w) = w * Q
    <3>1. x = w * (x \div w) + (x % w) /\ x \div w \in Int
      BY <1>1, <1>2, Division
    <3> DEFINE a == w * (x \div w)
               b == w * Q
    <3>2. a \in Int /\ b \in Int /\ x = a + y /\ x = b + y /\ y \in Int
      BY <1>1, <2>2, <2>10, <2>11, <3>1, SMT
    <3> HIDE DEF a, b
    <3>3. a = b
      BY <3>2
    <3> QED
      BY <3>3 DEF a, b
  <2>13. HalfErasedInt(v, w) = w * Q + (w - 1)
    BY HalfErasedBounds DEF Q
  <2> QED
    BY <1>3, <2>12, <2>13 DEF x
<1> QED
  BY <1>4, <1>5, RegionAssumption

----------------------------------------------------------------------------
(* What operations that were cut leave in a region                         *)

\* Every cell of a region whose erase was cut is as it was, erased, or half
\* erased.
LEMMA PartialErasesCells ==
    ASSUME NEW c \in Content, NEW d \in PartialErases(c)
    PROVE  /\ \A i \in IntIdx : \/ d.ints[i] = c.ints[i]
                                \/ d.ints[i] = ErasedInt
                                \/ \E u \in TornUnits : d.ints[i] = HalfErasedInt(c.ints[i], u)
           /\ \A j \in StrIdx : d.strs[j] = c.strs[j] \/ d.strs[j] = ErasedStr
<1>1. CASE \E k \in 0 .. NumInts + NumStrs : d = ErasedUpTo(c, k)
  BY <1>1 DEF ErasedUpTo
<1>2. CASE \E k \in IntIdx, u \in TornUnits : d = HalfErasedAt(c, k, u)
  <2>1. PICK k \in IntIdx, u \in TornUnits : d = HalfErasedAt(c, k, u)
    BY <1>2
  <2> DEFINE erased == [i \in IntIdx |-> IF i < k THEN ErasedInt ELSE c.ints[i]]
  <2>2. /\ d.ints = [erased EXCEPT ![k] = HalfErasedInt(c.ints[k], u)]
        /\ d.strs = [j \in StrIdx |-> IF NumInts + j < k THEN ErasedStr ELSE c.strs[j]]
    BY <2>1 DEF HalfErasedAt, ErasedUpTo
  <2>3. \A i \in IntIdx : d.ints[i] = IF i = k THEN HalfErasedInt(c.ints[k], u) ELSE erased[i]
    BY <2>2
  <2> QED
    BY <2>2, <2>3
<1> QED
  BY <1>1, <1>2 DEF PartialErases

\* Every cell of a pool whose write was cut is as it was, programmed, or
\* half programmed.
LEMMA PartialIntWritesCells ==
    ASSUME NEW c \in Content, NEW new \in IntPool, NEW d \in PartialIntWrites(c, new)
    PROVE  \A i \in IntIdx : \/ d.ints[i] = c.ints[i]
                             \/ d.ints[i] = new[i]
                             \/ \E u \in TornUnits : d.ints[i] = TornInt(new[i], u)
<1>1. c = [ints |-> c.ints, strs |-> c.strs]
  BY DEF Content
<1>2. CASE \E k \in 0 .. NumInts : d = IntsUpTo(c, new, k)
  BY <1>1, <1>2 DEF IntsUpTo
<1>3. CASE \E k \in IntIdx, u \in TornUnits : d = IntsTornAt(c, new, k, u)
  BY <1>1, <1>3 DEF IntsTornAt
<1> QED
  BY <1>2, <1>3 DEF PartialIntWrites

LEMMA PartialStrWritesCells ==
    ASSUME NEW c \in Content, NEW new \in StrPool, NEW d \in PartialStrWrites(c, new)
    PROVE  /\ d.ints = c.ints
           /\ \A j \in StrIdx : \/ d.strs[j] = c.strs[j]
                                \/ d.strs[j] = new[j]
                                \/ ReadsAsBlank(new[j]) /\ d.strs[j] = ErasedStr
                                \/ ~ReadsAsBlank(new[j]) /\ d.strs[j] = TornStr
<1>1. c = [ints |-> c.ints, strs |-> c.strs]
  BY DEF Content
<1>2. CASE \E k \in 0 .. NumStrs : d = StrsUpTo(c, new, k)
  BY <1>1, <1>2 DEF StrsUpTo
<1>3. CASE \E k \in StrIdx : d = StrsTornAt(c, new, k)
  BY <1>1, <1>3 DEF StrsTornAt
<1> QED
  BY <1>2, <1>3 DEF PartialStrWrites

\* An operation that was not cut is the longest of those that were.
LEMMA WholeOperations ==
    ASSUME NEW c \in Content, NEW f \in IntPool, NEW s \in StrPool
    PROVE  /\ ErasedContent \in PartialErases(c)
           /\ [c EXCEPT !.ints = f] \in PartialIntWrites(c, f)
           /\ [c EXCEPT !.strs = s] \in PartialStrWrites(c, s)
<1>1. c = [ints |-> c.ints, strs |-> c.strs] /\ NumInts \in Nat /\ NumStrs \in Nat
  BY PoolsAssumption DEF Content
<1>2. ErasedContent = ErasedUpTo(c, NumInts + NumStrs)
  <2>1. \A i \in IntIdx : i < NumInts + NumStrs
    BY <1>1 DEF IntIdx
  <2>2. \A j \in StrIdx : NumInts + j < NumInts + NumStrs
    BY <1>1 DEF StrIdx
  <2> QED
    BY <2>1, <2>2 DEF ErasedContent, ErasedUpTo
<1>3. [c EXCEPT !.ints = f] = IntsUpTo(c, f, NumInts)
  <2>1. [i \in IntIdx |-> IF i < NumInts THEN f[i] ELSE c.ints[i]] = f
    BY <1>1 DEF IntPool, IntIdx
  <2> QED
    BY <2>1 DEF IntsUpTo
<1>4. [c EXCEPT !.strs = s] = StrsUpTo(c, s, NumStrs)
  <2>1. [j \in StrIdx |-> IF j < NumStrs THEN s[j] ELSE c.strs[j]] = s
    BY <1>1 DEF StrPool, StrIdx
  <2> QED
    BY <2>1 DEF StrsUpTo
<1>5. NumInts + NumStrs \in 0 .. NumInts + NumStrs /\ NumInts \in 0 .. NumInts
      /\ NumStrs \in 0 .. NumStrs
  BY <1>1
<1> QED
  BY <1>2, <1>3, <1>4, <1>5 DEF PartialErases, PartialIntWrites, PartialStrWrites

----------------------------------------------------------------------------
(* The stored checksum, where an erase leaves 0xFF                         *)

\* What the checksum of content c is computed of.
Key(c) == [ints |-> Masked(c.ints), gap |-> Gap("ff"), strs |-> c.strs]

\* What erases that were cut may leave of a stored checksum or natural number
\* k, unless they erased its cell (or its write was cut): then it is negative.
CellLeft(v, k) == v < 0 \/ v = k \/ \E u \in TornUnits : v = HalfErasedInt(k, u)

LEMMA KeyType ==
    ASSUME NEW c \in Content
    PROVE  Key(c) \in MaskedContent /\ Crc(Key(c)) \in Nat
<1>1. Masked(c.ints) \in [IntIdx -> DataVal]
  BY RegionAssumption DEF Masked, IntPool, Content
<1>2. Key(c) \in MaskedContent
  BY <1>1 DEF Key, Gap, GapVal, MaskedContent, Content
<1> QED
  BY <1>2, CrcAssumption

\* Both checksums are the one of the key.
LEMMA ChecksumsOfKey ==
    /\ \A c : ErasedByte = "ff" => RomCrc(c) = Crc(Key(c))
    /\ \A f, s : PoolsCrc(f, s) = Crc(Key([ints |-> f, strs |-> s]))
  BY DEF RomCrc, PoolsCrc, CrcOf, Key

\* Erasing what is left of a cell leaves less of it.
LEMMA CellLeftErased ==
    ASSUME ErasedByte = "ff", NEW k \in Nat, NEW x \in Int,
           CellLeft(x, k), NEW y,
           y = x \/ y = ErasedInt \/ \E u \in TornUnits : y = HalfErasedInt(x, u)
    PROVE  CellLeft(y, k)
<1>1. CASE y = x
  BY <1>1
<1>2. CASE y = ErasedInt
  BY <1>2 DEF ErasedInt, CellLeft
<1>3. CASE \E u \in TornUnits : y = HalfErasedInt(x, u)
  <2>1. PICK u \in TornUnits : y = HalfErasedInt(x, u)
    BY <1>3
  <2>2. CASE x < 0
    BY <2>1, <2>2, HalfErasedBounds DEF CellLeft
  <2>3. CASE x = k
    BY <2>1, <2>3 DEF CellLeft
  <2>4. CASE \E w \in TornUnits : x = HalfErasedInt(k, w)
    <3>1. PICK w \in TornUnits : x = HalfErasedInt(k, w)
      BY <2>4
    <3>2. y \in {HalfErasedInt(k, w), HalfErasedInt(k, u)}
      BY <2>1, <3>1, HalfErasedTwice
    <3> QED
      BY <3>2 DEF CellLeft
  <2> QED
    BY <2>2, <2>3, <2>4 DEF CellLeft
<1> QED
  BY <1>1, <1>2, <1>3

\* Where what is left of the checksum of w matches, the content is the one of w.
LEMMA MatchIsWhole ==
    ASSUME ErasedByte = "ff", TornChecksumsMatchNothing, NEW c \in Content, NEW w \in Content,
           CellLeft(c.ints[CrcIdx], Crc(Key(w))), CrcMatches(c)
    PROVE  Key(c) = Key(w)
<1>1. c.ints[CrcIdx] = Crc(Key(c))
  BY ChecksumsOfKey DEF CrcMatches
<1>2. /\ Key(c) \in MaskedContent /\ Key(w) \in MaskedContent
      /\ Crc(Key(c)) \in Nat
  BY KeyType
<1>3. ~(Crc(Key(c)) < 0)
  BY <1>2
<1>4. CASE Crc(Key(c)) = Crc(Key(w))
  BY <1>2, <1>4, CrcAssumption
<1>5. CASE \E u \in TornUnits : Crc(Key(c)) = HalfErasedInt(Crc(Key(w)), u)
  BY <1>2, <1>5 DEF TornChecksumsMatchNothing
<1> QED
  BY <1>1, <1>3, <1>4, <1>5 DEF CellLeft

----------------------------------------------------------------------------
(* The inductive invariant                                                 *)

\* active_rom and standby_rom: a standby region is another region than the
\* active one, and paramsSave runs only when there is an active one.
Pointers ==
    /\ standby_rom # NoRom => active_rom # NoRom /\ active_rom # standby_rom
    /\ Configured => active_rom # NoRom
    /\ pc # "idle" => active_rom # NoRom
    /\ pc \in {"begin_old", "end_old"} => standby_rom # NoRom

\* How far paramsSave is: what it has written is in the region, and the pool
\* holds the checksum from the moment it was written.
IntsWritten ==
    pc = "strs" => /\ flash[Target].ints = ints
                   /\ NumInts > 0 => rom[Target].inited

AllWritten ==
    pc = "end" /\ res = "OK" => /\ flash[Target] = [ints |-> ints, strs |-> strs]
                                /\ NumInts > 0 => rom[Target].inited

Switched ==
    pc \in {"begin_old", "end_old"} =>
        /\ flash[active_rom] = [ints |-> ints, strs |-> strs]
        /\ NumInts > 0 => rom[active_rom].inited

CrcInPool ==
    /\ CrcInUse
    /\ pc = "strs" \/ (pc \in {"end", "begin_old", "end_old"} /\ res = "OK")
    => ints[CrcIdx] = PoolsCrc(ints, strs)

Progress == IntsWritten /\ AllWritten /\ Switched /\ CrcInPool

IInv ==
    /\ TypeOK
    /\ Pointers
    /\ OnlyTargetWritable
    /\ ProgramsErasedFlash
    /\ Progress

----------------------------------------------------------------------------
(* Helpers of the code                                                     *)

\* The integer pools _save writes and restores are pools, and its first error
\* path restores the pool it began with.
LEMMA PoolsOfSaveType ==
    ASSUME TypeOK
    PROVE  /\ PoolWithCrc \in IntPool
           /\ StoredCrc \in Int
           /\ CrcRestored(ints, stored_crc) \in IntPool
           /\ CrcRestored(PoolWithCrc, StoredCrc) = ints
<1>1. PoolsCrc(ints, strs) \in Int
  BY CrcOfType DEF PoolsCrc, TypeOK
<1>2. PoolWithCrc \in IntPool
  BY <1>1, CrcCellType DEF PoolWithCrc, TypeOK
<1>3. CrcRestored(ints, stored_crc) \in IntPool
  BY CrcCellType DEF CrcRestored, TypeOK
<1>4. StoredCrc \in Int
  BY DEF StoredCrc, CrcInUse, TypeOK, IntPool
<1>5. CrcRestored(PoolWithCrc, StoredCrc) = ints
  <2>1. CASE CrcInUse
    <3>1. CrcRestored(PoolWithCrc, StoredCrc)
            = [[ints EXCEPT ![CrcIdx] = PoolsCrc(ints, strs)] EXCEPT ![CrcIdx] = ints[CrcIdx]]
      BY <2>1 DEF CrcRestored, PoolWithCrc, StoredCrc
    <3> QED
      BY <2>1, <3>1 DEF CrcInUse, TypeOK, IntPool
  <2>2. CASE ~CrcInUse
    BY <2>2 DEF CrcRestored, PoolWithCrc
  <2> QED
    BY <2>1, <2>2
<1> QED
  BY <1>2, <1>3, <1>4, <1>5

\* Whatever fails in romBeginWrite(r), the other regions are left alone, and
\* r becomes writable only if it is erased.
LEMMA RomBeginWriteEffect ==
    ASSUME TypeOK, NEW r \in Roms, NEW erased \in BOOLEAN, RomBeginWrite(r, erased)
    PROVE  /\ flash' \in [Roms -> Content]
           /\ unlocked' \in BOOLEAN
           /\ rom' \in [Roms -> RomState]
           /\ \A q \in Roms \ {r} : flash'[q] = flash[q] /\ rom'[q] = rom[q]
           /\ rom'[r].inited = rom[r].inited
           /\ Writable(r)' => Writable(r) \/ flash'[r] = ErasedContent
<1> DEFINE marked == [rom EXCEPT ![r].erased = erased]
<1>0. /\ marked \in [Roms -> RomState]
      /\ \A q \in Roms \ {r} : marked[q] = rom[q]
      /\ marked[r].inited = rom[r].inited
      /\ marked[r].write_protected = rom[r].write_protected
  BY DEF TypeOK, RomState
<1> HIDE DEF marked
<1>1. CASE rom' = marked /\ UNCHANGED device
  BY <1>0, <1>1 DEF TypeOK, device, Writable
<1>2. CASE /\ unlocked' = TRUE
           /\ \E c \in PartialErases(flash[r]) : flash' = [flash EXCEPT ![r] = c]
           /\ rom' = marked
  <2>1. PICK c \in PartialErases(flash[r]) : flash' = [flash EXCEPT ![r] = c]
    BY <1>2
  <2>2. c \in Content
    BY PartialErasesType DEF TypeOK
  <2> QED
    BY <1>0, <1>2, <2>1, <2>2 DEF TypeOK, Writable
<1>3. CASE /\ unlocked' = TRUE
           /\ flash' = [flash EXCEPT ![r] = ErasedContent]
           /\ rom' = [marked EXCEPT ![r].write_protected = FALSE]
  BY <1>0, <1>3, ErasedContentType, ZenonT(60) DEF TypeOK, RomState
<1> QED
  BY <1>1, <1>2, <1>3 DEF RomBeginWrite, marked

\* romEndWrite(r) protects r and nothing else.
LEMMA RomEndWriteEffect ==
    ASSUME TypeOK, NEW r \in Roms
    PROVE  /\ RomsAfter(r) \in [Roms -> RomState]
           /\ UnlockedAfter(r) \in BOOLEAN
           /\ \A q \in Roms \ {r} : RomsAfter(r)[q] = rom[q]
           /\ RomsAfter(r)[r].inited = rom[r].inited
           /\ RomsAfter(r)[r].inited => RomsAfter(r)[r].write_protected
  BY DEF RomsAfter, UnlockedAfter, TypeOK, RomState

\* When no call runs every region is protected.
LEMMA IdleProtected ==
    ASSUME OnlyTargetWritable, pc = "idle"
    PROVE  \A r \in Roms : ~Writable(r)
  BY DEF OnlyTargetWritable

\* A state where no call runs and every region is protected needs only its
\* types and its pointers to satisfy the invariant.
LEMMA IdleInv ==
    ASSUME TypeOK', Pointers', pc' = "idle", \A r \in Roms : ~Writable(r)'
    PROVE  IInv'
  BY DEF IInv, OnlyTargetWritable, ProgramsErasedFlash, Progress, IntsWritten,
         AllWritten, Switched, CrcInPool

----------------------------------------------------------------------------
(* The calls that return at once                                           *)

\* paramsInit keeps the invariant, accepted or refused.
LEMMA ParamsInitInv ==
    ASSUME IInv, NEW args \in InitArgs, ParamsInit(args)
    PROVE  IInv'
<1>0. TypeOK /\ Pointers /\ OnlyTargetWritable
  BY DEF IInv
<1>1. /\ pc = "idle" /\ pc' = "idle" /\ res' \in Codes /\ stored_crc' = 0
      /\ UNCHANGED <<flash, unlocked, ints, strs>>
  BY DEF ParamsInit, InitArgs, Return, Codes, device, pools
<1>2. \A r \in Roms : ~Writable(r)
  BY <1>0, <1>1, IdleProtected
<1>3. ZeroRom \in RomState /\ FreshRom \in RomState
  BY DEF ZeroRom, FreshRom, RomState
<1>4. CASE args = "app"
  <2>1. /\ rom' = [rom EXCEPT !["primary"] = FreshRom]
        /\ all_params_amount' = NumInts + NumStrs
        /\ crc_enabled' = FALSE
        /\ active_rom' = "primary"
        /\ standby_rom' = NoRom
    BY <1>4 DEF ParamsInit, ParamsAmount
  <2>2. TypeOK'
    <3>1. rom' \in [Roms -> RomState]
      BY <1>0, <1>3, <2>1 DEF TypeOK
    <3>2. active_rom' \in Roms /\ pc' \in PCs
      BY <1>1, <2>1 DEF Roms, PCs
    <3>3. /\ flash' \in [Roms -> Content] /\ unlocked' \in BOOLEAN
          /\ ints' \in IntPool /\ strs' \in StrPool
      BY <1>0, <1>1 DEF TypeOK
    <3>4. stored_crc' \in Int
      BY <1>1
    <3>5. crc_enabled' \in BOOLEAN
      BY <2>1
    <3> QED
      BY <1>1, <2>1, <3>1, <3>2, <3>3, <3>4, <3>5 DEF TypeOK
  <2>3. Pointers'
    <3>1. "primary" # NoRom
      BY StorageAssumption DEF Roms
    <3> QED
      BY <1>1, <2>1, <3>1 DEF Pointers
  <2>4. \A r \in Roms : ~Writable(r)'
    BY <1>0, <1>2, <2>1 DEF Writable, FreshRom, TypeOK
  <2> QED
    BY <1>1, <2>2, <2>3, <2>4, IdleInv
<1>5. CASE args # "app"
  <2>1. /\ UNCHANGED <<all_params_amount, crc_enabled, active_rom, standby_rom>>
        /\ \/ rom' = rom
           \/ rom' = [rom EXCEPT !["primary"] = ZeroRom]
           \/ rom' = [rom EXCEPT !["primary"] = FreshRom]
    BY <1>5 DEF ParamsInit, InitArgs, config, roms
  <2>2. TypeOK'
    BY <1>0, <1>1, <1>3, <2>1 DEF TypeOK, PCs
  <2>3. Pointers'
    BY <1>0, <1>1, <2>1 DEF Pointers, Configured
  <2>4. \A r \in Roms : ~Writable(r)'
    BY <1>0, <1>2, <2>1 DEF Writable, FreshRom, ZeroRom, TypeOK
  <2> QED
    BY <1>1, <2>2, <2>3, <2>4, IdleInv
<1> QED
  BY <1>4, <1>5

\* A call that changes nothing but the pools and the CRC flag.
LEMMA PoolCallInv ==
    ASSUME IInv, pc = "idle", pc' = "idle", res' \in Codes, stored_crc' \in Int,
           ints' \in IntPool, strs' \in StrPool, crc_enabled' \in BOOLEAN,
           UNCHANGED <<flash, unlocked, all_params_amount, rom, active_rom, standby_rom>>
    PROVE  IInv'
<1> USE DEF IInv
<1>1. TypeOK'
  BY DEF TypeOK
<1>2. Pointers'
  BY DEF Pointers, Configured
<1>3. \A r \in Roms : ~Writable(r)'
  BY IdleProtected DEF Writable
<1> QED
  BY <1>1, <1>2, <1>3, IdleInv

\* paramsEnableCrc keeps the invariant.
LEMMA ParamsEnableCrcInv ==
    ASSUME IInv, ParamsEnableCrc
    PROVE  IInv'
<1>1. pc = "idle" /\ pc' = "idle" /\ res' \in Codes /\ stored_crc' = 0
  BY DEF ParamsEnableCrc, Return, Codes
<1>2. crc_enabled' \in BOOLEAN
  BY DEF ParamsEnableCrc, IInv, TypeOK
<1>3. UNCHANGED <<device, pools, all_params_amount, roms>>
  BY DEF ParamsEnableCrc
<1> QED
  BY <1>1, <1>2, <1>3, PoolCallInv DEF IInv, TypeOK, device, pools, roms

\* A cell of which half was read is of its type.
LEMMA MixedIntType ==
    ASSUME NEW f \in IntPool, NEW g \in IntPool, NEW i \in IntIdx, NEW u \in TornUnits
    PROVE  /\ MixedInt(f[i], g[i], u) \in Int
           /\ i # CrcIdx => MixedInt(f[i], g[i], u) \in DataVal
<1>1. /\ f[i] \in Int /\ g[i] \in Int
      /\ i # CrcIdx => f[i] \in DataVal /\ g[i] \in DataVal
  BY DEF IntPool
<1>2. u \in Nat \ {0}
  BY RegionAssumption
<1>3. f[i] % u \in Int /\ g[i] % u \in Int
  BY <1>1, <1>2, SMT
<1>4. MixedInt(f[i], g[i], u) \in Int
  BY <1>1, <1>3 DEF MixedInt
<1>5. i # CrcIdx => MixedInt(f[i], g[i], u) \in DataVal
  BY <1>1, RegionAssumption
<1> QED
  BY <1>4, <1>5

\* A read that stops half way leaves pools of their types.
LEMMA PartialReadsType ==
    ASSUME NEW f \in IntPool, NEW g \in IntPool, NEW s \in StrPool, NEW t \in StrPool
    PROVE  PartialIntReads(f, g) \subseteq IntPool /\ PartialStrReads(s, t) \subseteq StrPool
<1>1. \A i \in IntIdx : /\ f[i] \in Int /\ g[i] \in Int
                         /\ i # CrcIdx => f[i] \in DataVal /\ g[i] \in DataVal
  BY DEF IntPool
<1>2. \A k \in 0 .. NumInts : IntsReadUpTo(f, g, k) \in IntPool
  BY <1>1 DEF IntsReadUpTo, IntPool
<1>3. ASSUME NEW k \in IntIdx, NEW u \in TornUnits
      PROVE  [IntsReadUpTo(f, g, k) EXCEPT ![k] = MixedInt(f[k], g[k], u)] \in IntPool
  <2>1. k \in 0 .. NumInts
    BY PoolsAssumption DEF IntIdx
  <2>2. IntsReadUpTo(f, g, k) \in IntPool
    BY <1>2, <2>1
  <2> QED
    BY <2>2, MixedIntType DEF IntPool
<1>4. PartialIntReads(f, g) \subseteq IntPool
  BY <1>2, <1>3 DEF PartialIntReads
<1>5. \A k \in 0 .. NumStrs : StrsReadUpTo(s, t, k) \in StrPool
  BY DEF StrsReadUpTo, StrPool
<1>6. ASSUME NEW k \in StrIdx
      PROVE  [StrsReadUpTo(s, t, k) EXCEPT
                 ![k] = IF ReadsAsBlank(s[k]) THEN s[k] ELSE TornStr] \in StrPool
  <2>1. k \in 0 .. NumStrs
    BY PoolsAssumption DEF StrIdx
  <2>2. s[k] \in StrVal /\ TornStr \in StrVal
    BY RegionAssumption DEF StrPool
  <2> QED
    BY <1>5, <2>1, <2>2 DEF StrPool
<1>7. PartialStrReads(s, t) \subseteq StrPool
  BY <1>5, <1>6 DEF PartialStrReads
<1> QED
  BY <1>4, <1>7

\* What a read may leave in the pools is well typed.
LEMMA ReadType ==
    ASSUME TypeOK, NEW r \in Roms, NEW inited
    PROVE  /\ \A old \in IntPool : ReadInts(r, inited, old) \subseteq IntPool
           /\ \A old \in StrPool : ReadStrs(r, inited, old) \subseteq StrPool
<1>1. flash[r].ints \in IntPool /\ flash[r].strs \in StrPool
  BY DEF TypeOK, Content
<1> QED
  BY <1>1, PartialReadsType DEF ReadInts, ReadStrs

\* paramsLoad keeps the invariant, whether its reads succeed or not.
LEMMA ParamsLoadInv ==
    ASSUME IInv, ParamsLoad
    PROVE  IInv'
<1>1. /\ pc = "idle" /\ pc' = "idle" /\ res' \in Codes /\ stored_crc' = 0
      /\ UNCHANGED <<device, config, roms>>
  BY DEF ParamsLoad, Return, Codes
<1>2. ints' \in IntPool /\ strs' \in StrPool
  <2>1. CASE active_rom = NoRom
    BY <2>1 DEF ParamsLoad, pools, IInv, TypeOK
  <2>2. CASE active_rom # NoRom
    <3>1. PICK i \in ReadInts(active_rom, rom[active_rom].inited, ints),
              s \in ReadStrs(active_rom, rom[active_rom].inited, strs) :
            /\ ints' = IF Configured THEN LoadedInts(i) ELSE ints
            /\ strs' = IF Configured THEN LoadedStrs(s) ELSE strs
      BY <2>2 DEF ParamsLoad
    <3>2. active_rom \in Roms /\ ints \in IntPool /\ strs \in StrPool
      BY <2>2 DEF IInv, TypeOK
    <3>3. i \in IntPool /\ s \in StrPool
      BY <3>1, <3>2, ReadType DEF IInv
    <3> QED
      BY <3>1, <3>2, <3>3, LoadedType
  <2> QED
    BY <2>1, <2>2
<1> QED
  BY <1>1, <1>2, PoolCallInv DEF IInv, TypeOK, device, config, roms

\* The setters and paramsResetToDefault keep the invariant.
LEMMA SetInv ==
    ASSUME IInv,
           \/ \E i \in IntIdx, v \in SetInts : ParamsSetIntegerValue(i, v)
           \/ \E j \in StrIdx, v \in SetStrs : ParamsSetStringValue(j, v)
           \/ ParamsResetToDefault
    PROVE  IInv'
<1>1. ASSUME NEW i \in IntIdx, NEW v \in SetInts, ParamsSetIntegerValue(i, v)
      PROVE  IInv'
  <2>1. v \in DataVal /\ v \in Int
    BY StorageAssumption, RegionAssumption
  <2>2. [ints EXCEPT ![i] = v] \in IntPool
    BY <2>1 DEF IInv, TypeOK, IntPool
  <2>3. ints' \in IntPool
    BY <1>1, <2>2 DEF ParamsSetIntegerValue, IInv, TypeOK
  <2> QED
    BY <1>1, <2>3, PoolCallInv
       DEF ParamsSetIntegerValue, IInv, TypeOK, device, config, roms, call
<1>2. ASSUME NEW j \in StrIdx, NEW v \in SetStrs, ParamsSetStringValue(j, v)
      PROVE  IInv'
  <2>1. v \in StrVal
    BY StorageAssumption
  <2>2. [strs EXCEPT ![j] = v] \in StrPool
    BY <2>1 DEF IInv, TypeOK, StrPool
  <2>3. strs' \in StrPool
    BY <1>2, <2>2 DEF ParamsSetStringValue, IInv, TypeOK
  <2> QED
    BY <1>2, <2>3, PoolCallInv
       DEF ParamsSetStringValue, IInv, TypeOK, device, config, roms, call
<1>3. ASSUME ParamsResetToDefault
      PROVE  IInv'
  <2>1. /\ pc = "idle" /\ pc' = "idle" /\ res' \in Codes /\ stored_crc' = 0
        /\ UNCHANGED <<device, config, roms>>
    BY <1>3 DEF ParamsResetToDefault, Return, Codes
  <2>2. ints' \in IntPool /\ strs' \in StrPool
    BY <1>3, LoadedType DEF ParamsResetToDefault, pools, IInv, TypeOK
  <2> QED
    BY <2>1, <2>2, PoolCallInv DEF IInv, TypeOK, device, config, roms
<1> QED
  BY <1>1, <1>2, <1>3

\* paramsInitRedundantPage keeps the invariant, whichever region it chooses.
LEMMA ParamsInitRedundantPageInv ==
    ASSUME IInv, ParamsInitRedundantPage
    PROVE  IInv'
<1>0. TypeOK /\ Pointers /\ OnlyTargetWritable
  BY DEF IInv
<1>1. /\ pc = "idle" /\ pc' = "idle" /\ res' \in Codes /\ stored_crc' = 0
      /\ UNCHANGED <<flash, unlocked, all_params_amount, crc_enabled>>
  BY DEF ParamsInitRedundantPage, Return, Codes, device, config
<1>2. \A r \in Roms : ~Writable(r)
  BY <1>0, <1>1, IdleProtected
<1>3. "primary" \in Roms /\ "redundant" \in Roms /\ NoRom \notin Roms
  BY StorageAssumption DEF Roms
<1>4. CASE ~rom["primary"].inited
  <2>1. /\ rom' = [rom EXCEPT !["redundant"] = ZeroRom]
        /\ UNCHANGED <<ints, strs, active_rom, standby_rom>>
    BY <1>4 DEF ParamsInitRedundantPage, pools
  <2>2. TypeOK'
    <3>1. ZeroRom \in RomState
      BY DEF ZeroRom, RomState
    <3>2. stored_crc' \in Int
      BY <1>1
    <3> QED
      BY <1>0, <1>1, <2>1, <3>1, <3>2 DEF TypeOK, PCs
  <2>3. Pointers'
    BY <1>0, <1>1, <2>1 DEF Pointers, Configured
  <2>4. \A r \in Roms : ~Writable(r)'
    BY <1>0, <1>2, <2>1 DEF Writable, ZeroRom, TypeOK
  <2> QED
    BY <1>1, <2>2, <2>3, <2>4, IdleInv
<1>5. CASE rom["primary"].inited
  <2>0a. PICK pInts \in ReadInts("primary", TRUE, ints), pStrs \in ReadStrs("primary", TRUE, strs) :
          \E rInts \in ReadInts("redundant", TRUE, pInts),
             rStrs \in ReadStrs("redundant", TRUE, pStrs),
             pValid \in RomCrcValid("primary"), rValid \in RomCrcValid("redundant") :
                ChooseRom(pInts, rInts, rStrs, pValid, rValid)
    BY <1>5 DEF ParamsInitRedundantPage
  <2>0b. PICK rInts \in ReadInts("redundant", TRUE, pInts),
              rStrs \in ReadStrs("redundant", TRUE, pStrs),
              pValid \in RomCrcValid("primary"), rValid \in RomCrcValid("redundant") :
                ChooseRom(pInts, rInts, rStrs, pValid, rValid)
    BY <2>0a
  <2> DEFINE pErased == rom["primary"].erased \/ LooksErased(pInts)
             rErased == LooksErased(rInts)
             useRedundant == UseRedundantRom(pErased, rErased, pValid, rValid)
  <2>1. /\ rom' = [rom EXCEPT !["primary"].erased = pErased,
                              !["redundant"] = [FreshRom EXCEPT !.erased = rErased]]
        /\ ints' = rInts
        /\ strs' = rStrs
        /\ active_rom' = IF useRedundant THEN "redundant" ELSE "primary"
        /\ standby_rom' = IF useRedundant THEN "primary" ELSE "redundant"
    BY <2>0b DEF ChooseRom
  <2>2. ints' \in IntPool /\ strs' \in StrPool
    <3>1. pInts \in IntPool /\ pStrs \in StrPool
      BY <1>0, <1>3, <2>0a, ReadType DEF TypeOK
    <3> QED
      BY <1>0, <1>3, <2>0b, <2>1, <3>1, ReadType
  <2>3. pErased \in BOOLEAN /\ rErased \in BOOLEAN
    BY <1>0, <1>3 DEF LooksErased, AnyOutOfRange, TypeOK, RomState
  <2> HIDE DEF pErased, rErased, useRedundant
  <2>4. /\ rom' \in [Roms -> RomState]
        /\ \A r \in Roms : ~Writable(r)'
    <3> DEFINE fresh == [FreshRom EXCEPT !.erased = rErased]
               used == [rom["primary"] EXCEPT !.erased = pErased]
    <3>1. fresh \in RomState /\ fresh.write_protected
      BY <2>3 DEF FreshRom, RomState
    <3>2. /\ used \in RomState
          /\ used.inited = rom["primary"].inited
          /\ used.write_protected = rom["primary"].write_protected
      BY <1>0, <1>3, <2>3 DEF TypeOK, RomState
    <3>3. rom' = [rom EXCEPT !["primary"] = used, !["redundant"] = fresh]
      BY <1>0, <2>1 DEF TypeOK
    <3> HIDE DEF fresh, used
    <3>4. rom' \in [Roms -> RomState] /\ rom'["primary"] = used /\ rom'["redundant"] = fresh
      BY <1>0, <1>3, <3>1, <3>2, <3>3 DEF TypeOK
    <3> QED
      BY <1>2, <1>3, <3>1, <3>2, <3>4 DEF Writable, Roms
  <2>5. active_rom' \in Roms /\ standby_rom' \in Roms /\ active_rom' # standby_rom'
    BY <2>1 DEF Roms
  <2>6. stored_crc' \in Int
    BY <1>1
  <2>7. TypeOK'
    BY <1>0, <1>1, <2>2, <2>4, <2>5, <2>6 DEF TypeOK
  <2>8. Pointers'
    BY <1>1, <1>3, <2>5 DEF Pointers
  <2> QED
    BY <1>1, <2>4, <2>7, <2>8, IdleInv
<1> QED
  BY <1>4, <1>5

----------------------------------------------------------------------------
(* The steps of paramsSave                                                 *)

\* While paramsSave runs it works on a region, and a standby one is not the
\* active one.
LEMMA TargetIsRom ==
    ASSUME TypeOK, Pointers, pc # "idle"
    PROVE  /\ Target \in Roms
           /\ active_rom \in Roms
           /\ standby_rom # NoRom => standby_rom \in Roms /\ standby_rom = Target
                                     /\ active_rom # Target
           /\ standby_rom = NoRom => active_rom = Target
  BY DEF TypeOK, Pointers, Target

\* The start of paramsSave keeps the invariant.
LEMMA ParamsSaveInv ==
    ASSUME IInv, ParamsSave
    PROVE  IInv'
<1>0. TypeOK /\ Pointers /\ OnlyTargetWritable
  BY DEF IInv
<1>1. /\ pc = "idle" /\ pc' \in {"idle", "begin"} /\ res' \in Codes /\ stored_crc' = 0
      /\ UNCHANGED <<flash, unlocked, ints, strs, all_params_amount, crc_enabled,
                      rom, active_rom, standby_rom>>
      /\ pc' = "begin" => Configured
  BY DEF ParamsSave, Return, Codes, device, pools, config, roms
<1>2. TypeOK'
  <2>1. stored_crc' \in Int /\ pc' \in PCs
    BY <1>1 DEF PCs
  <2> QED
    BY <1>0, <1>1, <2>1 DEF TypeOK
<1>3. Pointers'
  BY <1>0, <1>1 DEF Pointers, Configured
<1>4. \A r \in Roms : ~Writable(r)'
  BY <1>0, <1>1, IdleProtected DEF Writable
<1> QED
  BY <1>1, <1>2, <1>3, <1>4 DEF IInv, OnlyTargetWritable, ProgramsErasedFlash, Progress,
     IntsWritten, AllWritten, Switched, CrcInPool

\* romBeginWrite of the target keeps it, also when unlock or erase fails.
LEMMA BeginWriteInv ==
    ASSUME IInv, BeginWrite
    PROVE  IInv'
<1>0. TypeOK /\ Pointers /\ OnlyTargetWritable
  BY DEF IInv
<1>1. /\ pc = "begin" /\ pc' = "ints"
      /\ UNCHANGED <<ints, strs, all_params_amount, crc_enabled, active_rom, standby_rom,
                      res, stored_crc>>
  BY DEF BeginWrite, Goto, pools, config
<1>2. Target \in Roms /\ Target' = Target
  BY <1>0, <1>1, TargetIsRom DEF Target
<1>3. \A r \in Roms : ~Writable(r)
  BY <1>0, <1>1 DEF OnlyTargetWritable
<1>4. PICK erased \in BOOLEAN : RomBeginWrite(Target, erased)
  <2>1. (standby_rom = NoRom \/ rom[Target].erased) \in BOOLEAN
    BY <1>0, <1>2 DEF TypeOK, RomState
  <2> QED
    BY <2>1 DEF BeginWrite
<1>5. /\ flash' \in [Roms -> Content]
      /\ unlocked' \in BOOLEAN
      /\ rom' \in [Roms -> RomState]
      /\ \A q \in Roms \ {Target} : flash'[q] = flash[q] /\ rom'[q] = rom[q]
      /\ Writable(Target)' => flash'[Target] = ErasedContent
  BY <1>0, <1>2, <1>3, <1>4, RomBeginWriteEffect
<1>6. TypeOK'
  BY <1>0, <1>1, <1>5 DEF TypeOK, PCs
<1>7. Pointers'
  BY <1>0, <1>1 DEF Pointers, Configured
<1>8. OnlyTargetWritable'
  BY <1>1, <1>2, <1>3, <1>5 DEF OnlyTargetWritable, Writable
<1>9. ProgramsErasedFlash'
  BY <1>1, <1>2, <1>5 DEF ProgramsErasedFlash
<1>10. Progress'
  BY <1>1 DEF Progress, IntsWritten, AllWritten, Switched, CrcInPool
<1> QED
  BY <1>6, <1>7, <1>8, <1>9, <1>10 DEF IInv

\* The write of the integer pool keeps it, also when it stops half way.
LEMMA WriteIntsInv ==
    ASSUME IInv, WriteInts
    PROVE  IInv'
<1>0. TypeOK /\ Pointers /\ OnlyTargetWritable /\ ProgramsErasedFlash
  BY DEF IInv
<1>1. /\ pc = "ints"
      /\ UNCHANGED <<unlocked, strs, all_params_amount, crc_enabled, rom, active_rom, standby_rom>>
  BY DEF WriteInts, config, roms
<1>2. Target \in Roms /\ Target' = Target
  BY <1>0, <1>1, TargetIsRom DEF Target
<1>3. /\ PoolWithCrc \in IntPool /\ StoredCrc \in Int
      /\ CrcRestored(PoolWithCrc, StoredCrc) = ints
  BY <1>0, PoolsOfSaveType
<1>4. \A r \in Roms : Writable(r)' <=> Writable(r)
  BY <1>1 DEF Writable
<1>5. CASE /\ NumInts = 0 \/ Writable(Target)
           /\ flash' = [flash EXCEPT ![Target].ints = PoolWithCrc]
           /\ ints' = PoolWithCrc
           /\ stored_crc' = StoredCrc
           /\ pc' = "strs"
           /\ UNCHANGED res
  <2>1. /\ flash' \in [Roms -> Content]
        /\ flash'[Target].ints = ints'
        /\ flash'[Target].strs = flash[Target].strs
    BY <1>0, <1>2, <1>3, <1>5 DEF TypeOK, Content
  <2>2. stored_crc' \in Int
    BY <1>3, <1>5
  <2>3. TypeOK'
    <3>1. ints' \in IntPool /\ pc' \in PCs
      BY <1>3, <1>5 DEF PCs
    <3> QED
      BY <1>0, <1>1, <1>5, <2>1, <2>2, <3>1 DEF TypeOK
  <2>4. Pointers'
    BY <1>0, <1>1, <1>5 DEF Pointers, Configured
  <2>5. OnlyTargetWritable'
    BY <1>0, <1>2, <1>4, <1>5 DEF OnlyTargetWritable
  <2>6. ProgramsErasedFlash'
    BY <1>0, <1>1, <1>2, <1>4, <1>5, <2>1 DEF ProgramsErasedFlash
  <2>7. CrcInPool'
    <3>1. SUFFICES ASSUME CrcInUse PROVE ints'[CrcIdx] = PoolsCrc(ints', strs')
      BY <1>1 DEF CrcInPool, CrcInUse
    <3>2. PoolsCrc(ints, strs) \in Int
      BY <1>0, CrcOfType DEF PoolsCrc, TypeOK
    <3>3. ints' = [ints EXCEPT ![CrcIdx] = PoolsCrc(ints, strs)]
      BY <1>5, <3>1 DEF PoolWithCrc
    <3>4. ints'[CrcIdx] = PoolsCrc(ints, strs)
      BY <1>0, <3>1, <3>3 DEF TypeOK, IntPool, CrcInUse
    <3>5. PoolsCrc(ints', strs') = PoolsCrc(ints, strs)
      BY <1>0, <1>1, <3>2, <3>3, CrcIgnoresItsCell DEF PoolsCrc, TypeOK
    <3> QED
      BY <3>4, <3>5
  <2>8. Progress'
    BY <1>0, <1>1, <1>2, <1>5, <2>1, <2>7
       DEF Progress, IntsWritten, AllWritten, Switched, Writable, TypeOK
  <2> QED
    BY <2>3, <2>4, <2>5, <2>6, <2>8 DEF IInv
<1>6. CASE /\ \/ UNCHANGED flash
              \/ \E c \in PartialIntWrites(flash[Target], PoolWithCrc) :
                     flash' = [flash EXCEPT ![Target] = c]
           /\ pc' = "end"
           /\ res' = "UNKNOWN_ERROR"
           /\ UNCHANGED <<ints, stored_crc>>
  <2>1. flash' \in [Roms -> Content]
    BY <1>0, <1>2, <1>3, <1>6, PartialIntWritesType DEF TypeOK
  <2>2. TypeOK'
    BY <1>0, <1>1, <1>6, <2>1 DEF TypeOK, PCs, Codes
  <2>3. Pointers'
    BY <1>0, <1>1, <1>6 DEF Pointers, Configured
  <2>4. OnlyTargetWritable'
    BY <1>0, <1>2, <1>4, <1>6 DEF OnlyTargetWritable
  <2>5. ProgramsErasedFlash' /\ Progress'
    BY <1>6 DEF ProgramsErasedFlash, Progress, IntsWritten, AllWritten, Switched, CrcInPool
  <2> QED
    BY <2>2, <2>3, <2>4, <2>5 DEF IInv
<1> QED
  BY <1>3, <1>5, <1>6 DEF WriteInts, AfterWriteError, WriteError

\* The write of the string pool keeps it, also when it stops half way.
LEMMA WriteStrsInv ==
    ASSUME IInv, WriteStrs
    PROVE  IInv'
<1>0. TypeOK /\ Pointers /\ OnlyTargetWritable /\ Progress
  BY DEF IInv
<1>1. /\ pc = "strs"
      /\ UNCHANGED <<unlocked, strs, all_params_amount, crc_enabled, active_rom, standby_rom,
                      stored_crc>>
  BY DEF WriteStrs, config
<1>2. Target \in Roms /\ Target' = Target
  BY <1>0, <1>1, TargetIsRom DEF Target
<1>3. CrcRestored(ints, stored_crc) \in IntPool
  BY <1>0, PoolsOfSaveType
<1>5. CASE /\ flash' = [flash EXCEPT ![Target].strs = strs]
           /\ rom' = MarkedWritten(Target)
           /\ pc' = "end"
           /\ UNCHANGED <<ints, res>>
  <2>1. /\ flash' \in [Roms -> Content]
        /\ flash'[Target] = [ints |-> ints, strs |-> strs]
    BY <1>0, <1>1, <1>2, <1>5 DEF TypeOK, Content, Progress, IntsWritten
  <2>2. /\ rom' \in [Roms -> RomState]
        /\ \A r \in Roms : /\ rom'[r].inited = rom[r].inited
                             /\ rom'[r].write_protected = rom[r].write_protected
    BY <1>0, <1>2, <1>5 DEF TypeOK, RomState, MarkedWritten
  <2>3. TypeOK'
    BY <1>0, <1>1, <1>5, <2>1, <2>2 DEF TypeOK, PCs
  <2>4. Pointers'
    BY <1>0, <1>1, <1>5 DEF Pointers, Configured
  <2>5. OnlyTargetWritable'
    BY <1>0, <1>2, <1>5, <2>2 DEF OnlyTargetWritable, Writable
  <2>6. CrcInPool'
    BY <1>0, <1>1, <1>5 DEF Progress, CrcInPool, CrcInUse
  <2>7. Progress'
    BY <1>0, <1>1, <1>2, <1>5, <2>1, <2>2, <2>6
       DEF Progress, IntsWritten, AllWritten, Switched
  <2> QED
    BY <1>5, <2>3, <2>4, <2>5, <2>7 DEF IInv, ProgramsErasedFlash
<1>6. CASE /\ \/ UNCHANGED flash
              \/ \E c \in PartialStrWrites(flash[Target], strs) :
                     flash' = [flash EXCEPT ![Target] = c]
           /\ ints' = CrcRestored(ints, stored_crc)
           /\ pc' = "end"
           /\ res' = "UNKNOWN_ERROR"
           /\ UNCHANGED rom
  <2>1. flash' \in [Roms -> Content]
    BY <1>0, <1>2, <1>6, PartialStrWritesType DEF TypeOK
  <2>2. TypeOK'
    BY <1>0, <1>1, <1>3, <1>6, <2>1 DEF TypeOK, PCs, Codes
  <2>3. Pointers'
    BY <1>0, <1>1, <1>6 DEF Pointers, Configured
  <2>4. OnlyTargetWritable'
    BY <1>0, <1>2, <1>6 DEF OnlyTargetWritable, Writable
  <2>5. ProgramsErasedFlash' /\ Progress'
    BY <1>6 DEF ProgramsErasedFlash, Progress, IntsWritten, AllWritten, Switched, CrcInPool
  <2> QED
    BY <2>2, <2>3, <2>4, <2>5 DEF IInv
<1> QED
  BY <1>5, <1>6 DEF WriteStrs, AfterWriteError, WriteError

\* romEndWrite and the switch of the regions keep it.
LEMMA EndWriteInv ==
    ASSUME IInv, EndWrite
    PROVE  IInv'
<1>0. TypeOK /\ Pointers /\ OnlyTargetWritable /\ Progress
  BY DEF IInv
<1>1. /\ pc = "end"
      /\ unlocked' = UnlockedAfter(Target)
      /\ UNCHANGED <<flash, ints, strs, all_params_amount, crc_enabled>>
  BY DEF EndWrite, pools, config
<1>2. /\ Target \in Roms
      /\ active_rom \in Roms
      /\ standby_rom # NoRom => standby_rom \in Roms /\ standby_rom = Target
                                /\ active_rom # Target
      /\ standby_rom = NoRom => active_rom = Target
  BY <1>0, <1>1, TargetIsRom
<1>3. /\ RomsAfter(Target) \in [Roms -> RomState]
      /\ unlocked' \in BOOLEAN
      /\ \A q \in Roms \ {Target} : RomsAfter(Target)[q] = rom[q]
      /\ RomsAfter(Target)[Target].inited = rom[Target].inited
      /\ RomsAfter(Target)[Target].inited => RomsAfter(Target)[Target].write_protected
  BY <1>0, <1>1, <1>2, RomEndWriteEffect
<1>4. \A r \in Roms : RomsAfter(Target)[r].inited => RomsAfter(Target)[r].write_protected
  BY <1>0, <1>3 DEF OnlyTargetWritable, Writable
<1>5. CASE /\ SwitchesRoms
           /\ rom' = [RomsAfter(standby_rom) EXCEPT ![active_rom].erased = TRUE]
           /\ active_rom' = standby_rom
           /\ standby_rom' = active_rom
           /\ Goto("begin_old")
  <2>1. standby_rom = Target /\ active_rom # Target /\ res = "OK"
    BY <1>2, <1>5 DEF SwitchesRoms
  <2>2. /\ rom' \in [Roms -> RomState]
        /\ \A r \in Roms : /\ rom'[r].inited = RomsAfter(Target)[r].inited
                             /\ rom'[r].write_protected = RomsAfter(Target)[r].write_protected
    BY <1>2, <1>3, <1>5, <2>1, ZenonT(60) DEF RomState
  <2>3. TypeOK'
    BY <1>0, <1>1, <1>2, <1>3, <1>5, <2>2 DEF TypeOK, PCs, Goto, SwitchesRoms
  <2>4. Pointers'
    BY <1>0, <1>1, <1>2, <1>5, <2>1, StorageAssumption DEF Pointers, Configured
  <2>5. \A r \in Roms : ~Writable(r)'
    BY <1>4, <2>2 DEF Writable
  <2>6. Switched' /\ CrcInPool'
    BY <1>0, <1>1, <1>2, <1>3, <1>5, <2>1, <2>2
       DEF Progress, AllWritten, Switched, CrcInPool, CrcInUse, Goto
  <2>7. Progress' /\ ProgramsErasedFlash'
    BY <1>5, <2>6 DEF Goto, Progress, IntsWritten, AllWritten, ProgramsErasedFlash
  <2> QED
    BY <2>3, <2>4, <2>5, <2>7 DEF IInv, OnlyTargetWritable
<1>6. CASE /\ rom' = RomsAfter(Target)
           /\ Return(res)
           /\ UNCHANGED <<active_rom, standby_rom>>
  <2>1. stored_crc' \in Int /\ pc' = "idle" /\ res' \in Codes
    BY <1>0, <1>6 DEF Return, TypeOK
  <2>2. TypeOK'
    BY <1>0, <1>1, <1>3, <1>6, <2>1 DEF TypeOK, PCs
  <2>3. Pointers'
    BY <1>0, <1>1, <1>6, <2>1 DEF Pointers, Configured
  <2>4. \A r \in Roms : ~Writable(r)'
    BY <1>4, <1>6 DEF Writable
  <2> QED
    BY <2>1, <2>2, <2>3, <2>4, IdleInv
<1> QED
  BY <1>5, <1>6 DEF EndWrite

\* The erase of the old copy keeps it, also when it fails.
LEMMA EraseOldInv ==
    ASSUME IInv, EraseOld
    PROVE  IInv'
<1>0. TypeOK /\ Pointers /\ OnlyTargetWritable /\ Progress
  BY DEF IInv
<1>1. /\ pc = "begin_old" /\ pc' = "end_old"
      /\ RomBeginWrite(standby_rom, TRUE)
      /\ UNCHANGED <<ints, strs, all_params_amount, crc_enabled, active_rom, standby_rom,
                      res, stored_crc>>
  BY DEF EraseOld, Goto, pools, config
<1>2. /\ standby_rom \in Roms /\ active_rom \in Roms /\ active_rom # standby_rom
      /\ Target = standby_rom /\ Target' = Target
  BY <1>0, <1>1, TargetIsRom DEF Pointers, Target
<1>3. \A r \in Roms : ~Writable(r)
  BY <1>0, <1>1 DEF OnlyTargetWritable
<1>4. /\ flash' \in [Roms -> Content]
      /\ unlocked' \in BOOLEAN
      /\ rom' \in [Roms -> RomState]
      /\ \A q \in Roms \ {standby_rom} : flash'[q] = flash[q] /\ rom'[q] = rom[q]
  BY <1>0, <1>1, <1>2, RomBeginWriteEffect
<1>5. TypeOK'
  BY <1>0, <1>1, <1>4 DEF TypeOK, PCs
<1>6. Pointers'
  BY <1>0, <1>1 DEF Pointers, Configured
<1>7. OnlyTargetWritable'
  BY <1>1, <1>2, <1>3, <1>4 DEF OnlyTargetWritable, Writable
<1>8. Switched' /\ CrcInPool'
  BY <1>0, <1>1, <1>2, <1>4 DEF Progress, Switched, CrcInPool, CrcInUse
<1>9. Progress' /\ ProgramsErasedFlash'
  BY <1>1, <1>8 DEF Progress, IntsWritten, AllWritten, ProgramsErasedFlash
<1> QED
  BY <1>5, <1>6, <1>7, <1>9 DEF IInv

\* The end of paramsSave keeps it.
LEMMA EndOldInv ==
    ASSUME IInv, EndOld
    PROVE  IInv'
<1>0. TypeOK /\ Pointers /\ OnlyTargetWritable
  BY DEF IInv
<1>1. /\ pc = "end_old" /\ pc' = "idle" /\ res' = res /\ stored_crc' = 0
      /\ unlocked' = UnlockedAfter(standby_rom)
      /\ rom' = RomsAfter(standby_rom)
      /\ UNCHANGED <<flash, ints, strs, all_params_amount, crc_enabled, active_rom, standby_rom>>
  BY DEF EndOld, Return, pools, config
<1>2. standby_rom \in Roms /\ standby_rom = Target
  BY <1>0, <1>1, TargetIsRom DEF Pointers
<1>3. /\ rom' \in [Roms -> RomState]
      /\ unlocked' \in BOOLEAN
      /\ \A q \in Roms \ {Target} : rom'[q] = rom[q]
      /\ rom'[Target].inited => rom'[Target].write_protected
  BY <1>0, <1>1, <1>2, RomEndWriteEffect
<1>4. \A r \in Roms : ~Writable(r)'
  BY <1>0, <1>3 DEF OnlyTargetWritable, Writable
<1>5. TypeOK'
  <2>1. stored_crc' \in Int /\ pc' \in PCs
    BY <1>1 DEF PCs
  <2> QED
    BY <1>0, <1>1, <1>3, <2>1 DEF TypeOK
<1>6. Pointers'
  BY <1>0, <1>1 DEF Pointers, Configured
<1> QED
  BY <1>1, <1>4, <1>5, <1>6, IdleInv

----------------------------------------------------------------------------
(* Power loss                                                              *)

\* Whatever a power loss cuts short, what is left is a content.
LEMMA CutShortType ==
    ASSUME TypeOK, NEW r \in Roms, NEW c \in CutShort(r)
    PROVE  c \in Content
<1>1. flash[r] \in Content /\ strs \in StrPool /\ PoolWithCrc \in IntPool
  BY PoolsOfSaveType DEF TypeOK
<1> QED
  BY <1>1, PartialErasesType, PartialIntWritesType, PartialStrWritesType DEF CutShort

\* A reset leaves a state that satisfies it, whatever flash holds.
LEMMA ResetInv ==
    ASSUME Reset, flash' \in [Roms -> Content]
    PROVE  IInv'
<1>1. [i \in IntIdx |-> 0] \in IntPool
  BY RegionAssumption DEF IntPool
<1>2. [j \in StrIdx |-> ZeroStr] \in StrPool
  BY PoolsAssumption DEF StrPool
<1>3. [r \in Roms |-> ZeroRom] \in [Roms -> RomState]
  BY DEF ZeroRom, RomState
<1>4. stored_crc' \in Int /\ pc' \in PCs /\ res' \in Codes /\ pc' = "idle"
  BY DEF Reset, PCs, Codes
<1>5. TypeOK'
  BY <1>1, <1>2, <1>3, <1>4 DEF Reset, TypeOK
<1>6. Pointers'
  BY DEF Reset, Pointers, Configured
<1>7. \A r \in Roms : ~Writable(r)'
  BY DEF Reset, ZeroRom, Writable
<1> QED
  BY <1>4, <1>5, <1>6, <1>7, IdleInv

\* A power loss inside any operation keeps it.
LEMMA PowerLossInv ==
    ASSUME IInv, PowerLoss
    PROVE  IInv'
<1>1. flash \in [Roms -> Content] /\ Target \in Roms \cup {NoRom}
  BY DEF IInv, TypeOK, Target
<1>2. flash' \in [Roms -> Content]
  <2>1. CASE Target = NoRom
    BY <1>1, <2>1 DEF PowerLoss
  <2>2. CASE Target # NoRom
    <3>1. PICK c \in CutShort(Target) : flash' = [flash EXCEPT ![Target] = c]
      BY <2>2 DEF PowerLoss
    <3>2. c \in Content
      BY <1>1, <2>2, CutShortType DEF IInv
    <3> QED
      BY <1>1, <3>1, <3>2
  <2> QED
    BY <2>1, <2>2
<1> QED
  BY <1>2, ResetInv DEF PowerLoss

----------------------------------------------------------------------------
(* The invariant holds                                                     *)

\* A device that never stored parameters satisfies the invariant.
LEMMA InitInv == Init => IInv
<1> SUFFICES ASSUME Init PROVE IInv
  OBVIOUS
<1>1. /\ [i \in IntIdx |-> 0] \in IntPool
      /\ [j \in StrIdx |-> ZeroStr] \in StrPool
      /\ [r \in Roms |-> ZeroRom] \in [Roms -> RomState]
  BY RegionAssumption, PoolsAssumption DEF IntPool, StrPool, ZeroRom, RomState
<1>2. stored_crc \in Int /\ pc \in PCs /\ res \in Codes /\ pc = "idle"
  BY DEF Init, VolatileInit, PCs, Codes
<1>3. flash \in [Roms -> Content]
  BY ErasedContentType DEF Init
<1>4. TypeOK
  BY <1>1, <1>2, <1>3 DEF Init, VolatileInit, TypeOK
<1>5. Pointers
  BY DEF Init, VolatileInit, Pointers, Configured
<1>6. OnlyTargetWritable
  BY DEF Init, VolatileInit, OnlyTargetWritable, Writable, ZeroRom
<1>7. ProgramsErasedFlash /\ Progress
  BY <1>2 DEF ProgramsErasedFlash, Progress, IntsWritten, AllWritten, Switched, CrcInPool
<1> QED
  BY <1>4, <1>5, <1>6, <1>7 DEF IInv

\* A step that changes nothing keeps it.
LEMMA StutterInv == IInv /\ UNCHANGED vars => IInv'
<1> SUFFICES ASSUME IInv, UNCHANGED vars PROVE IInv'
  OBVIOUS
<1>1. UNCHANGED <<flash, unlocked, ints, strs, all_params_amount, crc_enabled, rom,
                  active_rom, standby_rom, pc, res, stored_crc>>
  BY DEF vars, device, pools, config, roms, call
<1>2. TypeOK' /\ Pointers'
  BY <1>1 DEF IInv, TypeOK, Pointers, Configured
<1>3. OnlyTargetWritable' /\ ProgramsErasedFlash'
  BY <1>1 DEF IInv, OnlyTargetWritable, ProgramsErasedFlash, Writable, Target
<1>4. IntsWritten' /\ AllWritten' /\ Switched' /\ CrcInPool'
  BY <1>1 DEF IInv, Progress, IntsWritten, AllWritten, Switched, CrcInPool, CrcInUse, Target
<1> QED
  BY <1>2, <1>3, <1>4 DEF IInv, Progress

\* Every step keeps the invariant.
LEMMA NextInv == IInv /\ [Next]_vars => IInv'
<1> SUFFICES ASSUME IInv, [Next]_vars PROVE IInv'
  OBVIOUS
<1>1. CASE ApplicationCall
  BY <1>1, ParamsInitInv, ParamsEnableCrcInv, ParamsInitRedundantPageInv, ParamsLoadInv,
     SetInv, ParamsSaveInv DEF ApplicationCall
<1>2. CASE SaveStep
  BY <1>2, BeginWriteInv, WriteIntsInv, WriteStrsInv, EndWriteInv, EraseOldInv, EndOldInv
     DEF SaveStep
<1>3. CASE PowerLoss
  BY <1>3, PowerLossInv
<1>4. CASE UNCHANGED vars
  BY <1>4, StutterInv
<1> QED
  BY <1>1, <1>2, <1>3, <1>4 DEF Next

\* The inductive invariant of Storage.
THEOREM Invariance == Spec => []IInv
<1>1. Init => IInv
  BY InitInv
<1>2. IInv /\ [Next]_vars => IInv'
  BY NextInv
<1> QED
  BY <1>1, <1>2, PTL DEF Spec

\* Every variable keeps its type: in particular only the CRC cell ever holds
\* something that is not data, in the pool and in flash.
THEOREM TypeCorrect == Spec => []TypeOK
<1>1. IInv => TypeOK
  BY DEF IInv
<1> QED
  BY <1>1, Invariance, PTL

\* A region is writable only inside the write session of paramsSave on it.
THEOREM OnlyTargetIsWritable == Spec => []OnlyTargetWritable
<1>1. IInv => OnlyTargetWritable
  BY DEF IInv
<1> QED
  BY <1>1, Invariance, PTL

\* Flash is programmed only where it is erased, whatever failed before.
THEOREM FlashIsErasedBeforeProgrammed == Spec => []ProgramsErasedFlash
<1>1. IInv => ProgramsErasedFlash
  BY DEF IInv
<1> QED
  BY <1>1, Invariance, PTL

\* The old copy is erased only when the new one is complete.
THEOREM OldCopyOutlivesSave == Spec => []NewCopyCompleteBeforeOldErased
<1>1. IInv => NewCopyCompleteBeforeOldErased
  BY DEF IInv, Progress, Switched, NewCopyCompleteBeforeOldErased
<1> QED
  BY <1>1, Invariance, PTL

----------------------------------------------------------------------------
(* What a step may never do                                                *)

\* Every step leaves the flash alone outside the region a save works on.
LEMMA OnlyTargetChanges ==
    ASSUME IInv, Next, NEW q \in Roms, q # Target
    PROVE  flash'[q] = flash[q]
<1>0. TypeOK /\ Pointers
  BY DEF IInv
<1>1. CASE ApplicationCall
  <2>1. UNCHANGED device
    BY <1>1 DEF ApplicationCall, ParamsInit, ParamsEnableCrc, ParamsInitRedundantPage,
       ParamsLoad, ParamsSetIntegerValue, ParamsSetStringValue, ParamsResetToDefault, ParamsSave
  <2> QED
    BY <2>1 DEF device
<1>2. CASE BeginWrite
  <2>1. pc = "begin" /\ Target \in Roms
    BY <1>0, <1>2, TargetIsRom DEF BeginWrite
  <2>2. (standby_rom = NoRom \/ rom[Target].erased) \in BOOLEAN
    BY <1>0, <2>1 DEF TypeOK, RomState
  <2> QED
    BY <1>0, <1>2, <2>1, <2>2, RomBeginWriteEffect DEF BeginWrite
<1>3. CASE WriteInts
  BY <1>0, <1>3 DEF WriteInts, TypeOK
<1>4. CASE WriteStrs
  BY <1>0, <1>4 DEF WriteStrs, TypeOK
<1>5. CASE EndWrite \/ EndOld
  BY <1>5 DEF EndWrite, EndOld
<1>6. CASE EraseOld
  <2>1. pc = "begin_old" /\ standby_rom \in Roms /\ Target = standby_rom
    BY <1>0, <1>6, TargetIsRom DEF EraseOld, Pointers
  <2> QED
    BY <1>0, <1>6, <2>1, RomBeginWriteEffect DEF EraseOld
<1>7. CASE PowerLoss
  BY <1>0, <1>7 DEF PowerLoss, TypeOK
<1> QED
  BY <1>1, <1>2, <1>3, <1>4, <1>5, <1>6, <1>7 DEF Next, SaveStep

\* What romBeginWrite leaves in r is an erase that was cut, or was not.
LEMMA RomBeginWriteFlash ==
    ASSUME TypeOK, NEW r \in Roms, NEW erased, RomBeginWrite(r, erased)
    PROVE  flash'[r] = flash[r] \/ (rom[r].inited /\ flash'[r] \in PartialErases(flash[r]))
<1>1. flash[r] \in Content /\ ErasedContent \in PartialErases(flash[r])
  BY WholeOperations, LoadedType, ErasedContentType DEF TypeOK, Content
<1> QED
  BY <1>1 DEF RomBeginWrite, TypeOK, device

\* A step does to the region it works on what a power loss in the middle of
\* it may leave: operations end as the longest of those that were cut.
LEMMA FlashStep ==
    ASSUME IInv, Next, NEW r \in Roms
    PROVE  flash'[r] = flash[r] \/ (r = Target /\ flash'[r] \in CutShort(r))
<1>0. TypeOK /\ Pointers /\ flash[r] \in Content /\ strs \in StrPool /\ PoolWithCrc \in IntPool
  BY PoolsOfSaveType DEF IInv, TypeOK
<1> SUFFICES ASSUME r = Target PROVE flash'[r] = flash[r] \/ flash'[r] \in CutShort(r)
  BY OnlyTargetChanges
<1>1. CASE ApplicationCall
  <2>1. UNCHANGED device
    BY <1>1 DEF ApplicationCall, ParamsInit, ParamsEnableCrc, ParamsInitRedundantPage,
       ParamsLoad, ParamsSetIntegerValue, ParamsSetStringValue, ParamsResetToDefault, ParamsSave
  <2> QED
    BY <2>1 DEF device
<1>2. CASE BeginWrite
  BY <1>0, <1>2, RomBeginWriteFlash DEF BeginWrite, CutShort
<1>3. CASE WriteInts
  <2>1. CASE Writable(r)
    <3>1. [flash[r] EXCEPT !.ints = PoolWithCrc] \in PartialIntWrites(flash[r], PoolWithCrc)
      BY <1>0, WholeOperations
    <3> QED
      BY <1>0, <1>3, <2>1, <3>1 DEF WriteInts, CutShort, TypeOK
  <2>2. CASE ~Writable(r)
    <3>1. CASE flash' = [flash EXCEPT ![r].ints = PoolWithCrc] /\ NumInts = 0
      <4>1. IntIdx = {}
        BY <3>1 DEF IntIdx
      <4>2. flash[r].ints = PoolWithCrc
        BY <1>0, <4>1 DEF Content, IntPool
      <4>3. flash'[r] = [flash[r] EXCEPT !.ints = PoolWithCrc]
        BY <1>0, <3>1 DEF TypeOK
      <4> QED
        BY <1>0, <4>2, <4>3 DEF Content
    <3> QED
      BY <1>3, <2>2, <3>1 DEF WriteInts
  <2> QED
    BY <2>1, <2>2
<1>4. CASE WriteStrs
  <2>1. CASE Writable(r)
    <3>1. [flash[r] EXCEPT !.strs = strs] \in PartialStrWrites(flash[r], strs)
      BY <1>0, WholeOperations
    <3> QED
      BY <1>0, <1>4, <2>1, <3>1 DEF WriteStrs, CutShort, TypeOK
  <2>2. CASE ~Writable(r)
    <3>1. CASE flash' = [flash EXCEPT ![r].strs = strs] /\ NumStrs = 0
      <4>1. StrIdx = {}
        BY <3>1 DEF StrIdx
      <4>2. flash[r].strs = strs
        BY <1>0, <4>1 DEF Content, StrPool
      <4>3. flash'[r] = [flash[r] EXCEPT !.strs = strs]
        BY <1>0, <3>1 DEF TypeOK
      <4> QED
        BY <1>0, <4>2, <4>3 DEF Content
    <3> QED
      BY <1>4, <2>2, <3>1 DEF WriteStrs
  <2> QED
    BY <2>1, <2>2
<1>5. CASE EndWrite \/ EndOld
  BY <1>5 DEF EndWrite, EndOld
<1>6. CASE EraseOld
  <2>1. r = standby_rom
    BY <1>0, <1>6, TargetIsRom DEF EraseOld, Pointers
  <2> QED
    BY <1>0, <1>6, <2>1, RomBeginWriteFlash DEF EraseOld, CutShort
<1>7. CASE PowerLoss
  BY <1>0, <1>7, StorageAssumption DEF PowerLoss, TypeOK
<1> QED
  BY <1>1, <1>2, <1>3, <1>4, <1>5, <1>6, <1>7 DEF Next, SaveStep

\* With a redundant region no step changes the active one.
THEOREM ActiveCopyIsNeverTouched == Spec => ActiveCopyNeverTouched
<1>1. ASSUME IInv, [Next]_vars
      PROVE  [standby_rom # NoRom => flash'[active_rom] = flash[active_rom]]_vars
  <2> SUFFICES ASSUME Next, standby_rom # NoRom
               PROVE  flash'[active_rom] = flash[active_rom]
    BY <1>1
  <2>1. active_rom \in Roms /\ active_rom # Target
    BY <1>1 DEF IInv, TypeOK, Pointers, Target
  <2> QED
    BY <1>1, <2>1, OnlyTargetChanges
<1> QED
  BY <1>1, Invariance, PTL DEF Spec, ActiveCopyNeverTouched

\* The step in which a successful paramsSave returns.
LEMMA SuccessfulStep ==
    ASSUME IInv, Next, SaveReturns, res' = "OK"
    PROVE  /\ UNCHANGED <<flash, ints, strs, all_params_amount, crc_enabled,
                          active_rom, standby_rom>>
           /\ \/ /\ pc = "end" /\ res = "OK" /\ standby_rom = NoRom
                 /\ unlocked' = UnlockedAfter(Target) /\ rom' = RomsAfter(Target)
              \/ /\ pc = "end_old" /\ res = "OK" /\ standby_rom # NoRom
                 /\ rom' = RomsAfter(standby_rom)
<1>1. pc # "idle" /\ pc' = "idle" /\ active_rom' # NoRom
  BY DEF SaveReturns
<1>2. ~ApplicationCall
  BY <1>1 DEF ApplicationCall, ParamsInit, ParamsEnableCrc, ParamsInitRedundantPage,
     ParamsLoad, ParamsSetIntegerValue, ParamsSetStringValue, ParamsResetToDefault, ParamsSave
<1>3. ~PowerLoss
  BY <1>1 DEF PowerLoss, Reset
<1>4. ~(BeginWrite \/ WriteInts \/ WriteStrs \/ EraseOld)
  BY <1>1 DEF BeginWrite, WriteInts, WriteStrs, EraseOld, Goto, AfterWriteError
<1>5. CASE EndWrite
  BY <1>1, <1>5 DEF EndWrite, Goto, Return, SwitchesRoms, pools, config
<1>6. CASE EndOld
  BY <1>6 DEF EndOld, Return, IInv, Pointers, pools, config
<1> QED
  BY <1>2, <1>3, <1>4, <1>5, <1>6 DEF Next, SaveStep

\* When paramsSave returns LIBPARAMS_OK both pools are in the active region,
\* which is not touched any more, and the checksum is in the pool.
LEMMA SuccessfulReturn ==
    ASSUME IInv, Next, SaveReturns, res' = "OK"
    PROVE  /\ flash'[active_rom'] = [ints |-> ints', strs |-> strs']
           /\ NumInts > 0 => rom'[active_rom'].inited
           /\ UNCHANGED <<ints, strs, crc_enabled>>
           /\ CrcInUse => ints[CrcIdx] = PoolsCrc(ints, strs)
           /\ active_rom' \in Roms
<1>0. TypeOK /\ Pointers /\ Progress
  BY DEF IInv
<1>1. /\ UNCHANGED <<flash, ints, strs, crc_enabled, active_rom, standby_rom>>
      /\ Target \in Roms /\ active_rom \in Roms
  BY <1>0, SuccessfulStep, TargetIsRom
<1>2. CASE pc = "end" /\ res = "OK" /\ standby_rom = NoRom /\ rom' = RomsAfter(Target)
  <2>1. active_rom = Target /\ rom'[Target].inited = rom[Target].inited
    BY <1>0, <1>1, <1>2, TargetIsRom, RomEndWriteEffect
  <2> QED
    BY <1>0, <1>1, <1>2, <2>1 DEF Progress, AllWritten, CrcInPool
<1>3. CASE /\ pc = "end_old" /\ res = "OK" /\ standby_rom # NoRom
           /\ rom' = RomsAfter(standby_rom)
  <2>1. standby_rom \in Roms /\ active_rom # standby_rom
    BY <1>0, <1>3, TargetIsRom
  <2>2. rom'[active_rom].inited = rom[active_rom].inited
    BY <1>0, <1>1, <1>3, <2>1, RomEndWriteEffect
  <2> QED
    BY <1>0, <1>1, <1>3, <2>2 DEF Progress, Switched, CrcInPool
<1> QED
  BY <1>2, <1>3, SuccessfulStep

\* LIBPARAMS_OK of paramsSave means stored, whatever fails on the way.
THEOREM AcknowledgedIsStored == Spec => AcknowledgedMeansStored
<1>1. ASSUME IInv, [Next]_vars
      PROVE  [SaveReturns /\ res' = "OK" =>
                 flash'[active_rom'] = [ints |-> ints', strs |-> strs']]_vars
  BY <1>1, SuccessfulReturn
<1> QED
  BY <1>1, Invariance, PTL DEF Spec, AcknowledgedMeansStored

\* The checksum a successful save left in the active region matches.
LEMMA SavedMatches ==
    ASSUME GapIsErased, IInv, Next, SaveReturns, res' = "OK", CrcInUse
    PROVE  CrcMatches(flash'[active_rom'])
<1>1. /\ flash'[active_rom'] = [ints |-> ints', strs |-> strs']
      /\ UNCHANGED <<ints, strs>>
      /\ ints[CrcIdx] = PoolsCrc(ints, strs)
  BY SuccessfulReturn
<1>2. Gap("ff") = Gap(ErasedByte)
  BY DEF GapIsErased, Gap
<1>3. RomCrc([ints |-> ints', strs |-> strs']) = PoolsCrc(ints, strs)
  BY <1>1, <1>2 DEF RomCrc, PoolsCrc, CrcOf
<1> QED
  BY <1>1, <1>3 DEF CrcMatches, CrcInUse

\* After a successful save the checksum matches, on a device whose erased
\* bytes are 0xFF or whose region the two pools fill.
THEOREM CrcIsValidAfterSave == GapIsErased => (Spec => CrcValidAfterSave)
<1> SUFFICES ASSUME GapIsErased PROVE Spec => CrcValidAfterSave
  OBVIOUS
<1>1. ASSUME IInv, [Next]_vars
      PROVE  [SaveReturns /\ res' = "OK" /\ CrcInUse => ParamsIsCrcValid']_vars
  <2> SUFFICES ASSUME Next, SaveReturns, res' = "OK", CrcInUse
               PROVE  ParamsIsCrcValid'
    BY <1>1
  <2>1. /\ NumInts > 0 => rom'[active_rom'].inited
        /\ UNCHANGED crc_enabled
        /\ active_rom' # NoRom
    BY <1>1, SuccessfulReturn DEF SaveReturns
  <2>2. NumInts > 0 /\ crc_enabled
    BY PoolsAssumption DEF CrcInUse, IntIdx
  <2> QED
    BY <1>1, <2>1, <2>2, SavedMatches DEF ParamsIsCrcValid
<1> QED
  BY <1>1, Invariance, PTL DEF Spec, CrcValidAfterSave

----------------------------------------------------------------------------
(* What a successful save leaves in the RomDriverInstances                 *)

\* How far a save is, as the flags tell: it has come as far as the strings
\* only in a writable region, and the erased flags of the two regions tell
\* the new copy from the old one from the moment the new one is complete.
SaveMarks ==
    /\ pc # "idle" => Configured
    /\ pc = "strs" => NumInts = 0 \/ Writable(Target)
    /\ pc = "end" /\ res = "OK" => Writable(Target) /\ ~rom[Target].erased
    /\ pc \in {"begin_old", "end_old"} => ~rom[active_rom].erased /\ rom[standby_rom].erased

LEMMA SaveMarksStep ==
    ASSUME IInv, SaveMarks, [Next]_vars
    PROVE  SaveMarks'
<1>0. TypeOK /\ Pointers
  BY DEF IInv
<1>1. CASE ApplicationCall
  <2>1. pc' = "idle" \/ (pc' = "begin" /\ Configured /\ UNCHANGED all_params_amount)
    BY <1>1 DEF ApplicationCall, ParamsInit, ParamsEnableCrc, ParamsInitRedundantPage, Return,
       ParamsLoad, ParamsSetIntegerValue, ParamsSetStringValue, ParamsResetToDefault,
       ParamsSave, config, call
  <2> QED
    BY <2>1 DEF SaveMarks, Configured
<1>2. CASE BeginWrite
  BY <1>2 DEF BeginWrite, Goto, SaveMarks, Configured, config
<1>3. CASE WriteInts
  <2>1. /\ pc = "ints"
        /\ UNCHANGED <<all_params_amount, rom, active_rom, standby_rom>>
        /\ \/ pc' = "strs" /\ (NumInts = 0 \/ Writable(Target))
           \/ pc' = "end" /\ res' = "UNKNOWN_ERROR"
    BY <1>3 DEF WriteInts, AfterWriteError, WriteError, config, roms
  <2> QED
    BY <2>1 DEF SaveMarks, Configured, Writable, Target
<1>4. CASE WriteStrs
  <2>1. /\ pc = "strs" /\ pc' = "end"
        /\ UNCHANGED <<all_params_amount, active_rom, standby_rom>>
        /\ \/ (NumStrs = 0 \/ Writable(Target)) /\ rom' = MarkedWritten(Target)
           \/ res' = "UNKNOWN_ERROR"
    BY <1>4 DEF WriteStrs, AfterWriteError, WriteError, config
  <2>2. Target \in Roms /\ Target' = Target
    BY <1>0, <2>1, TargetIsRom DEF Target
  <2>3. Configured /\ ~(NumInts = 0 /\ NumStrs = 0)
    BY <1>0, <2>1 DEF SaveMarks, Configured, TypeOK
  <2>4. CASE rom' = MarkedWritten(Target) /\ (NumStrs = 0 \/ Writable(Target))
    <3>1. Writable(Target)
      BY <2>1, <2>3, <2>4 DEF SaveMarks
    <3>2. ~rom'[Target].erased /\ Writable(Target)'
      BY <1>0, <2>2, <2>4, <3>1 DEF MarkedWritten, Writable, TypeOK, RomState
    <3> QED
      BY <2>1, <2>2, <2>3, <3>2 DEF SaveMarks, Configured
  <2>5. CASE res' = "UNKNOWN_ERROR"
    BY <2>1, <2>3, <2>5 DEF SaveMarks, Configured
  <2> QED
    BY <2>1, <2>4, <2>5
<1>5. CASE EndWrite
  <2>1. CASE pc' = "idle"
    BY <2>1 DEF SaveMarks
  <2>2. CASE pc' # "idle"
    <3>1. /\ pc = "end" /\ pc' = "begin_old"
          /\ standby_rom # NoRom /\ res = "OK"
          /\ rom' = [RomsAfter(standby_rom) EXCEPT ![active_rom].erased = TRUE]
          /\ active_rom' = standby_rom
          /\ standby_rom' = active_rom
          /\ UNCHANGED all_params_amount
      BY <1>5, <2>2 DEF EndWrite, Return, Goto, SwitchesRoms, config
    <3>2. /\ active_rom \in Roms /\ standby_rom \in Roms /\ active_rom # standby_rom
          /\ Target = standby_rom
      BY <1>0, <3>1, TargetIsRom
    <3>3. RomsAfter(standby_rom)[standby_rom].erased = rom[standby_rom].erased
      BY <1>0, <3>2 DEF RomsAfter, TypeOK, RomState
    <3>4. RomsAfter(standby_rom) \in [Roms -> RomState]
      BY <1>0, <3>2, RomEndWriteEffect
    <3>5. rom'[standby_rom].erased = rom[standby_rom].erased /\ rom'[active_rom].erased
      BY <3>1, <3>2, <3>3, <3>4 DEF RomState
    <3> QED
      BY <3>1, <3>2, <3>5 DEF SaveMarks, Configured
  <2> QED
    BY <2>1, <2>2
<1>6. CASE EraseOld
  <2>1. /\ pc = "begin_old" /\ pc' = "end_old"
        /\ RomBeginWrite(standby_rom, TRUE)
        /\ UNCHANGED <<all_params_amount, active_rom, standby_rom>>
    BY <1>6 DEF EraseOld, Goto, config
  <2>2. standby_rom \in Roms /\ active_rom \in Roms /\ active_rom # standby_rom
    BY <1>0, <2>1, TargetIsRom DEF Pointers
  <2>3. rom'[active_rom].erased = rom[active_rom].erased
    BY <1>0, <2>1, <2>2, RomBeginWriteEffect
  <2>4. rom'[standby_rom].erased
    BY <1>0, <2>1, <2>2 DEF RomBeginWrite, TypeOK, RomState
  <2> QED
    BY <2>1, <2>3, <2>4 DEF SaveMarks, Configured
<1>7. CASE EndOld \/ PowerLoss
  BY <1>7 DEF EndOld, Return, PowerLoss, Reset, SaveMarks
<1>8. CASE UNCHANGED vars
  BY <1>8 DEF vars, config, roms, call, SaveMarks, Configured, Writable, Target
<1> QED
  BY <1>1, <1>2, <1>3, <1>4, <1>5, <1>6, <1>7, <1>8 DEF Next, SaveStep

LEMMA SaveMarksInvariance == Spec => []SaveMarks
<1>1. Init => SaveMarks
  BY DEF Init, VolatileInit, SaveMarks
<1> QED
  BY <1>1, Invariance, SaveMarksStep, PTL DEF Spec

\* With one region a successful paramsSave leaves the flash controller
\* locked, whatever failed in the saves before it.
THEOREM LockedAfterAcknowledgedSave == Spec => AcknowledgedMeansLocked
<1>1. ASSUME IInv, SaveMarks, [Next]_vars
      PROVE  [SaveReturns /\ res' = "OK" /\ standby_rom' = NoRom => ~unlocked']_vars
  <2> SUFFICES ASSUME Next, SaveReturns, res' = "OK", standby_rom' = NoRom
               PROVE  ~unlocked'
    BY <1>1
  <2> QED
    BY <1>1, SuccessfulStep DEF SaveMarks, UnlockedAfter
<1> QED
  BY <1>1, Invariance, SaveMarksInvariance, PTL DEF Spec, AcknowledgedMeansLocked

\* A second paramsInitRedundantPage after a successful paramsSave chooses the
\* region that was written, whether the erase of the old one failed or not.
THEOREM RechoiceIsActive == GapIsErased => (Spec => RechoiceKeepsActive)
<1> DEFINE Rechosen == UseRedundantRom(
                         (rom["primary"].erased \/ LooksErased(flash["primary"].ints))',
                         LooksErased(flash["redundant"].ints)',
                         (crc_enabled /\ CrcMatches(flash["primary"]))',
                         (crc_enabled /\ CrcMatches(flash["redundant"]))')
<1> SUFFICES ASSUME GapIsErased PROVE Spec => RechoiceKeepsActive
  OBVIOUS
<1>1. ASSUME IInv, SaveMarks, Next, SaveReturns, res' = "OK", standby_rom' # NoRom,
             ~AnyOutOfRange(ints')
      PROVE  active_rom' = "redundant" <=> Rechosen
  <2>1. /\ UNCHANGED <<crc_enabled, active_rom, standby_rom>>
        /\ pc = "end_old" /\ standby_rom # NoRom
        /\ rom' = RomsAfter(standby_rom)
    BY <1>1, SuccessfulStep
  <2>2. /\ active_rom \in Roms /\ standby_rom \in Roms /\ active_rom # standby_rom
    BY <1>1, <2>1, TargetIsRom DEF IInv
  <2>3. \A r \in Roms : rom'[r].erased = rom[r].erased
    BY <1>1, <2>1, <2>2 DEF RomsAfter, IInv, TypeOK, RomState
  <2>4. ~rom'[active_rom].erased /\ rom'[standby_rom].erased
    BY <1>1, <2>1, <2>2, <2>3 DEF SaveMarks
  <2>5. ~AnyOutOfRange(flash'[active_rom].ints)
    BY <1>1, <2>1, SuccessfulReturn
  <2>6. crc_enabled /\ CrcMatches(flash'[standby_rom]) => CrcMatches(flash'[active_rom])
    <3>1. CrcMatches(flash'[standby_rom]) => CrcIdx \in IntIdx
      BY DEF CrcMatches
    <3> QED
      BY <1>1, <2>1, <3>1, SavedMatches DEF CrcInUse
  <2>7. CASE active_rom = "redundant"
    <3>1. standby_rom = "primary"
      BY <2>2, <2>7 DEF Roms
    <3> QED
      BY <2>1, <2>4, <2>5, <2>7, <3>1 DEF UseRedundantRom, LooksErased
  <2>8. CASE active_rom = "primary"
    <3>1. standby_rom = "redundant"
      BY <2>2, <2>8 DEF Roms
    <3> QED
      BY <2>1, <2>4, <2>5, <2>6, <2>8, <3>1 DEF UseRedundantRom, LooksErased
  <2> QED
    BY <2>2, <2>7, <2>8 DEF Roms
<1>2. ASSUME IInv, SaveMarks, [Next]_vars
      PROVE  [SaveReturns /\ res' = "OK" /\ standby_rom' # NoRom /\ ~AnyOutOfRange(ints') =>
                 (active_rom' = "redundant" <=> Rechosen)]_vars
  BY <1>1, <1>2
<1> QED
  BY <1>2, Invariance, SaveMarksInvariance, PTL DEF Spec, RechoiceKeepsActive

----------------------------------------------------------------------------
(* The flash controller                                                    *)

\* An unlocked controller belongs to a write session under way.
UnlockedInSession == unlocked => pc # "idle" /\ Writable(Target)

\* Where no erase fails, flash is unlocked only inside a write session.
LEMMA UnlockedStep ==
    ASSUME "erase" \notin FaultOps, IInv, UnlockedInSession, [Next]_vars
    PROVE  UnlockedInSession'
<1>0. TypeOK /\ Pointers /\ OnlyTargetWritable
  BY DEF IInv
<1>1. CASE ApplicationCall
  <2>1. pc = "idle" /\ UNCHANGED unlocked
    BY <1>1 DEF ApplicationCall, ParamsInit, ParamsEnableCrc, ParamsInitRedundantPage,
       ParamsLoad, ParamsSetIntegerValue, ParamsSetStringValue, ParamsResetToDefault,
       ParamsSave, device
  <2> QED
    BY <2>1 DEF UnlockedInSession
<1>2. CASE BeginWrite \/ EraseOld
  <2>1. PICK r \in Roms, erased \in BOOLEAN :
            RomBeginWrite(r, erased) /\ r = Target /\ Target' = Target /\ pc' # "idle"
    <3>1. (standby_rom = NoRom \/ rom[Target].erased) \in BOOLEAN
      OBVIOUS
    <3> QED
      BY <1>0, <1>2, <3>1, TargetIsRom DEF BeginWrite, EraseOld, Goto, Target, Pointers
  <2>2. ~unlocked
    BY <1>0, <1>2 DEF UnlockedInSession, OnlyTargetWritable, BeginWrite, EraseOld,
       TypeOK, Pointers, Target
  <2>3. unlocked' => rom[r].inited /\ rom' = [[rom EXCEPT ![r].erased = erased]
                                                  EXCEPT ![r].write_protected = FALSE]
    BY <2>1, <2>2 DEF RomBeginWrite, device
  <2>4. unlocked' => Writable(r)'
    BY <1>0, <2>1, <2>3 DEF Writable, TypeOK, RomState
  <2> QED
    BY <2>1, <2>4 DEF UnlockedInSession
<1>3. CASE WriteInts \/ WriteStrs
  <2>1. /\ UNCHANGED <<unlocked, active_rom, standby_rom>>
        /\ pc # "idle" /\ pc' # "idle"
        /\ rom' = rom \/ rom' = [rom EXCEPT ![Target].erased = FALSE]
    BY <1>3 DEF WriteInts, WriteStrs, MarkedWritten, AfterWriteError, roms
  <2>2. Writable(Target) => Writable(Target)'
    BY <1>0, <2>1, TargetIsRom DEF Writable, TypeOK, RomState, Target
  <2> QED
    BY <2>1, <2>2 DEF UnlockedInSession
<1>4. CASE EndWrite \/ EndOld
  <2>1. unlocked' = UnlockedAfter(Target)
    BY <1>0, <1>4, TargetIsRom DEF EndWrite, EndOld, Pointers
  <2> QED
    BY <2>1 DEF UnlockedInSession, UnlockedAfter
<1>5. CASE PowerLoss
  BY <1>5 DEF PowerLoss, Reset, UnlockedInSession
<1>6. CASE UNCHANGED vars
  BY <1>6 DEF vars, device, roms, call, UnlockedInSession, Writable, Target
<1> QED
  BY <1>1, <1>2, <1>3, <1>4, <1>5, <1>6 DEF Next, SaveStep

\* When no erase fails, the flash controller is locked whenever no call runs.
THEOREM LockedBetweenCalls == "erase" \notin FaultOps => (Spec => []LockedWhenIdle)
<1> SUFFICES ASSUME "erase" \notin FaultOps PROVE Spec => []LockedWhenIdle
  OBVIOUS
<1>1. Init => UnlockedInSession
  BY DEF Init, VolatileInit, UnlockedInSession
<1>2. IInv /\ UnlockedInSession /\ [Next]_vars => UnlockedInSession'
  BY UnlockedStep
<1>3. UnlockedInSession => LockedWhenIdle
  BY DEF UnlockedInSession, LockedWhenIdle
<1> QED
  BY <1>1, <1>2, <1>3, Invariance, PTL DEF Spec
====
