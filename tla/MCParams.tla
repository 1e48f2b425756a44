---- MODULE MCParams ----
(***************************************************************************)
(* The small applications the runs instantiate: one or two integers, one   *)
(* of which may hold the CRC, and one string.                              *)
(***************************************************************************)
EXTENDS Integers, TLC

Desc(min, max, def, mutable) == [min |-> min, max |-> max, def |-> def,
                                 is_mutable |-> mutable, is_required |-> FALSE]

\* A setting accepts 0 and 1: not -1, which erased flash reads as, nor 2,
\* which the application tries to set.  A CRC cell accepts all 31-bit values
\* and is not set by the application.
Setting == Desc(0, 1, 1, TRUE)
CrcCell == Desc(0, 2147483647, 0, FALSE)

OneSetting == 0 :> Setting
TwoSettings == 0 :> Setting @@ 1 :> Setting
CrcThenSetting == 0 :> CrcCell @@ 1 :> Setting

\* A setting that accepts -1.
OneSignedSetting == 0 :> Desc(-1, 1, 1, TRUE)

OneString == 0 :> [def |-> "default", is_mutable |-> TRUE]

AppStrVal == {"zero", "ff", "torn", "default", "other"}

HalfWord == 65536

\* 0, 1, 2, erased cells, cells cut after a half-word, and 0, 1 or 2 with
\* the low half-word erased.
AppDataVal == {-1, 0, 1, 2, -HalfWord, 1 - HalfWord, 2 - HalfWord, HalfWord - 1}

\* A checksum without collisions on the contents of at most two integers and
\* one string.
IntCode(v) == IF v < -1 THEN 4 + (v + HalfWord) ELSE IF v < 3 THEN v + 1 ELSE 7
StrCode == "zero" :> 0 @@ "ff" :> 1 @@ "torn" :> 2 @@ "default" :> 3 @@ "other" :> 4
GapCode == "none" :> 0 @@ "ff" :> 1 @@ "zero" :> 2
IntsCode(f) == IF 1 \in DOMAIN f THEN IntCode(f[0]) + 8 * IntCode(f[1]) ELSE IntCode(f[0])
AppCrc(c) == IntsCode(c.ints) + 64 * (StrCode[c.strs[0]] + 5 * GapCode[c.gap])
====
