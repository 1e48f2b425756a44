---- MODULE ParamPools ----
(***************************************************************************)
(* The parameter tables of one application: the constant descriptors and   *)
(* the operations of src/storage.c on the two RAM pools                    *)
(* (integer_values_pool, string_values_pool).                              *)
(*                                                                         *)
(* A string is an abstract value.  Only its first byte matters to the      *)
(* code: '\0' (ZeroStr) and 255 (FFStr) both read as "never written".      *)
(***************************************************************************)
EXTENDS Integers

CONSTANTS
    NumInts,    \* integers_amount given to paramsInit
    NumStrs,    \* strings_amount given to paramsInit
    IntDesc,    \* integer_desc_pool: a record for every integer index
    StrDesc,    \* string_desc_pool: a record for every string index
    StrVal,     \* the values one string cell may hold
    ZeroStr,    \* a string whose first byte is '\0'
    FFStr       \* a string whose first byte is 255 (erased flash)

IntIdx == 0 .. NumInts - 1
StrIdx == 0 .. NumStrs - 1

IntegerDesc == [min : Int, max : Int, def : Int,
                is_mutable : BOOLEAN, is_required : BOOLEAN]
StringDesc == [def : StrVal, is_mutable : BOOLEAN]

ASSUME PoolsAssumption ==
    /\ NumInts \in Nat
    /\ NumStrs \in Nat
    /\ IntDesc \in [IntIdx -> IntegerDesc]
    /\ StrDesc \in [StrIdx -> StringDesc]
    /\ ZeroStr \in StrVal
    /\ FFStr \in StrVal

\* The default of an integer lies in its own range.  The generator does not
\* enforce it, so only the results that need it assume it.
DefaultsInRange ==
    \A i \in IntIdx : IntDesc[i].min <= IntDesc[i].def /\ IntDesc[i].def <= IntDesc[i].max

InRange(i, v) == IntDesc[i].min <= v /\ v <= IntDesc[i].max

\* Mutant: only the first integer is looked at.
FirstOutOfRange(f) == 0 \in IntIdx /\ ~InRange(0, f[0])

AnyOutOfRange(f) == \E i \in IntIdx : ~InRange(i, f[i])

ReadsAsBlank(s) == s \in {FFStr, ZeroStr}

DefaultStrs == [j \in StrIdx |-> StrDesc[j].def]

\* Mutant: the lower bound is not checked.
LoadedIntsBelowMin(f) ==
    [i \in IntIdx |-> IF f[i] <= IntDesc[i].max THEN f[i] ELSE IntDesc[i].def]

\* paramsLoad: what the pools hold after the raw values f were read.
LoadedInts(f) ==
    [i \in IntIdx |-> IF InRange(i, f[i]) THEN f[i] ELSE IntDesc[i].def]
LoadedStrs(f) ==
    [j \in StrIdx |-> IF ReadsAsBlank(f[j]) THEN StrDesc[j].def ELSE f[j]]

\* paramsResetToDefault on the integer pool.
ResetInts(f) ==
    [i \in IntIdx |-> IF ~IntDesc[i].is_required \/ IntDesc[i].is_mutable
                      THEN IntDesc[i].def ELSE f[i]]

\* paramsGetIntegerValue / paramsGetStringValue for a correct index.
GetInteger(f, i) == IF IntDesc[i].is_mutable THEN f[i] ELSE IntDesc[i].def
GetString(f, j) == IF StrDesc[j].is_mutable THEN f[j] ELSE StrDesc[j].def

\* paramsSetIntegerValue / paramsSetStringValue: accepted or ignored.
SetIntegerAccepts(i, v) == i \in IntIdx /\ IntDesc[i].is_mutable /\ InRange(i, v)
SetStringAccepts(j) == j \in StrIdx /\ StrDesc[j].is_mutable
====
