---- MODULE ParamLookup ----
(***************************************************************************)
(* The lookups of src/storage.c: a parameter by its name (paramsFind) and  *)
(* what is known of an index.  They change nothing; the amounts they go by *)
(* are the ones the last calls of paramsInit left, in module RomLayout.    *)
(*                                                                         *)
(* A name is a C string: a sequence of characters with a NUL behind it.  A *)
(* query is a buffer of bytes and a length, its name ends at the length or *)
(* at a NUL before it.                                                     *)
(***************************************************************************)
EXTENDS RomLayout, Sequences

CONSTANTS
    Chars,      \* the characters of names
    IntNames,   \* the names in integer_desc_pool
    StrNames,   \* the names in string_desc_pool
    Queries,    \* [bytes, len] passed to paramsFind
    NUL,        \* the byte that ends a string
    NULL        \* a name that is NULL, no descriptor

ASSUME LookupAssumption ==
    /\ NUL \notin Chars
    /\ NULL \notin Seq(Chars) \cup Nat
    /\ IntNames \in Seq(Seq(Chars) \cup {NULL})
    /\ StrNames \in Seq(Seq(Chars) \cup {NULL})
    /\ \A a \in Amounts : a[1] <= Len(IntNames) /\ a[2] <= Len(StrNames)
    /\ \A q \in Queries : \/ q = NULL
                          \/ q.bytes \in Seq(Chars \cup {NUL}) /\ q.len \in 0 .. Len(q.bytes)

----------------------------------------------------------------------------
CharAt(s, k) == IF k <= Len(s) THEN s[k] ELSE NUL

\* strncmp(bytes, s, len) = 0: equal up to a common NUL, or up to len.
EqualUpTo(bytes, s, len) ==
    \A k \in 1 .. len : (\A l \in 1 .. k - 1 : bytes[l] = CharAt(s, l) /\ bytes[l] # NUL)
                            => bytes[k] = CharAt(s, k)

NulsIn(q) == {k \in 1 .. q.len : q.bytes[k] = NUL}

\* name_len of _isNameEqual, by memchr.
NameLen(q) ==
    IF NulsIn(q) = {} THEN q.len
    ELSE (CHOOSE k \in NulsIn(q) : \A l \in NulsIn(q) : k <= l) - 1

\* Mutant: strncmp alone.
StartsWith(param_name, q) == param_name # NULL /\ EqualUpTo(q.bytes, param_name, q.len)

IsNameEqual(param_name, q) ==
    /\ param_name # NULL
    /\ EqualUpTo(q.bytes, param_name, q.len)
    /\ CharAt(param_name, NameLen(q) + 1) = NUL

\* One loop of paramsFind: the first of the names from index lo, or hi.
FirstEqual(names, q, lo, hi) ==
    LET found == {idx \in lo .. hi - 1 : IsNameEqual(names[idx - lo + 1], q)}
    IN IF found = {} THEN hi ELSE CHOOSE i \in found : \A j \in found : i <= j

ParamsFind(q) ==
    IF q = NULL THEN all_params_amount
    ELSE LET i == FirstEqual(IntNames, q, 0, integers_amount)
         IN IF i < integers_amount THEN i
            ELSE FirstEqual(StrNames, q, integers_amount, all_params_amount)

ParamsGetName(idx) ==
    IF idx < integers_amount THEN IntNames[idx + 1]
    ELSE IF idx < all_params_amount THEN StrNames[idx - integers_amount + 1]
    ELSE NULL

ParamsGetType(idx) ==
    IF idx < integers_amount THEN "integer"
    ELSE IF idx < all_params_amount THEN "string"
    ELSE "undefined"

\* paramsGetIntegerDesc and paramsGetStringDesc: the place in their pool.
ParamsGetIntegerDesc(idx) == IF idx >= integers_amount THEN NULL ELSE idx

\* True for an index that is no string, in spite of its name.
IsCorrectStringParamIndex(idx) == idx < integers_amount \/ idx >= all_params_amount

ParamsGetStringDesc(idx) ==
    IF IsCorrectStringParamIndex(idx) THEN NULL ELSE idx - integers_amount

----------------------------------------------------------------------------
(* Properties                                                              *)

Params == 0 .. all_params_amount - 1

\* The name a query asks for.
Key(q) == SubSeq(q.bytes, 1, NameLen(q))

\* paramsFind finds the first parameter with exactly the name asked for,
\* whether the length counts the terminator or not: not one whose name is
\* longer, and none that the paramsInit in force left out.  What it finds
\* has a type and a descriptor of that type.
FindsExactName ==
    \A q \in Queries :
        LET i == ParamsFind(q)
            named == {p \in Params : q # NULL /\ ParamsGetName(p) = Key(q)}
        IN /\ named = {} => i = all_params_amount /\ ParamsGetType(i) = "undefined"
           /\ named # {} => i \in named /\ \A p \in named : i <= p
           /\ ParamsGetType(i) = "integer" <=> ParamsGetIntegerDesc(i) # NULL
           /\ ParamsGetType(i) = "string" <=> ParamsGetStringDesc(i) # NULL
====
