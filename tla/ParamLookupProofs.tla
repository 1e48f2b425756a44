---- MODULE ParamLookupProofs ----
(***************************************************************************)
(* The lookups find what they should, for any names and any queries.       *)
(***************************************************************************)
EXTENDS ParamLookup, RomLayoutProofs, InductionLemmas

----------------------------------------------------------------------------
(* Comparing a name with a query                                           *)

Query == {q \in Queries : q # NULL}

Name == Seq(Chars) \cup {NULL}

\* The name asked for ends at the length of the query or at a NUL before it.
LEMMA NameLenEnds ==
    ASSUME NEW q \in Query
    PROVE  /\ q.bytes \in Seq(Chars \cup {NUL}) /\ q.len \in Nat /\ q.len <= Len(q.bytes)
           /\ NameLen(q) \in Nat /\ NameLen(q) <= q.len
           /\ \A k \in 1 .. NameLen(q) : q.bytes[k] \in Chars
           /\ NameLen(q) < q.len => q.bytes[NameLen(q) + 1] = NUL
<1>1. q.bytes \in Seq(Chars \cup {NUL}) /\ q.len \in Nat /\ q.len <= Len(q.bytes)
  BY LookupAssumption DEF Query
<1>2. \A k \in 1 .. q.len : q.bytes[k] \in Chars \cup {NUL}
  BY <1>1
<1>3. CASE NulsIn(q) = {}
  BY <1>1, <1>2, <1>3 DEF NameLen, NulsIn
<1>4. CASE NulsIn(q) # {}
  <2> DEFINE first == CHOOSE k \in NulsIn(q) : \A l \in NulsIn(q) : k <= l
  <2>1. NulsIn(q) \in SUBSET Nat
    BY <1>1 DEF NulsIn
  <2>2. first \in NulsIn(q) /\ \A l \in NulsIn(q) : first <= l
    <3>1. \E k \in NulsIn(q) : \A l \in NulsIn(q) : k <= l
      BY <1>4, <2>1, LeastNat
    <3> QED
      BY <3>1
  <2>3. NameLen(q) = first - 1
    BY <1>4 DEF NameLen
  <2> HIDE DEF first
  <2>4. first \in 1 .. q.len /\ q.bytes[first] = NUL
    BY <2>2 DEF NulsIn
  <2>5. \A k \in 1 .. first - 1 : q.bytes[k] # NUL
    <3> SUFFICES ASSUME NEW k \in 1 .. first - 1, q.bytes[k] = NUL PROVE FALSE
      OBVIOUS
    <3>1. k \in NulsIn(q) /\ k < first
      BY <1>1, <2>4 DEF NulsIn
    <3> QED
      BY <1>1, <2>2, <2>4, <3>1
  <2>6. NameLen(q) \in Nat /\ NameLen(q) + 1 = first /\ NameLen(q) < q.len
    BY <1>1, <2>3, <2>4
  <2> QED
    BY <1>1, <1>2, <2>3, <2>4, <2>5, <2>6
<1> QED
  BY <1>1, <1>3, <1>4

\* The name asked for, as a string.
LEMMA KeyIsName ==
    ASSUME NEW q \in Query
    PROVE  /\ Key(q) \in Seq(Chars) /\ Len(Key(q)) = NameLen(q)
           /\ \A k \in 1 .. NameLen(q) : Key(q)[k] = q.bytes[k]
<1> DEFINE n == NameLen(q)
<1>1. /\ q.bytes \in Seq(Chars \cup {NUL}) /\ n \in Nat /\ n <= Len(q.bytes)
      /\ \A k \in 1 .. n : q.bytes[k] \in Chars
  BY NameLenEnds
<1> HIDE DEF n
<1>2. Key(q) = SubSeq(q.bytes, 1, n)
  BY DEF Key, n
<1>3. Key(q) = [k \in 1 .. n |-> q.bytes[k]]
  BY <1>1, <1>2
<1>4. Key(q) \in Seq(Chars) /\ Len(Key(q)) = n
  BY <1>1, <1>3
<1> QED
  BY <1>3, <1>4 DEF n

\* strncmp finds no difference: the name of the parameter starts with the name
\* asked for.
LEMMA EqualUpToName ==
    ASSUME NEW q \in Query, NEW s \in Seq(Chars), EqualUpTo(q.bytes, s, q.len)
    PROVE  \A k \in 1 .. NameLen(q) : q.bytes[k] = CharAt(s, k)
<1> DEFINE Different == {k \in 1 .. NameLen(q) : q.bytes[k] # CharAt(s, k)}
<1>1. /\ NameLen(q) \in Nat /\ q.len \in Nat /\ NameLen(q) <= q.len
      /\ \A k \in 1 .. NameLen(q) : q.bytes[k] # NUL
  BY NameLenEnds, LookupAssumption
<1>2. SUFFICES ASSUME Different # {} PROVE FALSE
  OBVIOUS
<1>3. Different \in SUBSET Nat
  BY <1>1
<1>4. PICK k \in Different : \A l \in Different : k <= l
  BY <1>2, <1>3, LeastNat
<1>5. k \in 1 .. NameLen(q) /\ k \in 1 .. q.len /\ q.bytes[k] # CharAt(s, k)
  BY <1>1
<1>6. \A l \in 1 .. k - 1 : q.bytes[l] = CharAt(s, l) /\ q.bytes[l] # NUL
  <2> SUFFICES ASSUME NEW l \in 1 .. k - 1
               PROVE  q.bytes[l] = CharAt(s, l) /\ q.bytes[l] # NUL
    OBVIOUS
  <2>1. l \in 1 .. NameLen(q) /\ ~(k <= l)
    BY <1>1, <1>5
  <2>2. l \notin Different
    BY <1>4, <2>1
  <2> QED
    BY <1>1, <2>1, <2>2
<1> QED
  BY <1>5, <1>6 DEF EqualUpTo

\* _isNameEqual is equality of names, whatever follows the NUL in the buffer
\* and whether or not the length counts it.
LEMMA NameEqualIsEquality ==
    ASSUME NEW q \in Query, NEW s \in Name
    PROVE  IsNameEqual(s, q) <=> s = Key(q)
<1> DEFINE n == NameLen(q)
<1>1. /\ n \in Nat /\ q.len \in Nat /\ n <= q.len
      /\ \A k \in 1 .. n : q.bytes[k] \in Chars
      /\ n < q.len => q.bytes[n + 1] = NUL
  BY NameLenEnds
<1>2. /\ Key(q) \in Seq(Chars) /\ Len(Key(q)) = n
      /\ \A k \in 1 .. n : Key(q)[k] = q.bytes[k]
  BY KeyIsName
<1>3. NUL \notin Chars /\ NULL \notin Seq(Chars)
  BY LookupAssumption
<1>4. IsNameEqual(s, q) <=> s # NULL /\ EqualUpTo(q.bytes, s, q.len) /\ CharAt(s, n + 1) = NUL
  BY DEF IsNameEqual
<1>5. ASSUME IsNameEqual(s, q) PROVE s = Key(q)
  <2>1. s \in Seq(Chars) /\ CharAt(s, n + 1) = NUL
    BY <1>4, <1>5 DEF Name
  <2>2. \A k \in 1 .. n : q.bytes[k] = CharAt(s, k)
    BY <1>4, <1>5, <2>1, EqualUpToName
  <2> HIDE DEF n
  <2>3. Len(s) <= n
    BY <1>1, <1>3, <2>1 DEF CharAt
  <2>4. \A k \in 1 .. n : k <= Len(s) /\ q.bytes[k] = s[k]
    BY <1>1, <1>3, <2>2 DEF CharAt
  <2>5. Len(s) = n
    BY <1>1, <2>1, <2>3, <2>4
  <2> QED
    BY <1>2, <2>1, <2>4, <2>5
<1>6. ASSUME s = Key(q) PROVE IsNameEqual(s, q)
  <2> HIDE DEF n
  <2>1. s # NULL /\ CharAt(s, n + 1) = NUL
    BY <1>1, <1>2, <1>3, <1>6 DEF CharAt
  <2>2. \A k \in 1 .. n : q.bytes[k] = CharAt(s, k)
    BY <1>1, <1>2, <1>6 DEF CharAt
  <2>3. ASSUME NEW k \in 1 .. q.len,
               \A l \in 1 .. k - 1 : q.bytes[l] = CharAt(s, l) /\ q.bytes[l] # NUL
        PROVE  q.bytes[k] = CharAt(s, k)
    <3>1. CASE k <= n
      BY <1>1, <2>2, <3>1
    <3>2. CASE k = n + 1
      BY <1>1, <2>1, <3>2
    <3>3. CASE k > n + 1
      <4>1. n + 1 \in 1 .. k - 1 /\ n < q.len
        BY <1>1, <3>3
      <4> QED
        BY <1>1, <2>3, <4>1
    <3> QED
      BY <1>1, <3>1, <3>2, <3>3
  <2> QED
    BY <1>4, <2>1, <2>3 DEF EqualUpTo
<1> QED
  BY <1>5, <1>6

\* A loop of paramsFind ends at the first name that is the one asked for, or
\* behind the last.
LEMMA FirstEqualIsFirst ==
    ASSUME NEW q \in Query, NEW lo \in Nat, NEW hi \in Nat, lo <= hi,
           NEW names \in Seq(Name), hi - lo <= Len(names)
    PROVE  LET i == FirstEqual(names, q, lo, hi)
               named == {idx \in lo .. hi - 1 : names[(idx - lo) + 1] = Key(q)}
           IN /\ named = {} => i = hi
              /\ named # {} => i \in named /\ \A p \in named : i <= p
<1> DEFINE found == {idx \in lo .. hi - 1 : IsNameEqual(names[(idx - lo) + 1], q)}
           named == {idx \in lo .. hi - 1 : names[(idx - lo) + 1] = Key(q)}
<1>1. found = named
  <2>1. ASSUME NEW idx \in lo .. hi - 1
        PROVE  IsNameEqual(names[(idx - lo) + 1], q) <=> names[(idx - lo) + 1] = Key(q)
    <3>1. (idx - lo) + 1 \in 1 .. Len(names)
      OBVIOUS
    <3>2. names[(idx - lo) + 1] \in Name
      BY <3>1
    <3> QED
      BY <3>2, NameEqualIsEquality
  <2> QED
    BY <2>1
<1>2. FirstEqual(names, q, lo, hi) =
          IF found = {} THEN hi ELSE CHOOSE i \in found : \A j \in found : i <= j
  BY DEF FirstEqual
<1>3. found \in SUBSET Nat
  OBVIOUS
<1>4. ASSUME found # {} PROVE \E i \in found : \A j \in found : i <= j
  <2> HIDE DEF found
  <2> QED
    BY <1>3, <1>4, LeastNat
<1> HIDE DEF found, named
<1>5. /\ named = {} => FirstEqual(names, q, lo, hi) = hi
      /\ named # {} => /\ FirstEqual(names, q, lo, hi) \in named
                       /\ \A p \in named : FirstEqual(names, q, lo, hi) <= p
  BY <1>1, <1>2, <1>4
<1> QED
  BY <1>5 DEF named

----------------------------------------------------------------------------
(* The amounts in force                                                    *)

\* The amounts are what one accepted paramsInit passed, or nothing.
AmountsInForce ==
    /\ integers_amount \in Nat /\ strings_amount \in Nat
    /\ integers_amount <= Len(IntNames)
    /\ strings_amount <= Len(StrNames)
    /\ all_params_amount = integers_amount + strings_amount

\* Every call keeps them: only an accepted paramsInit changes one, and it
\* changes all three.
LEMMA AmountsInvariance == Spec => []AmountsInForce
<1>1. Init => AmountsInForce
  BY LookupAssumption DEF Init, AmountsInForce
<1>2. AmountsInForce /\ [Next]_vars => AmountsInForce'
  <2> SUFFICES ASSUME AmountsInForce, [Next]_vars PROVE AmountsInForce'
    OBVIOUS
  <2>1. CASE UNCHANGED amounts
    BY <2>1 DEF amounts, AmountsInForce
  <2>2. ASSUME NEW range \in ranges, NEW amount \in Amounts, ParamsInit(range, amount)
        PROVE  AmountsInForce'
    <3>1. CASE UNCHANGED amounts
      BY <2>1, <3>1
    <3>2. CASE /\ integers_amount' = amount[1]
               /\ strings_amount' = amount[2]
               /\ all_params_amount' = amount[1] + amount[2]
      <4>1. amount[1] \in Nat /\ amount[2] \in Nat
        BY LayoutAssumption
      <4> QED
        BY <3>2, <4>1, LookupAssumption DEF AmountsInForce
    <3> QED
      BY <2>2, <3>1, <3>2 DEF ParamsInit
  <2> QED
    BY <2>1, <2>2 DEF Next, vars, ParamsInitRedundantPage, ParamsLoad, ParamsSave
<1> QED
  BY <1>1, <1>2, PTL DEF Spec

----------------------------------------------------------------------------
(* Theorem                                                                 *)

\* What paramsFind returns, when the amounts are in force.
LEMMA FindIsExact ==
    ASSUME AmountsInForce, NEW q \in Query
    PROVE  LET i == ParamsFind(q)
               named == {p \in Params : ParamsGetName(p) = Key(q)}
           IN /\ i \in Nat /\ i <= all_params_amount
              /\ named = {} => i = all_params_amount
              /\ named # {} => i \in named /\ \A p \in named : i <= p
<1> DEFINE n == integers_amount
           all == all_params_amount
           named == {p \in Params : ParamsGetName(p) = Key(q)}
           ints == {p \in 0 .. n - 1 : IntNames[(p - 0) + 1] = Key(q)}
           strs == {p \in n .. all - 1 : StrNames[(p - n) + 1] = Key(q)}
           firstInt == FirstEqual(IntNames, q, 0, n)
           firstStr == FirstEqual(StrNames, q, n, all)
<1>1. /\ n \in Nat /\ all \in Nat /\ n <= all
      /\ n - 0 <= Len(IntNames) /\ all - n <= Len(StrNames)
      /\ IntNames \in Seq(Name) /\ StrNames \in Seq(Name)
  BY LookupAssumption DEF AmountsInForce, Name
<1>2. /\ ints = {} => firstInt = n
      /\ ints # {} => firstInt \in ints /\ \A p \in ints : firstInt <= p
  <2>1. 0 \in Nat /\ 0 <= n
    BY <1>1
  <2> QED
    BY <1>1, <2>1, FirstEqualIsFirst, Zenon
<1>3. /\ strs = {} => firstStr = all
      /\ strs # {} => firstStr \in strs /\ \A p \in strs : firstStr <= p
  BY <1>1, FirstEqualIsFirst
<1>4. ParamsFind(q) = IF firstInt < n THEN firstInt ELSE firstStr
  BY DEF ParamsFind, Query
<1>5. \A p \in 0 .. n - 1 : p \in named <=> p \in ints
  BY <1>1 DEF Params, ParamsGetName
<1>6. \A p \in n .. all - 1 : p \in named <=> p \in strs
  BY <1>1 DEF Params, ParamsGetName
<1>7. named \subseteq 0 .. all - 1 /\ ints \subseteq 0 .. n - 1 /\ strs \subseteq n .. all - 1
  BY DEF Params
<1> HIDE DEF named, ints, strs, firstInt, firstStr
<1>8. named = ints \cup strs
  <2>1. 0 .. all - 1 = (0 .. n - 1) \cup (n .. all - 1)
    BY <1>1
  <2> QED
    BY <1>5, <1>6, <1>7, <2>1
<1>9. CASE ints # {}
  <2>1. firstInt \in ints /\ firstInt < n /\ ParamsFind(q) = firstInt
    <3>1. firstInt \in ints
      BY <1>2, <1>9
    <3>2. firstInt \in 0 .. n - 1
      BY <1>7, <3>1
    <3> QED
      BY <1>1, <1>4, <3>1, <3>2
  <2>2. \A p \in named : firstInt <= p
    BY <1>1, <1>2, <1>7, <1>8, <1>9, <2>1
  <2> QED
    BY <1>1, <1>7, <1>8, <2>1, <2>2 DEF named
<1>10. CASE ints = {}
  <2>1. ParamsFind(q) = firstStr /\ named = strs
    BY <1>1, <1>2, <1>4, <1>8, <1>10
  <2> QED
    BY <1>1, <1>3, <1>7, <2>1 DEF named
<1> QED
  BY <1>9, <1>10

\* paramsFind returns the first parameter with exactly the name asked for
\* among those in force, or an index that is no parameter; the type and the
\* descriptor of what it returns agree.
THEOREM NamesFindTheirParameter == Spec => []FindsExactName
<1>1. AmountsInForce => FindsExactName
  <2> SUFFICES ASSUME AmountsInForce, NEW q \in Queries
               PROVE  LET i == ParamsFind(q)
                          named == {p \in Params : q # NULL /\ ParamsGetName(p) = Key(q)}
                      IN /\ named = {} => /\ i = all_params_amount
                                          /\ ParamsGetType(i) = "undefined"
                         /\ named # {} => i \in named /\ \A p \in named : i <= p
                         /\ ParamsGetType(i) = "integer" <=> ParamsGetIntegerDesc(i) # NULL
                         /\ ParamsGetType(i) = "string" <=> ParamsGetStringDesc(i) # NULL
    BY DEF FindsExactName
  <2> DEFINE i == ParamsFind(q)
             named == {p \in Params : q # NULL /\ ParamsGetName(p) = Key(q)}
  <2>1. /\ integers_amount \in Nat /\ all_params_amount \in Nat
        /\ integers_amount <= all_params_amount
    BY DEF AmountsInForce
  <2>2. /\ i \in Nat /\ i <= all_params_amount
        /\ named = {} => i = all_params_amount
        /\ named # {} => i \in named /\ \A p \in named : i <= p
    <3>1. CASE q = NULL
      BY <2>1, <3>1 DEF ParamsFind
    <3>2. CASE q # NULL
      <4>1. named = {p \in Params : ParamsGetName(p) = Key(q)}
        BY <3>2
      <4> QED
        BY <3>2, <4>1, FindIsExact DEF Query
    <3> QED
      BY <3>1, <3>2
  <2> HIDE DEF i, named
  <2>3. i = all_params_amount => ParamsGetType(i) = "undefined"
    BY <2>1 DEF ParamsGetType
  <2>4. ParamsGetType(i) = "integer" <=> ParamsGetIntegerDesc(i) # NULL
    BY <2>1, <2>2, LookupAssumption DEF ParamsGetType, ParamsGetIntegerDesc
  <2>5. ParamsGetType(i) = "string" <=> ParamsGetStringDesc(i) # NULL
    <3>1. i - integers_amount \in Nat \/ i < integers_amount
      BY <2>1, <2>2
    <3> QED
      BY <2>1, <2>2, <3>1, LookupAssumption
      DEF ParamsGetType, ParamsGetStringDesc, IsCorrectStringParamIndex
  <2> QED
    BY <2>2, <2>3, <2>4, <2>5 DEF i, named
<1> QED
  BY <1>1, AmountsInvariance, PTL
====
