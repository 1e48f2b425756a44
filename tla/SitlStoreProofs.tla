---- MODULE SitlStoreProofs ----
(***************************************************************************)
(* The store on page files keeps its parameters, for any parameters, sizes *)
(* of pages, versions of the program and moments at which it is killed.    *)
(***************************************************************************)
EXTENDS SitlStore, InductionLemmas

----------------------------------------------------------------------------
(* Sizes                                                                   *)

LEMMA Sizes ==
    /\ IntSize \in Nat \ {0} /\ StrSize \in Nat \ {0} /\ PageSize \in Nat \ {0}
    /\ IntSize <= StrSize /\ StrSize <= PageSize
<1>1. {IntSize, StrSize, PageSize} \subseteq Nat \ {0} /\ StrSize >= IntSize /\ PageSize >= StrSize
  BY SitlAssumption, Zenon
<1> QED
  BY <1>1

\* How often u goes into n.
LEMMA Quotient ==
    ASSUME NEW n \in Nat, NEW u \in Nat \ {0}, NEW k \in Nat
    PROVE  n \div u \in Nat /\ (k <= n \div u <=> u * k <= n)
<1> DEFINE q == n \div u
<1>1. q \in Int /\ n % u \in 0 .. u - 1 /\ n = u * q + (n % u)
  BY SMT
<1> HIDE DEF q
<1>2. u * q \in Int /\ u * k \in Int
  BY <1>1, SMT
<1>3. q >= 0
  <2>1. q < 0 => u * q <= 0 - u
    BY <1>1, SMT
  <2> QED
    BY <1>1, <1>2, <2>1
<1>4. u * (q - k) = u * q - u * k
  BY <1>1, SMT
<1>5. (k <= q => u * (q - k) >= 0) /\ (k > q => u * (q - k) <= 0 - u)
  BY <1>1, SMT
<1>6. k <= q <=> u * k <= n
  BY <1>1, <1>2, <1>4, <1>5
<1> QED
  BY <1>1, <1>3, <1>6 DEF q

LEMMA SmallerOf ==
    ASSUME NEW a \in Nat, NEW b \in Nat
    PROVE  Smaller(a, b) \in 0 .. a /\ Smaller(a, b) <= b
BY DEF Smaller

\* The loop of the generator takes as many items as are left or fit.
LEMMA FittingIsQuotient ==
    ASSUME NEW used \in Nat, used <= PageSize, NEW size \in Nat \ {0}, NEW left \in Nat
    PROVE  Fitting(used, size, left) = Smaller(left, (PageSize - used) \div size)
<1> DEFINE n == PageSize - used
           q == n \div size
           Fits(k) == /\ k = 0 \/ used + size * k <= PageSize
                      /\ k = left \/ used + size * (k + 1) > PageSize
<1>1. PageSize \in Nat /\ n \in Nat /\ q \in Nat
  <2>1. PageSize \in Nat /\ n \in Nat
    BY Sizes
  <2> QED
    BY <2>1, Quotient
<1>2. ASSUME NEW k \in Nat
      PROVE  used + size * k <= PageSize <=> k <= q
  <2>1. k <= q <=> size * k <= n
    BY <1>1, Quotient
  <2>2. size * k \in Int
    OBVIOUS
  <2> QED
    BY <1>1, <2>1, <2>2
<1> HIDE DEF q
<1>3. \A k \in 0 .. left : Fits(k) <=> k = Smaller(left, q)
  <2> TAKE k \in 0 .. left
  <2>1. k \in Nat /\ k + 1 \in Nat /\ size * (k + 1) \in Int
    OBVIOUS
  <2>2. used + size * (k + 1) > PageSize <=> ~(k + 1 <= q)
    BY <1>1, <1>2, <2>1
  <2>3. used + size * k <= PageSize <=> k <= q
    BY <1>2, <2>1
  <2> QED
    BY <1>1, <2>1, <2>2, <2>3 DEF Smaller
<1>4. Smaller(left, q) \in 0 .. left
  BY <1>1, SmallerOf
<1>5. Fitting(used, size, left) = CHOOSE k \in 0 .. left : Fits(k)
  BY DEF Fitting
<1> HIDE DEF Fits
<1>6. (CHOOSE k \in 0 .. left : Fits(k)) = Smaller(left, q)
  BY <1>3, <1>4
<1> QED
  BY <1>5, <1>6 DEF q

\* The strings that are read as they were printed.
Plain == Strings \ {QuotedStr, NumberedStr, NamedStr}

\* What is known of the parameters of a program.
LEMMA AppFacts ==
    app \in Apps =>
        /\ NumInts \in Nat /\ NumStrs \in Nat /\ NumInts + NumStrs > 0
        /\ app.desc \in Seq([min : Int, max : Int, def : Int])
        /\ \A i \in 1 .. NumInts :
              /\ {app.desc[i].min, app.desc[i].max, app.desc[i].def} \subseteq Int
              /\ InRange(i, app.desc[i].def)
        /\ app.strs \in Seq(Strings \ {QuotedStr}) /\ app.strs \in Seq(Strings)
        /\ app.strs \in Seq(Plain)
        /\ IntSize * NumInts \in Nat /\ IntSize * NumInts <= PageSize
        /\ RegionPages \in Nat /\ RegionPages >= 1
        /\ 0 .. RegionPages - 1 \subseteq AllPages
<1> SUFFICES ASSUME app \in Apps
             PROVE  /\ NumInts \in Nat /\ NumStrs \in Nat /\ NumInts + NumStrs > 0
                    /\ app.desc \in Seq([min : Int, max : Int, def : Int])
                    /\ \A i \in 1 .. NumInts :
                          /\ {app.desc[i].min, app.desc[i].max, app.desc[i].def} \subseteq Int
                          /\ InRange(i, app.desc[i].def)
                    /\ app.strs \in Seq(Strings \ {QuotedStr}) /\ app.strs \in Seq(Strings)
                    /\ app.strs \in Seq(Plain)
                    /\ IntSize * NumInts \in Nat /\ IntSize * NumInts <= PageSize
                    /\ RegionPages \in Nat /\ RegionPages >= 1
                    /\ 0 .. RegionPages - 1 \subseteq AllPages
  OBVIOUS
<1>1. /\ app.desc \in Seq([min : Int, max : Int, def : Int])
      /\ app.strs \in Seq(Plain)
      /\ IntSize * NumInts <= PageSize /\ NumInts + NumStrs > 0
      /\ \A i \in DOMAIN app.desc : app.desc[i].def \in app.desc[i].min .. app.desc[i].max
  BY SitlAssumption DEF NumInts, NumStrs, Plain
<1>2. NumInts \in Nat /\ NumStrs \in Nat /\ DOMAIN app.desc = 1 .. NumInts
  BY <1>1 DEF NumInts, NumStrs
<1>3. ASSUME NEW i \in 1 .. NumInts
      PROVE  /\ {app.desc[i].min, app.desc[i].max, app.desc[i].def} \subseteq Int
             /\ InRange(i, app.desc[i].def)
  <2>1. app.desc[i] \in [min : Int, max : Int, def : Int]
    BY <1>1, ElementOfSeq DEF NumInts
  <2>2. app.desc[i].min \in Int /\ app.desc[i].max \in Int /\ app.desc[i].def \in Int
    BY <2>1
  <2>3. app.desc[i].def \in app.desc[i].min .. app.desc[i].max
    BY <1>1, <1>2
  <2> QED
    BY <2>2, <2>3 DEF InRange
<1>4. app.strs \in Seq(Strings) /\ app.strs \in Seq(Strings \ {QuotedStr})
  <2>1. Plain \subseteq Strings /\ Plain \subseteq Strings \ {QuotedStr}
    BY DEF Plain
  <2> QED
    BY <1>1, <2>1, SeqMonotonic
<1>5. /\ IntSize * NumInts \in Nat /\ StrSize * NumStrs \in Nat
      /\ IntSize \in Nat /\ PageSize \in Nat \ {0}
  BY <1>2, Sizes
<1>6. RegionPages \in Nat /\ RegionPages >= 1
  <2>1. CASE Size(app) = 0
    BY <2>1 DEF RegionPages, PagesOf
  <2>2. CASE Size(app) # 0
    <3>1. Size(app) \in Nat
      BY <1>5 DEF Size, NumInts, NumStrs
    <3> DEFINE n == Size(app) + PageSize - 1
    <3>2. n \in Nat /\ PageSize * 1 <= n /\ 1 \in Nat
      BY <1>5, <2>2, <3>1
    <3> HIDE DEF n
    <3>3. n \div PageSize \in Nat /\ 1 <= n \div PageSize
      BY <1>5, <3>2, Quotient
    <3> QED
      BY <2>2, <3>3 DEF RegionPages, PagesOf, n
  <2> QED
    BY <2>1, <2>2
<1>7. 0 .. RegionPages - 1 \subseteq AllPages
  BY DEF AllPages, RegionPages
<1> QED
  BY <1>1, <1>2, <1>3, <1>4, <1>5, <1>6, <1>7

LEMMA APage == app \in Apps => RegionPages \in Nat /\ RegionPages >= 1
BY AppFacts

----------------------------------------------------------------------------
(* Which parameters are on which page                                      *)

\* What may have been printed before a page.
Printable == {0, NumInts} \X (0 .. NumStrs)

\* What has been printed after one page more.
AfterPage(x) == <<x[1] + IntsOnPage(x[1]), x[2] + StrsOnPage(x[1], x[2])>>

\* All integers fit one page.
LEMMA OnPage ==
    app \in Apps =>
        \A x \in Printable :
           /\ x[1] \in Nat /\ x[2] \in Nat /\ NumInts - x[1] \in Nat /\ NumStrs - x[2] \in Nat
           /\ IntsOnPage(x[1]) = NumInts - x[1]
           /\ IntSize * (NumInts - x[1]) \in Nat /\ IntSize * (NumInts - x[1]) <= PageSize
           /\ StrsOnPage(x[1], x[2]) \in 0 .. NumStrs - x[2]
           /\ AfterPage(x) \in Printable /\ AfterPage(x)[1] = NumInts
           /\ x[2] <= AfterPage(x)[2]
<1> SUFFICES ASSUME app \in Apps, NEW x \in Printable
             PROVE  /\ x[1] \in Nat /\ x[2] \in Nat
                    /\ NumInts - x[1] \in Nat /\ NumStrs - x[2] \in Nat
                    /\ IntsOnPage(x[1]) = NumInts - x[1]
                    /\ IntSize * (NumInts - x[1]) \in Nat /\ IntSize * (NumInts - x[1]) <= PageSize
                    /\ StrsOnPage(x[1], x[2]) \in 0 .. NumStrs - x[2]
                    /\ AfterPage(x) \in Printable /\ AfterPage(x)[1] = NumInts
                    /\ x[2] <= AfterPage(x)[2]
  OBVIOUS
<1>1. /\ NumInts \in Nat /\ NumStrs \in Nat
      /\ IntSize * NumInts \in Nat /\ IntSize * NumInts <= PageSize
  BY AppFacts
<1> DEFINE i == x[1]
           s == x[2]
           k == NumInts - i
           left == NumStrs - s
<1>2. i \in {0, NumInts} /\ s \in 0 .. NumStrs
  BY DEF Printable
<1>3. i \in Nat /\ s \in Nat /\ k \in Nat /\ left \in Nat
  BY <1>1, <1>2
<1>4. IntSize * k \in Nat /\ IntSize * k <= PageSize
  <2>1. CASE i = 0
    BY <1>1, <2>1
  <2>2. CASE i = NumInts
    <3>1. k = 0
      BY <1>1, <2>2
    <3> HIDE DEF k
    <3>2. IntSize * 0 = 0
      BY Sizes
    <3> QED
      BY Sizes, <3>1, <3>2
  <2> QED
    BY <1>2, <2>1, <2>2
<1> HIDE DEF i, s, k, left
<1>5. k <= PageSize \div IntSize
  BY <1>3, <1>4, Sizes, Quotient
<1>6. IntsOnPage(i) = k
  <2>1. PageSize \div IntSize \in Nat
    BY <1>3, Sizes, Quotient
  <2>2. IntsOnPage(i) = Smaller(k, PageSize \div IntSize)
    BY DEF IntsOnPage, k
  <2> HIDE DEF IntsOnPage
  <2> QED
    BY <1>3, <1>5, <2>1, <2>2 DEF Smaller
<1>7. StrsOnPage(i, s) \in 0 .. left
  <2> DEFINE r == PageSize - IntSize * k
  <2>1. r \in Nat
    BY <1>4, Sizes
  <2>2. StrsOnPage(i, s) = Smaller(left, r \div StrSize)
    BY <1>6 DEF StrsOnPage, left
  <2> HIDE DEF r
  <2>3. r \div StrSize \in Nat
    BY <2>1, Sizes, Quotient
  <2> QED
    BY <1>3, <2>2, <2>3, SmallerOf
<1>8. AfterPage(x) = <<NumInts, s + StrsOnPage(i, s)>>
  <2>1. i + k = NumInts
    BY <1>1, <1>3 DEF k
  <2> QED
    BY <1>6, <2>1 DEF AfterPage, i, s
<1>9. AfterPage(x) \in Printable /\ AfterPage(x)[1] = NumInts /\ s <= AfterPage(x)[2]
  <2>1. s + StrsOnPage(i, s) \in 0 .. NumStrs /\ s <= s + StrsOnPage(i, s)
    BY <1>1, <1>3, <1>7 DEF left
  <2> QED
    BY <1>8, <2>1 DEF Printable
<1> QED
  BY <1>3, <1>4, <1>6, <1>7, <1>9 DEF i, s, k, left

\* The loop of write_to_dir, a page at a time.
LEMMA WrittenSteps ==
    app \in Apps =>
        /\ Written \in [0 .. RegionPages -> Printable]
        /\ Written[0] = <<0, 0>>
        /\ \A p \in 1 .. RegionPages : Written[p] = AfterPage(Written[p - 1])
<1> SUFFICES ASSUME app \in Apps
             PROVE  /\ Written \in [0 .. RegionPages -> Printable]
                    /\ Written[0] = <<0, 0>>
                    /\ \A p \in 1 .. RegionPages : Written[p] = AfterPage(Written[p - 1])
  OBVIOUS
<1> DEFINE n == RegionPages
           zero == <<0, 0>>
           G == [p \in Nat |-> [x \in Printable |-> AfterPage(x)]]
           Def(w) == w = [p \in 0 .. n |-> IF p = 0 THEN zero ELSE AfterPage(w[p - 1])]
<1>1. n \in Nat /\ NumInts \in Nat /\ NumStrs \in Nat
  BY AppFacts
<1>2. G \in [Nat -> [Printable -> Printable]] /\ zero \in Printable
  BY <1>1, OnPage DEF Printable
<1>3. \E f : Def(f)
  <2>1. \E f \in [0 .. n -> Printable] : Iterates(f, zero, G, n)
    <3> HIDE DEF n, G, zero
    <3> QED
      BY <1>1, <1>2, Iteration
  <2>2. PICK f \in [0 .. n -> Printable] : Iterates(f, zero, G, n)
    BY <2>1
  <2>3. f[0] = zero
    BY <2>2 DEF Iterates
  <2>4. ASSUME NEW p \in 1 .. n PROVE f[p] = AfterPage(f[p - 1])
    <3>1. f[p] = G[p][f[p - 1]]
      BY <2>2 DEF Iterates
    <3>2. p \in Nat /\ p - 1 \in 0 .. n
      BY <1>1
    <3>3. f[p - 1] \in Printable
      BY <3>2
    <3> QED
      BY <3>1, <3>2, <3>3, Zenon
  <2>5. \A p \in 0 .. n : p # 0 => p \in 1 .. n
    BY <1>1
  <2> HIDE DEF G, zero
  <2>6. Def(f)
    <3>1. \A p \in 0 .. n : f[p] = IF p = 0 THEN zero ELSE AfterPage(f[p - 1])
      BY <2>3, <2>4, <2>5
    <3>2. f = [p \in 0 .. n |-> f[p]]
      OBVIOUS
    <3> QED
      BY <3>1, <3>2
  <2> HIDE DEF Def
  <2> QED
    BY <2>6
<1>4. Written = CHOOSE w : Def(w)
  BY DEF Written, AfterPage
<1>5. Def(Written)
  <2> HIDE DEF Def
  <2> QED
    BY <1>3, <1>4
<1>6. DOMAIN Written = 0 .. n
      /\ \A p \in 0 .. n : Written[p] = IF p = 0 THEN zero ELSE AfterPage(Written[p - 1])
  <2> HIDE DEF n, zero
  <2> QED
    BY <1>5
<1>7. \A p \in 1 .. n : p \in 0 .. n /\ p # 0
  BY <1>1
<1>8. Written[0] = zero /\ \A p \in 1 .. n : Written[p] = AfterPage(Written[p - 1])
  <2>1. 0 \in 0 .. n
    BY <1>1
  <2> HIDE DEF n, zero
  <2> QED
    BY <1>6, <1>7, <2>1
<1>9. \A p \in 0 .. n : Written[p] \in Printable
  <2> DEFINE T == {p \in Nat : Written[p] \in Printable}
  <2>1. 0 \in T
    BY <1>2, <1>8
  <2>2. ASSUME NEW p \in 0 .. n - 1, p \in T PROVE p + 1 \in T
    <3>1. p + 1 \in 1 .. n /\ (p + 1) - 1 = p /\ p + 1 \in Nat
      BY <1>1
    <3>2. Written[p + 1] = AfterPage(Written[p]) /\ Written[p] \in Printable
      BY <1>8, <2>2, <3>1
    <3>3. AfterPage(Written[p]) \in Printable
      BY <3>2, OnPage
    <3> QED
      BY <3>1, <3>2, <3>3
  <2>3. 0 .. n \subseteq T
    <3> HIDE DEF T, n
    <3> QED
      BY <1>1, <2>1, <2>2, IntervalInduction
  <2> QED
    BY <2>3
<1>10. Written \in [0 .. n -> Printable]
  <2>1. Written = [p \in 0 .. n |-> Written[p]]
    <3>1. Written = [p \in 0 .. n |-> IF p = 0 THEN zero ELSE AfterPage(Written[p - 1])]
      BY <1>5
    <3> HIDE DEF n, zero
    <3> QED
      BY <1>6, <3>1
  <2> HIDE DEF n
  <2> QED
    BY <1>9, <2>1
<1> QED
  BY <1>8, <1>10

\* All integers are before page 1, and no string is printed twice.
LEMMA WrittenFacts ==
    app \in Apps =>
        /\ \A p \in 0 .. RegionPages :
              /\ Written[p][1] = IF p = 0 THEN 0 ELSE NumInts
              /\ Written[p][2] \in 0 .. NumStrs
        /\ Written[0][2] = 0
        /\ \A p \in 1 .. RegionPages : Written[p - 1][2] <= Written[p][2]
<1> SUFFICES ASSUME app \in Apps
             PROVE  /\ \A p \in 0 .. RegionPages :
                          /\ Written[p][1] = IF p = 0 THEN 0 ELSE NumInts
                          /\ Written[p][2] \in 0 .. NumStrs
                    /\ Written[0][2] = 0
                    /\ \A p \in 1 .. RegionPages : Written[p - 1][2] <= Written[p][2]
  OBVIOUS
<1>1. /\ Written \in [0 .. RegionPages -> Printable] /\ Written[0] = <<0, 0>>
      /\ \A p \in 1 .. RegionPages : Written[p] = AfterPage(Written[p - 1])
  BY WrittenSteps
<1>2. RegionPages \in Nat /\ RegionPages >= 1
  BY AppFacts
<1>3. ASSUME NEW p \in 1 .. RegionPages
      PROVE  Written[p][1] = NumInts /\ Written[p - 1][2] <= Written[p][2]
  <2>1. p - 1 \in 0 .. RegionPages
    BY <1>2
  <2>2. Written[p - 1] \in Printable /\ Written[p] = AfterPage(Written[p - 1])
    BY <1>1, <2>1
  <2> QED
    BY <2>2, OnPage
<1>4. ASSUME NEW p \in 0 .. RegionPages
      PROVE  /\ Written[p][1] = IF p = 0 THEN 0 ELSE NumInts
             /\ Written[p][2] \in 0 .. NumStrs
  <2>1. Written[p] \in Printable
    BY <1>1
  <2>2. p = 0 \/ p \in 1 .. RegionPages
    BY <1>2
  <2>3. Written[p][2] \in 0 .. NumStrs
    BY <2>1 DEF Printable
  <2> QED
    BY <1>1, <1>3, <2>2, <2>3
<1> QED
  BY <1>1, <1>3, <1>4

\* The generated default files are split the way the driver writes its nvm
\* files (generate_params.py, render_default_params), for any parameters.
LEMMA DefaultsSplit == app \in Apps => DefaultsSplitAsWritten
<1> SUFFICES ASSUME app \in Apps PROVE Generated = Written
  BY DEF DefaultsSplitAsWritten
<1> DEFINE n == RegionPages
           Ints(x) == Fitting(0, IntSize, NumInts - x[1])
           Page(x) == <<x[1] + Ints(x),
                        x[2] + (IF x[1] + Ints(x) = NumInts
                                THEN Fitting(IntSize * Ints(x), StrSize, NumStrs - x[2]) ELSE 0)>>
           Def(g) == g = [p \in 0 .. n |-> IF p = 0 THEN <<0, 0>> ELSE Page(g[p - 1])]
<1>1. n \in Nat /\ NumInts \in Nat /\ NumStrs \in Nat
  BY AppFacts
<1>2. ASSUME NEW x \in Printable PROVE Page(x) = AfterPage(x)
  <2>1. /\ x[1] \in Nat /\ x[2] \in Nat /\ NumInts - x[1] \in Nat /\ NumStrs - x[2] \in Nat
        /\ IntsOnPage(x[1]) = NumInts - x[1]
        /\ IntSize * (NumInts - x[1]) \in Nat /\ IntSize * (NumInts - x[1]) <= PageSize
    BY OnPage
  <2>2. Ints(x) = IntsOnPage(x[1])
    <3>1. Ints(x) = Smaller(NumInts - x[1], (PageSize - 0) \div IntSize)
      BY <2>1, Sizes, FittingIsQuotient
    <3>2. PageSize - 0 = PageSize
      BY Sizes
    <3> QED
      BY <3>1, <3>2 DEF IntsOnPage
  <2>3. Fitting(IntSize * Ints(x), StrSize, NumStrs - x[2]) = StrsOnPage(x[1], x[2])
    <3> DEFINE used == IntSize * (NumInts - x[1])
    <3>1. IntSize * Ints(x) = used /\ used \in Nat /\ used <= PageSize
      BY <2>1, <2>2
    <3> HIDE DEF used
    <3>2. Fitting(used, StrSize, NumStrs - x[2])
              = Smaller(NumStrs - x[2], (PageSize - used) \div StrSize)
      BY <2>1, <3>1, Sizes, FittingIsQuotient
    <3> QED
      BY <2>1, <3>1, <3>2 DEF StrsOnPage, used
  <2>4. x[1] + Ints(x) = NumInts
    BY <1>1, <2>1, <2>2
  <2> HIDE DEF Ints
  <2> QED
    BY <2>2, <2>3, <2>4 DEF AfterPage
<1>3. Generated = CHOOSE g : Def(g)
  BY DEF Generated
<1> HIDE DEF Page
<1>4. /\ Written \in [0 .. n -> Printable] /\ Written[0] = <<0, 0>>
      /\ \A p \in 1 .. n : Written[p] = AfterPage(Written[p - 1])
  BY WrittenSteps
<1>5. \A p \in 1 .. n : p \in 0 .. n /\ p - 1 \in 0 .. n /\ p # 0
  BY <1>1
<1>6. \A p \in 0 .. n : p = 0 \/ p \in 1 .. n
  BY <1>1
<1>7. Def(Written)
  <2>1. \A p \in 0 .. n : Written[p] = IF p = 0 THEN <<0, 0>> ELSE Page(Written[p - 1])
    BY <1>2, <1>4, <1>5, <1>6
  <2>2. Written = [p \in 0 .. n |-> Written[p]]
    BY <1>4
  <2> HIDE DEF n
  <2> QED
    BY <2>1, <2>2
<1>8. Def(Generated)
  <2> HIDE DEF Def
  <2> QED
    BY <1>3, <1>7
<1>9. \A p \in 0 .. n : Generated[p] = IF p = 0 THEN <<0, 0>> ELSE Page(Generated[p - 1])
  <2> HIDE DEF n
  <2> QED
    BY <1>8
<1>10. \A p \in 0 .. n : Generated[p] = Written[p]
  <2> DEFINE T == {p \in Nat : Generated[p] = Written[p]}
  <2>1. 0 \in T
    BY <1>1, <1>4, <1>9
  <2>2. ASSUME NEW p \in 0 .. n - 1, p \in T PROVE p + 1 \in T
    <3>1. p + 1 \in 1 .. n /\ (p + 1) - 1 = p /\ p + 1 \in Nat /\ p \in 0 .. n
      BY <1>1
    <3>2. Generated[p + 1] = Page(Generated[p])
      BY <1>5, <1>9, <3>1
    <3>3. Written[p + 1] = Page(Written[p])
      BY <1>2, <1>4, <3>1
    <3> QED
      BY <2>2, <3>1, <3>2, <3>3
  <2>3. 0 .. n \subseteq T
    <3> HIDE DEF T, n
    <3> QED
      BY <1>1, <2>1, <2>2, IntervalInduction
  <2> QED
    BY <2>3
<1>11. Generated = [p \in 0 .. n |-> Generated[p]]
  <2>1. Generated = [p \in 0 .. n |-> IF p = 0 THEN <<0, 0>> ELSE Page(Generated[p - 1])]
    BY <1>8
  <2> HIDE DEF n
  <2> QED
    BY <1>9, <2>1
<1>12. Written = [p \in 0 .. n |-> Written[p]]
  BY <1>4
<1> HIDE DEF n
<1> QED
  BY <1>10, <1>11, <1>12

----------------------------------------------------------------------------
(* What a page file holds                                                  *)

\* A file that was read or generated holds no quotation mark inside a string.
Unquoted == Strings \ {QuotedStr}
FileContent == [ints : Seq(Int), strs : Seq(Unquoted)]

LEMMA AsReadFacts ==
    /\ {"", "torn", NamedStr} \subseteq Unquoted
    /\ \A s \in Strings : AsRead(s) \in Unquoted
    /\ \A s \in Unquoted : AsRead(s) = s
<1>1. QuotedStr \notin {"", "torn", NamedStr}
  BY SitlAssumption, Zenon
<1>2. {"", "torn", NamedStr} \subseteq Strings
  BY DEF Strings
<1> QED
  BY <1>1, <1>2 DEF Unquoted, AsRead

LEMMA FileContentIsContent == \A c \in FileContent : c \in Content /\ c # NoFile
<1> SUFFICES ASSUME NEW c \in FileContent PROVE c \in Content /\ c # NoFile
  OBVIOUS
<1>1. c = [ints |-> c.ints, strs |-> c.strs] /\ c.ints \in Seq(Int) /\ c.strs \in Seq(Unquoted)
  BY DEF FileContent
<1>2. c.strs \in Seq(Strings)
  BY <1>1, SeqMonotonic DEF Unquoted
<1>3. c \in Content
  BY <1>1, <1>2 DEF Content
<1>4. NoFile \notin Content
  BY SitlAssumption, Zenon
<1> QED
  BY <1>3, <1>4

LEMMA PrintedFacts ==
    \A c \in Content :
        /\ Printed(c) \in FileContent /\ Printed(c).ints = c.ints
        /\ Len(Printed(c).strs) = Len(c.strs) /\ DOMAIN Printed(c).strs = 1 .. Len(c.strs)
        /\ \A j \in 1 .. Len(c.strs) : Printed(c).strs[j] = AsRead(c.strs[j])
        /\ c \in FileContent => Printed(c) = c
<1> SUFFICES ASSUME NEW c \in Content
             PROVE  /\ Printed(c) \in FileContent /\ Printed(c).ints = c.ints
                    /\ Len(Printed(c).strs) = Len(c.strs)
                    /\ DOMAIN Printed(c).strs = 1 .. Len(c.strs)
                    /\ \A j \in 1 .. Len(c.strs) : Printed(c).strs[j] = AsRead(c.strs[j])
                    /\ c \in FileContent => Printed(c) = c
  OBVIOUS
<1> DEFINE n == Len(c.strs)
           q == [j \in 1 .. n |-> AsRead(c.strs[j])]
<1>1. c = [ints |-> c.ints, strs |-> c.strs] /\ c.ints \in Seq(Int) /\ c.strs \in Seq(Strings)
  BY DEF Content
<1>2. n \in Nat /\ DOMAIN c.strs = 1 .. n /\ c.strs = [j \in 1 .. n |-> c.strs[j]]
      /\ \A j \in 1 .. n : c.strs[j] \in Strings
  BY <1>1
<1>3. Printed(c) = [ints |-> c.ints, strs |-> q]
  <2>1. Printed(c) = [c EXCEPT !.strs = q]
    BY <1>2 DEF Printed
  <2> HIDE DEF q
  <2>2. [c EXCEPT !.strs = q] = [ints |-> c.ints, strs |-> q]
    BY <1>1
  <2> QED
    BY <2>1, <2>2
<1>4. q \in [1 .. n -> Unquoted]
  BY <1>2, AsReadFacts
<1>5. q \in Seq(Unquoted) /\ Len(q) = n /\ DOMAIN q = 1 .. n
  <2> HIDE DEF n, q
  <2> QED
    BY <1>2, <1>4, FunctionIsSeq
<1>6. ASSUME c \in FileContent PROVE q = c.strs
  <2>1. c.strs \in Seq(Unquoted)
    BY <1>6 DEF FileContent
  <2>2. \A j \in 1 .. n : c.strs[j] \in Unquoted
    BY <2>1
  <2>3. \A j \in 1 .. n : AsRead(c.strs[j]) = c.strs[j]
    BY <2>2, AsReadFacts
  <2> HIDE DEF n
  <2> QED
    BY <1>2, <2>3
<1>7. \A j \in 1 .. n : q[j] = AsRead(c.strs[j])
  OBVIOUS
<1> HIDE DEF q
<1> QED
  BY <1>1, <1>3, <1>5, <1>6, <1>7 DEF FileContent

\* Page 0 takes all integers, every page the next strings.
LEMMA PageOfFacts ==
    app \in Apps =>
        \A c : IsContent(c) =>
            \A p \in 0 .. RegionPages - 1 :
                /\ PageOf(c, p) \in FileContent
                /\ PageOf(c, p).ints = IF p = 0 THEN c.ints ELSE <<>>
                /\ PageOf(c, p).strs
                       = SubSeq(Printed(c).strs, Written[p][2] + 1, Written[p + 1][2])
<1> SUFFICES ASSUME app \in Apps, NEW c, IsContent(c), NEW p \in 0 .. RegionPages - 1
             PROVE  /\ PageOf(c, p) \in FileContent
                    /\ PageOf(c, p).ints = IF p = 0 THEN c.ints ELSE <<>>
                    /\ PageOf(c, p).strs
                           = SubSeq(Printed(c).strs, Written[p][2] + 1, Written[p + 1][2])
  OBVIOUS
<1> DEFINE i == Written[p][1]
           j == Written[p + 1][1]
           s == Written[p][2]
           t == Written[p + 1][2]
           d == Printed(c)
<1>1. NumInts \in Nat /\ NumStrs \in Nat /\ RegionPages \in Nat
  BY AppFacts
<1>2. c \in Content /\ Len(c.ints) = NumInts /\ Len(c.strs) = NumStrs
  BY DEF IsContent
<1>3. p \in 0 .. RegionPages /\ p + 1 \in 0 .. RegionPages /\ p + 1 # 0
  BY <1>1
<1>4. /\ i = (IF p = 0 THEN 0 ELSE NumInts) /\ j = NumInts
      /\ s \in 0 .. NumStrs /\ t \in 0 .. NumStrs
  BY <1>3, WrittenFacts
<1>5. /\ d.ints = c.ints /\ d.strs \in Seq(Unquoted) /\ Len(d.strs) = NumStrs
      /\ c.ints \in Seq(Int)
  <2>1. d \in FileContent /\ d.ints = c.ints /\ Len(d.strs) = Len(c.strs)
    BY <1>2, PrintedFacts
  <2> HIDE DEF d
  <2> QED
    BY <1>2, <2>1 DEF FileContent, Content
<1>6. PageOf(c, p) = [ints |-> SubSeq(d.ints, i + 1, j), strs |-> SubSeq(d.strs, s + 1, t)]
  BY DEF PageOf, Slice, Printed
<1> HIDE DEF i, j, s, t, d
<1>7. SubSeq(d.strs, s + 1, t) \in Seq(Unquoted)
  BY <1>1, <1>4, <1>5, Part
<1>8. SubSeq(c.ints, i + 1, j) = IF p = 0 THEN c.ints ELSE <<>>
  <2>1. CASE p = 0
    <3>1. i + 1 = 1 /\ j = Len(c.ints)
      BY <1>2, <1>4, <2>1
    <3> QED
      BY <1>5, <2>1, <3>1, SubSeqFull
  <2>2. CASE p # 0
    <3>1. i + 1 \in Int /\ j \in Int /\ j < i + 1
      BY <1>1, <1>4, <2>2
    <3> QED
      BY <2>2, <3>1, SubSeqEmpty
  <2> QED
    BY <2>1, <2>2
<1>9. (IF p = 0 THEN c.ints ELSE <<>>) \in Seq(Int)
  BY <1>5, EmptySeq
<1>10. /\ PageOf(c, p).ints = IF p = 0 THEN c.ints ELSE <<>>
       /\ PageOf(c, p).strs = SubSeq(d.strs, s + 1, t)
  <2> DEFINE a == SubSeq(d.ints, i + 1, j)
             b == SubSeq(d.strs, s + 1, t)
             q == IF p = 0 THEN c.ints ELSE <<>>
  <2>1. a = q
    BY <1>5, <1>8
  <2>2. PageOf(c, p) = [ints |-> a, strs |-> b]
    BY <1>6
  <2> HIDE DEF a, b, q
  <2>3. PageOf(c, p).ints = a /\ PageOf(c, p).strs = b
    BY <2>2
  <2> QED
    BY <2>1, <2>3 DEF b, q
<1>11. PageOf(c, p) \in FileContent
  <2>1. [ints |-> SubSeq(d.ints, i + 1, j), strs |-> SubSeq(d.strs, s + 1, t)] \in FileContent
    BY <1>5, <1>7, <1>8, <1>9 DEF FileContent
  <2> QED
    BY <1>6, <2>1
<1> QED
  BY <1>10, <1>11 DEF d, s, t

LEMMA BlankFacts == app \in Apps => IsContent(Blank) /\ Blank \in FileContent
<1> SUFFICES ASSUME app \in Apps PROVE IsContent(Blank) /\ Blank \in FileContent
  OBVIOUS
<1>1. NumInts \in Nat /\ NumStrs \in Nat
  BY AppFacts
<1>2. [i \in 1 .. NumInts |-> 0] \in [1 .. NumInts -> Int]
      /\ [j \in 1 .. NumStrs |-> ""] \in [1 .. NumStrs -> Unquoted]
  <2>1. "" \in Unquoted
    BY AsReadFacts
  <2>2. [i \in 1 .. NumInts |-> 0] \in [1 .. NumInts -> Int]
    OBVIOUS
  <2>3. [j \in 1 .. NumStrs |-> ""] \in [1 .. NumStrs -> Unquoted]
    BY <2>1, Zenon
  <2> QED
    BY <2>2, <2>3
<1>3. /\ Blank.ints \in Seq(Int) /\ Len(Blank.ints) = NumInts
      /\ Blank.strs \in Seq(Unquoted) /\ Len(Blank.strs) = NumStrs
  BY <1>1, <1>2, FunctionIsSeq DEF Blank
<1>4. Blank \in FileContent
  BY <1>3 DEF FileContent, Blank
<1> QED
  BY <1>3, <1>4, FileContentIsContent DEF IsContent

LEMMA DefaultsFacts == app \in Apps => IsContent(Defaults) /\ Defaults \in FileContent
<1> SUFFICES ASSUME app \in Apps PROVE IsContent(Defaults) /\ Defaults \in FileContent
  OBVIOUS
<1>1. /\ NumInts \in Nat /\ NumStrs \in Nat /\ app.strs \in Seq(Unquoted)
      /\ \A i \in 1 .. NumInts : app.desc[i].def \in Int
  BY AppFacts DEF Unquoted
<1>2. [i \in 1 .. NumInts |-> app.desc[i].def] \in [1 .. NumInts -> Int]
  BY <1>1
<1>3. /\ Defaults.ints \in Seq(Int) /\ Len(Defaults.ints) = NumInts
      /\ Defaults.strs \in Seq(Unquoted) /\ Len(Defaults.strs) = NumStrs
  BY <1>1, <1>2, FunctionIsSeq DEF Defaults, NumStrs
<1>4. Defaults \in FileContent
  BY <1>3 DEF FileContent, Defaults
<1> QED
  BY <1>3, <1>4, FileContentIsContent DEF IsContent

\* A default page holds what the driver would print of the defaults.
LEMMA DefaultPageFacts ==
    app \in Apps => \A p \in 0 .. RegionPages - 1 : DefaultPage(p) = PageOf(Defaults, p)
<1> SUFFICES ASSUME app \in Apps, NEW p \in 0 .. RegionPages - 1
             PROVE  DefaultPage(p) = PageOf(Defaults, p)
  OBVIOUS
<1>1. Generated = Written
  BY DefaultsSplit DEF DefaultsSplitAsWritten
<1>2. Printed(Defaults) = Defaults
  BY DefaultsFacts, PrintedFacts, FileContentIsContent
<1>3. PageOf(Defaults, p) = Slice(Printed(Defaults), Written[p], Written[p + 1])
  BY DEF PageOf, Printed
<1> QED
  BY <1>1, <1>2, <1>3 DEF DefaultPage

LEMMA DefaultPagePlain ==
    app \in Apps => \A p \in 0 .. RegionPages - 1 : DefaultPage(p).strs \in Seq(Plain)
<1> SUFFICES ASSUME app \in Apps, NEW p \in 0 .. RegionPages - 1
             PROVE  DefaultPage(p).strs \in Seq(Plain)
  OBVIOUS
<1> DEFINE s == Written[p][2]
           t == Written[p + 1][2]
<1>1. /\ IsContent(Defaults) /\ Printed(Defaults) = Defaults
      /\ app.strs \in Seq(Plain) /\ Len(app.strs) = NumStrs /\ NumStrs \in Nat
      /\ RegionPages \in Nat
  BY AppFacts, DefaultsFacts, PrintedFacts, FileContentIsContent DEF NumStrs
<1>2. Defaults.strs = app.strs
  BY DEF Defaults
<1>3. DefaultPage(p).strs = SubSeq(app.strs, s + 1, t)
  BY <1>1, <1>2, DefaultPageFacts, PageOfFacts, SMTT(20)
<1>4. s \in 0 .. NumStrs /\ t \in 0 .. NumStrs
  <2>1. p \in 0 .. RegionPages /\ p + 1 \in 0 .. RegionPages
    BY <1>1
  <2> QED
    BY <2>1, WrittenFacts
<1> HIDE DEF s, t
<1>5. s \in Nat /\ t \in Nat /\ t <= Len(app.strs)
  BY <1>1, <1>4
<1> QED
  BY <1>1, <1>3, <1>5, Part

\* What a cut leaves of a page: some of its integers, the last one perhaps
\* with its first digits only.
LEMMA CutsFacts ==
    \A c \in FileContent : \A d \in Cuts(c) :
        /\ d \in FileContent /\ Len(d.ints) <= Len(c.ints)
        /\ \A i \in 1 .. Len(d.ints) : d.ints[i] \in FirstDigits(c.ints[i])
<1> SUFFICES ASSUME NEW c \in FileContent, NEW d \in Cuts(c)
             PROVE  /\ d \in FileContent /\ Len(d.ints) <= Len(c.ints)
                    /\ \A i \in 1 .. Len(d.ints) : d.ints[i] \in FirstDigits(c.ints[i])
  OBVIOUS
<1>1. c.ints \in Seq(Int) /\ c.strs \in Seq(Unquoted) /\ Len(c.ints) \in Nat /\ Len(c.strs) \in Nat
  BY DEF FileContent
<1>2. \A v \in Int : v \in FirstDigits(v) /\ FirstDigits(v) \subseteq Int
  BY DEF FirstDigits
<1>3. ASSUME NEW k \in 0 .. Len(c.ints)
      PROVE  /\ SubSeq(c.ints, 1, k) \in Seq(Int) /\ Len(SubSeq(c.ints, 1, k)) = k
             /\ \A i \in 1 .. k : SubSeq(c.ints, 1, k)[i] \in FirstDigits(c.ints[i])
  <2>1. /\ SubSeq(c.ints, 0 + 1, k) \in Seq(Int)
        /\ Len(SubSeq(c.ints, 0 + 1, k)) = (IF 0 <= k THEN k - 0 ELSE 0)
        /\ \A i \in 1 .. k - 0 : SubSeq(c.ints, 0 + 1, k)[i] = c.ints[0 + i]
    <3>1. 0 \in Nat /\ k \in Nat /\ k <= Len(c.ints)
      BY <1>1
    <3> QED
      BY <1>1, <3>1, Part
  <2>2. /\ SubSeq(c.ints, 1, k) \in Seq(Int) /\ Len(SubSeq(c.ints, 1, k)) = k
        /\ \A i \in 1 .. k : SubSeq(c.ints, 1, k)[i] = c.ints[i]
    BY <1>1, <2>1
  <2>3. \A i \in 1 .. k : c.ints[i] \in Int
    BY <1>1
  <2> QED
    BY <1>2, <2>2, <2>3
<1>4. ASSUME NEW k \in 0 .. Len(c.strs) - 1
      PROVE  /\ SubSeq(c.strs, 1, k) \in Seq(Unquoted)
             /\ \A t \in CutStrs(c.strs[k + 1]) : Append(SubSeq(c.strs, 1, k), t) \in Seq(Unquoted)
  <2>1. 0 + 1 = 1 /\ 0 \in Nat /\ k \in Nat /\ k <= Len(c.strs)
    BY <1>1
  <2>2. SubSeq(c.strs, 1, k) \in Seq(Unquoted)
    BY <1>1, <2>1, Part
  <2>3. \A s : CutStrs(s) \subseteq Unquoted
    BY AsReadFacts DEF CutStrs
  <2> QED
    BY <2>2, <2>3, AppendProperties
<1>8. <<>> \in Seq(Unquoted) /\ <<"">> \in Seq(Unquoted) /\ <<"torn">> \in Seq(Unquoted)
  <2>1. {"", "torn"} \subseteq Unquoted
    BY AsReadFacts
  <2>2. <<"">> \in Seq(Unquoted) /\ <<"torn">> \in Seq(Unquoted)
    BY <2>1, SingleIsSeq, Zenon
  <2>3. <<>> \in Seq(Unquoted)
    BY EmptySeq, Zenon
  <2> QED
    BY <2>2, <2>3, Zenon
<1>9. \A k \in 0 .. Len(c.ints) - 1 : k \in 0 .. Len(c.ints) /\ k <= Len(c.ints)
  BY <1>1
<1>5. ASSUME NEW s \in Seq(Unquoted),
             \E k \in 0 .. Len(c.ints) - 1 : d = [ints |-> SubSeq(c.ints, 1, k), strs |-> s]
      PROVE  /\ d \in FileContent /\ Len(d.ints) <= Len(c.ints)
             /\ \A i \in 1 .. Len(d.ints) : d.ints[i] \in FirstDigits(c.ints[i])
  <2>1. PICK k \in 0 .. Len(c.ints) - 1 : d = [ints |-> SubSeq(c.ints, 1, k), strs |-> s]
    BY <1>5
  <2> DEFINE q == SubSeq(c.ints, 1, k)
  <2>4. q \in Seq(Int) /\ Len(q) = k /\ \A i \in 1 .. k : q[i] \in FirstDigits(c.ints[i])
    BY <1>3, <1>9, Zenon
  <2>5. d.ints = q /\ d = [ints |-> q, strs |-> s]
    BY <2>1
  <2> HIDE DEF q
  <2>6. k <= Len(c.ints)
    BY <1>9, Zenon
  <2>7. [ints |-> q, strs |-> s] \in FileContent
    BY <2>4, Zenon DEF FileContent
  <2> QED
    BY <2>4, <2>5, <2>6, <2>7, Zenon
<1>6. CASE \E k \in 0 .. Len(c.ints) - 1 : \E z \in FirstDigits(c.ints[k + 1]) :
              d = [ints |-> Append(SubSeq(c.ints, 1, k), z), strs |-> <<>>]
  <2>0. PICK k \in 0 .. Len(c.ints) - 1 :
            \E z \in FirstDigits(c.ints[k + 1]) :
                d = [ints |-> Append(SubSeq(c.ints, 1, k), z), strs |-> <<>>]
    BY <1>6
  <2>1. PICK z \in FirstDigits(c.ints[k + 1]) :
            d = [ints |-> Append(SubSeq(c.ints, 1, k), z), strs |-> <<>>]
    BY <2>0
  <2>2. k \in 0 .. Len(c.ints) /\ k + 1 \in 1 .. Len(c.ints)
    BY <1>1
  <2>3. z \in Int
    BY <1>1, <1>2, <2>2
  <2> DEFINE q == SubSeq(c.ints, 1, k)
  <2>4. q \in Seq(Int) /\ Len(q) = k /\ \A i \in 1 .. k : q[i] \in FirstDigits(c.ints[i])
    BY <1>3, <2>2
  <2> HIDE DEF q
  <2>5. /\ Append(q, z) \in Seq(Int) /\ Len(Append(q, z)) = k + 1
        /\ \A i \in 1 .. k : Append(q, z)[i] = q[i]
        /\ Append(q, z)[k + 1] = z
    BY <2>3, <2>4, AppendProperties
  <2>6. \A i \in 1 .. k + 1 : i \in 1 .. k \/ i = k + 1
    BY <2>2
  <2>7. \A i \in 1 .. k + 1 : Append(q, z)[i] \in FirstDigits(c.ints[i])
    BY <2>4, <2>5, <2>6
  <2>8. <<>> \in Seq(Unquoted)
    BY EmptySeq
  <2>9. d.ints = Append(q, z) /\ d = [ints |-> Append(q, z), strs |-> <<>>]
    BY <2>1 DEF q
  <2> QED
    BY <2>2, <2>5, <2>7, <2>8, <2>9 DEF FileContent
<1>7. ASSUME NEW s \in Seq(Unquoted), d = [ints |-> c.ints, strs |-> s]
      PROVE  /\ d \in FileContent /\ Len(d.ints) <= Len(c.ints)
             /\ \A i \in 1 .. Len(d.ints) : d.ints[i] \in FirstDigits(c.ints[i])
  BY <1>1, <1>2, <1>7 DEF FileContent
<1>10. CASE \E k \in 0 .. Len(c.strs) - 1 : d = [ints |-> c.ints, strs |-> SubSeq(c.strs, 1, k)]
  BY <1>4, <1>7, <1>10, Zenon
<1>11. CASE \E k \in 0 .. Len(c.strs) - 1 :
               \E t \in CutStrs(c.strs[k + 1]) :
                  d = [ints |-> c.ints, strs |-> Append(SubSeq(c.strs, 1, k), t)]
  BY <1>4, <1>7, <1>11, Zenon
<1>12. \/ \E k \in 0 .. Len(c.ints) - 1 : \E s \in {<<>>, <<"">>, <<"torn">>} :
              d = [ints |-> SubSeq(c.ints, 1, k), strs |-> s]
       \/ \E k \in 0 .. Len(c.ints) - 1 : \E z \in FirstDigits(c.ints[k + 1]) :
              d = [ints |-> Append(SubSeq(c.ints, 1, k), z), strs |-> <<>>]
       \/ \E k \in 0 .. Len(c.strs) - 1 : d = [ints |-> c.ints, strs |-> SubSeq(c.strs, 1, k)]
       \/ \E k \in 0 .. Len(c.strs) - 1 : \E t \in CutStrs(c.strs[k + 1]) :
              d = [ints |-> c.ints, strs |-> Append(SubSeq(c.strs, 1, k), t)]
  <2> DEFINE I == 0 .. Len(c.ints) - 1
             J == 0 .. Len(c.strs) - 1
             NoNumber(k) == {[ints |-> SubSeq(c.ints, 1, k), strs |-> s] :
                                 s \in {<<>>, <<"">>, <<"torn">>}}
             A == UNION {NoNumber(k) : k \in I}
             OfNumber(k) == {[ints |-> Append(SubSeq(c.ints, 1, k), z), strs |-> <<>>] :
                                 z \in FirstDigits(c.ints[k + 1])}
             B == UNION {OfNumber(k) : k \in I}
             C == {[ints |-> c.ints, strs |-> SubSeq(c.strs, 1, k)] : k \in J}
             OfString(k) == {[ints |-> c.ints, strs |-> Append(SubSeq(c.strs, 1, k), t)] :
                                 t \in CutStrs(c.strs[k + 1])}
             D == UNION {OfString(k) : k \in J}
  <2>1. Cuts(c) = A \cup B \cup C \cup D
    BY Zenon DEF Cuts
  <2>2. d \in A \/ d \in B \/ d \in C \/ d \in D
    <3> HIDE DEF A, B, C, D
    <3> QED
      BY <2>1
  <2>3. d \in A => \E k \in I : d \in NoNumber(k)
    <3> HIDE DEF NoNumber, I
    <3> QED
      BY Zenon
  <2>8. \A k \in I : d \in NoNumber(k) =>
            \E s \in {<<>>, <<"">>, <<"torn">>} :
               d = [ints |-> SubSeq(c.ints, 1, k), strs |-> s]
    BY Zenon
  <2>4. d \in B => \E k \in I : d \in OfNumber(k)
    <3> HIDE DEF OfNumber, I
    <3> QED
      BY Zenon
  <2>5. \A k \in I : d \in OfNumber(k) =>
            \E z \in FirstDigits(c.ints[k + 1]) :
               d = [ints |-> Append(SubSeq(c.ints, 1, k), z), strs |-> <<>>]
    BY Zenon
  <2>6. d \in C => \E k \in J : d = [ints |-> c.ints, strs |-> SubSeq(c.strs, 1, k)]
    BY Zenon
  <2>7. d \in D => \E k \in J : d \in OfString(k)
    <3> HIDE DEF OfString, J
    <3> QED
      BY Zenon
  <2>9. \A k \in J : d \in OfString(k) =>
            \E t \in CutStrs(c.strs[k + 1]) :
               d = [ints |-> c.ints, strs |-> Append(SubSeq(c.strs, 1, k), t)]
    BY Zenon
  <2> HIDE DEF A, B, C, D, NoNumber, OfNumber, OfString
  <2> QED
    BY <2>2, <2>3, <2>4, <2>5, <2>6, <2>7, <2>8, <2>9, Zenon
<1> QED
  BY <1>5, <1>6, <1>8, <1>10, <1>11, <1>12, Zenon
----------------------------------------------------------------------------
(* What the reader takes of the lines of a file                            *)

\* What is read has no string of several lines.
PlainContent == [ints : Seq(Int), strs : Seq(Plain)]

LEMMA LinesFacts ==
    \A s \in Unquoted :
        /\ IntLines(s) \in Seq(Int) /\ StrLines(s) \in Seq(Plain)
        /\ s \in Plain => IntLines(s) = <<>> /\ StrLines(s) = <<s>>
<1> SUFFICES ASSUME NEW s \in Unquoted
             PROVE  /\ IntLines(s) \in Seq(Int) /\ StrLines(s) \in Seq(Plain)
                    /\ s \in Plain => IntLines(s) = <<>> /\ StrLines(s) = <<s>>
  OBVIOUS
<1>1. /\ LineInt \in Int /\ NumberedStr # NamedStr
      /\ {"", "torn"} \cap {QuotedStr, NumberedStr, NamedStr} = {}
  BY SitlAssumption, Zenon
<1>2. {"", "torn"} \subseteq Plain
  BY <1>1 DEF Plain, Strings
<1>3. /\ <<"torn">> \in Seq(Plain) /\ <<"torn", "">> \in Seq(Plain)
      /\ <<LineInt>> \in Seq(Int) /\ <<>> \in Seq(Int)
  <2>1. "" \in Plain /\ "torn" \in Plain
    BY <1>2
  <2> QED
    BY <1>1, <2>1, SingleIsSeq, PairIsSeq, EmptySeq, Zenon
<1>4. s \notin {NumberedStr, NamedStr} => s \in Plain /\ <<s>> \in Seq(Plain)
  BY DEF Plain, Unquoted
<1>5. s \in Plain => s \notin {NumberedStr, NamedStr}
  BY DEF Plain
<1> QED
  BY <1>1, <1>3, <1>4, <1>5 DEF IntLines, StrLines

LEMMA PlainIsContent == PlainContent \subseteq Content /\ PlainContent \subseteq FileContent
<1>1. Plain \subseteq Strings /\ Plain \subseteq Unquoted
  BY DEF Plain, Unquoted
<1>2. Seq(Plain) \subseteq Seq(Strings) /\ Seq(Plain) \subseteq Seq(Unquoted)
  BY <1>1, SeqMonotonic
<1> QED
  BY <1>2 DEF PlainContent, Content, FileContent

\* A string more: the integers that were read before it stay.
LEMMA TakeStrFacts ==
    \A s \in Unquoted : \A x \in PlainContent :
        /\ TakeStr(s)[x] \in PlainContent
        /\ TakeStr(s)[x] = IF Stopped(x) THEN x
                           ELSE [ints |-> x.ints \o IntLines(s), strs |-> x.strs \o StrLines(s)]
        /\ Len(x.ints) <= Len(TakeStr(s)[x].ints)
        /\ \A i \in 1 .. Len(x.ints) : TakeStr(s)[x].ints[i] = x.ints[i]
<1> SUFFICES ASSUME NEW s \in Unquoted, NEW x \in PlainContent
             PROVE  /\ TakeStr(s)[x] \in PlainContent
                    /\ TakeStr(s)[x] = IF Stopped(x) THEN x
                           ELSE [ints |-> x.ints \o IntLines(s), strs |-> x.strs \o StrLines(s)]
                    /\ Len(x.ints) <= Len(TakeStr(s)[x].ints)
                    /\ \A i \in 1 .. Len(x.ints) : TakeStr(s)[x].ints[i] = x.ints[i]
  OBVIOUS
<1> DEFINE a == x.ints
           b == x.strs
           c == IntLines(s)
           d == StrLines(s)
<1>1. a \in Seq(Int) /\ b \in Seq(Plain) /\ c \in Seq(Int) /\ d \in Seq(Plain)
  BY LinesFacts DEF PlainContent
<1>2. x \in Content
  BY PlainIsContent
<1>3. TakeStr(s)[x] = IF Stopped(x) THEN x ELSE [ints |-> a \o c, strs |-> b \o d]
  BY <1>2 DEF TakeStr
<1> HIDE DEF a, b, c, d
<1>4. a \o c \in Seq(Int) /\ b \o d \in Seq(Plain)
  BY <1>1, ConcatProperties
<1>5. Len(a) <= Len(a \o c) /\ \A i \in 1 .. Len(a) : (a \o c)[i] = a[i]
  BY <1>1, ConcatKeepsFirst
<1>6. Len(a) <= Len(a)
  BY <1>1
<1>7. CASE Stopped(x)
  BY <1>3, <1>6, <1>7 DEF a
<1>8. CASE ~Stopped(x)
  <2>1. TakeStr(s)[x] = [ints |-> a \o c, strs |-> b \o d]
    BY <1>3, <1>8
  <2> DEFINE y == TakeStr(s)[x]
  <2>2. y = [ints |-> a \o c, strs |-> b \o d]
    BY <2>1
  <2>7. [ints |-> a \o c, strs |-> b \o d] \in PlainContent
    BY <1>4, Zenon DEF PlainContent
  <2>3. y \in PlainContent
    BY <2>2, <2>7, Zenon
  <2>4. y.ints = a \o c
    BY <2>2
  <2>5. Len(a) <= Len(y.ints) /\ \A i \in 1 .. Len(a) : y.ints[i] = a[i]
    BY <1>5, <2>4, Zenon
  <2> HIDE DEF y
  <2>6. y = IF Stopped(x) THEN x ELSE [ints |-> a \o c, strs |-> b \o d]
    BY <1>8, <2>2
  <2> QED
    BY <2>3, <2>5, <2>6, Zenon DEF y, a, b, c, d
<1> QED
  BY <1>7, <1>8

\* What has been taken after each string.
Takes(f, ints, strs) ==
    /\ f \in [0 .. Len(strs) -> PlainContent]
    /\ f[0] = [ints |-> ints, strs |-> <<>>]
    /\ \A n \in 1 .. Len(strs) : f[n] = TakeStr(strs[n])[f[n - 1]]
    /\ f[Len(strs)] = TakeStrs(ints, strs)

LEMMA TakeSteps ==
    ASSUME NEW ints \in Seq(Int), NEW strs \in Seq(Unquoted)
    PROVE  \E f : Takes(f, ints, strs)
<1> DEFINE m == Len(strs)
           first == [ints |-> ints, strs |-> <<>>]
           Step(n, x) == TakeStr(strs[n])[x]
           G == [n \in Nat |-> [x \in PlainContent |-> IF n \in 1 .. m THEN Step(n, x) ELSE x]]
           Def(w) == w = [n \in 0 .. m |-> IF n = 0 THEN first ELSE Step(n, w[n - 1])]
           W == CHOOSE w : Def(w)
<1>1. m \in Nat /\ \A n \in 1 .. m : strs[n] \in Unquoted
  OBVIOUS
<1>2. first \in PlainContent
  <2>1. <<>> \in Seq(Plain)
    BY EmptySeq
  <2> QED
    BY <2>1 DEF PlainContent
<1>3. \A n \in 1 .. m : \A x \in PlainContent : Step(n, x) \in PlainContent
  BY <1>1, TakeStrFacts
<1> HIDE DEF first, m
<1>4. TakeStrs(ints, strs) = W[m]
  BY DEF TakeStrs, first, m
<1> HIDE DEF Step
<1>5. G \in [Nat -> [PlainContent -> PlainContent]]
  BY <1>3
<1>6. \E f : Def(f)
  <2>1. PICK f \in [0 .. m -> PlainContent] : Iterates(f, first, G, m)
    <3> HIDE DEF G
    <3> QED
      BY <1>1, <1>2, <1>5, Iteration
  <2>2. f[0] = first
    BY <2>1 DEF Iterates
  <2>3. ASSUME NEW n \in 1 .. m PROVE f[n] = Step(n, f[n - 1])
    <3>1. f[n] = G[n][f[n - 1]]
      BY <2>1 DEF Iterates
    <3>2. n \in Nat /\ n - 1 \in 0 .. m
      BY <1>1
    <3>3. f[n - 1] \in PlainContent
      BY <2>1, <3>2
    <3> QED
      BY <3>1, <3>2, <3>3, Zenon
  <2>4. \A n \in 0 .. m : n # 0 => n \in 1 .. m
    BY <1>1
  <2>5. Def(f)
    <3>1. \A n \in 0 .. m : f[n] = IF n = 0 THEN first ELSE Step(n, f[n - 1])
      BY <2>2, <2>3, <2>4
    <3>2. f = [n \in 0 .. m |-> f[n]]
      BY <2>1
    <3> QED
      BY <3>1, <3>2
  <2> HIDE DEF Def
  <2> QED
    BY <2>5
<1>7. Def(W)
  <2> HIDE DEF Def
  <2> QED
    BY <1>6
<1> HIDE DEF W
<1>8. W[0] = first /\ \A n \in 1 .. m : W[n] = Step(n, W[n - 1])
  <2>1. \A n \in 0 .. m : W[n] = IF n = 0 THEN first ELSE Step(n, W[n - 1])
    BY <1>7
  <2>2. 0 \in 0 .. m /\ \A n \in 1 .. m : n \in 0 .. m /\ n # 0
    BY <1>1
  <2> QED
    BY <2>1, <2>2
<1>9. \A n \in 0 .. m : W[n] \in PlainContent
  <2> DEFINE T == {n \in Nat : W[n] \in PlainContent}
  <2>1. 0 \in T
    BY <1>2, <1>8
  <2>2. ASSUME NEW n \in 0 .. m - 1, n \in T PROVE n + 1 \in T
    <3>1. n + 1 \in 1 .. m /\ (n + 1) - 1 = n /\ n + 1 \in Nat
      BY <1>1
    <3>2. W[n + 1] = Step(n + 1, W[n]) /\ W[n] \in PlainContent
      BY <1>8, <2>2, <3>1
    <3> QED
      BY <1>3, <3>1, <3>2
  <2>3. 0 .. m \subseteq T
    <3> HIDE DEF T
    <3> QED
      BY <1>1, <2>1, <2>2, IntervalInduction
  <2> QED
    BY <2>3
<1>10. W \in [0 .. m -> PlainContent]
  <2>1. W = [n \in 0 .. m |-> W[n]]
    <3>1. DOMAIN W = 0 .. m
      BY <1>7
    <3>2. W = [n \in DOMAIN W |-> W[n]]
      BY <1>7
    <3> QED
      BY <3>1, <3>2
  <2> QED
    BY <1>9, <2>1
<1>11. Takes(W, ints, strs)
  BY <1>4, <1>8, <1>10 DEF Takes, Step, first, m
<1> QED
  BY <1>11

\* The integers of page 0 come first, whatever the strings are.
LEMMA TakeFacts ==
    ASSUME NEW ints \in Seq(Int), NEW strs \in Seq(Unquoted)
    PROVE  /\ TakeStrs(ints, strs) \in PlainContent
           /\ Len(ints) <= Len(TakeStrs(ints, strs).ints)
           /\ \A i \in 1 .. Len(ints) : TakeStrs(ints, strs).ints[i] = ints[i]
<1> DEFINE m == Len(strs)
<1>1. m \in Nat /\ \A n \in 1 .. m : strs[n] \in Unquoted
  OBVIOUS
<1>2. PICK f : Takes(f, ints, strs)
  BY TakeSteps
<1> DEFINE Keeps(x) == /\ x \in PlainContent /\ Len(ints) <= Len(x.ints)
                       /\ \A i \in 1 .. Len(ints) : x.ints[i] = ints[i]
           T == {n \in Nat : Keeps(f[n])}
<1>3. 0 \in T
  <2>1. f[0] = [ints |-> ints, strs |-> <<>>] /\ f[0] \in PlainContent
    BY <1>1, <1>2 DEF Takes
  <2>2. f[0].ints = ints /\ Len(ints) <= Len(ints)
    BY <2>1
  <2> QED
    BY <2>1, <2>2
<1>4. ASSUME NEW n \in 0 .. m - 1, n \in T PROVE n + 1 \in T
  <2>1. n + 1 \in 1 .. m /\ (n + 1) - 1 = n /\ n + 1 \in Nat
    BY <1>1
  <2> DEFINE x == f[n]
             y == TakeStr(strs[n + 1])[x]
  <2>2. f[n + 1] = y
    BY <1>2, <2>1 DEF Takes
  <2>3. Keeps(x)
    BY <1>4
  <2>4. /\ y \in PlainContent /\ Len(x.ints) <= Len(y.ints)
        /\ \A i \in 1 .. Len(x.ints) : y.ints[i] = x.ints[i]
    BY <1>1, <2>1, <2>3, TakeStrFacts
  <2> HIDE DEF x, y
  <2>5. Len(ints) \in Nat /\ Len(x.ints) \in Nat /\ Len(y.ints) \in Nat
    BY <2>3, <2>4 DEF PlainContent
  <2>6. Keeps(y)
    BY <2>3, <2>4, <2>5
  <2> QED
    BY <2>1, <2>2, <2>6
<1>5. 0 .. m \subseteq T
  <2> HIDE DEF T, m
  <2> QED
    BY <1>1, <1>3, <1>4, IntervalInduction
<1>6. Keeps(f[m])
  <2>1. m \in T
    BY <1>1, <1>5
  <2> QED
    BY <2>1
<1> QED
  BY <1>2, <1>6 DEF Takes

\* Strings of one line are taken as they are, as far as there is room.
LEMMA PlainTaken ==
    ASSUME app \in Apps, NEW ints \in Seq(Int), NEW strs \in Seq(Plain)
    PROVE  /\ TakeStrs(ints, strs).ints = ints
           /\ Len(TakeStrs(ints, strs).strs)
                  = IF Len(ints) > NumInts THEN 0 ELSE Smaller(Len(strs), NumStrs)
           /\ \A j \in 1 .. Len(TakeStrs(ints, strs).strs) : TakeStrs(ints, strs).strs[j] = strs[j]
<1> DEFINE m == Len(strs)
           Full(n) == IF Len(ints) > NumInts THEN 0 ELSE Smaller(n, NumStrs)
<1>1. /\ m \in Nat /\ NumInts \in Nat /\ NumStrs \in Nat /\ Len(ints) \in Nat
      /\ \A n \in 1 .. m : strs[n] \in Plain /\ strs[n] \in Unquoted
  <2>1. \A n \in 1 .. m : strs[n] \in Plain
    OBVIOUS
  <2>2. Plain \subseteq Unquoted
    BY DEF Plain, Unquoted
  <2> QED
    BY <2>1, <2>2, AppFacts
<1>2. strs \in Seq(Unquoted)
  <2>1. Plain \subseteq Unquoted
    BY DEF Plain, Unquoted
  <2> QED
    BY <2>1, SeqMonotonic
<1>3. PICK f : Takes(f, ints, strs)
  BY <1>2, TakeSteps
<1> DEFINE Taken(x, n) == /\ x \in PlainContent /\ x.ints = ints /\ Len(x.strs) = Full(n)
                          /\ \A j \in 1 .. Full(n) : x.strs[j] = strs[j]
           T == {n \in Nat : Taken(f[n], n)}
<1>4. 0 \in T
  <2>1. f[0] = [ints |-> ints, strs |-> <<>>] /\ f[0] \in PlainContent
    BY <1>1, <1>3, SMTT(30) DEF Takes
  <2>2. Full(0) = 0
    BY <1>1 DEF Smaller
  <2>3. f[0].ints = ints /\ f[0].strs = <<>>
    BY <2>1
  <2> HIDE DEF Full
  <2> QED
    BY <2>1, <2>2, <2>3
<1>5. ASSUME NEW n \in 0 .. m - 1, n \in T PROVE n + 1 \in T
  <2>1. n + 1 \in 1 .. m /\ (n + 1) - 1 = n /\ n + 1 \in Nat /\ n \in Nat
    BY <1>1
  <2> DEFINE x == f[n]
             s == strs[n + 1]
             y == TakeStr(s)[x]
  <2>2. f[n + 1] = y
    BY <1>3, <2>1 DEF Takes
  <2>3. Taken(x, n)
    BY <1>5
  <2>4. s \in Plain /\ s \in Unquoted
    BY <1>1, <2>1
  <2>5. /\ y \in PlainContent
        /\ y = IF Stopped(x) THEN x
               ELSE [ints |-> x.ints \o IntLines(s), strs |-> x.strs \o StrLines(s)]
    BY <2>3, <2>4, TakeStrFacts
  <2>6. IntLines(s) = <<>> /\ StrLines(s) = <<s>>
    BY <2>4, LinesFacts
  <2> HIDE DEF x, y
  <2>7. Full(n) \in Nat /\ x.strs \in Seq(Plain)
    BY <1>1, <2>1, <2>3 DEF Smaller, PlainContent
  <2>8. CASE Stopped(x)
    <3>1. Len(ints) > NumInts \/ Full(n) >= NumStrs
      BY <2>3, <2>8 DEF Stopped
    <3>2. Full(n + 1) = Full(n)
      BY <1>1, <2>1, <3>1 DEF Smaller
    <3>3. y = x
      BY <2>5, <2>8
    <3> HIDE DEF Full
    <3>4. Taken(y, n + 1)
      BY <2>3, <3>2, <3>3
    <3> QED
      BY <2>1, <2>2, <3>4
  <2>9. CASE ~Stopped(x)
    <3>1. ~(Len(ints) > NumInts) /\ ~(Full(n) >= NumStrs)
      BY <2>3, <2>9 DEF Stopped
    <3>2. Full(n) = n /\ Full(n + 1) = n + 1
      BY <1>1, <2>1, <3>1 DEF Smaller
    <3> HIDE DEF Full
    <3>3. y = [ints |-> x.ints \o <<>>, strs |-> x.strs \o <<s>>]
      BY <2>5, <2>6, <2>9
    <3>4. x.ints \o <<>> = ints
      BY <2>3
    <3> DEFINE q == x.strs
    <3>5. q \in Seq(Plain) /\ Len(q) = n /\ \A j \in 1 .. n : q[j] = strs[j]
      BY <2>3, <2>7, <3>2
    <3>9. y.ints = ints /\ y.strs = q \o <<s>>
      BY <3>3, <3>4
    <3> HIDE DEF q, s
    <3>6. /\ Len(q \o <<s>>) = n + 1 /\ (q \o <<s>>)[n + 1] = s
          /\ \A j \in 1 .. n : (q \o <<s>>)[j] = q[j]
      BY <2>4, <3>5, AddedLast
    <3>7. \A j \in 1 .. n + 1 : (q \o <<s>>)[j] = strs[j]
      <4>1. \A j \in 1 .. n + 1 : j \in 1 .. n \/ j = n + 1
        BY <2>1
      <4> QED
        BY <3>5, <3>6, <4>1 DEF s
    <3>8. Taken(y, n + 1)
      BY <2>5, <3>2, <3>6, <3>7, <3>9
    <3> QED
      BY <2>1, <2>2, <3>8
  <2> QED
    BY <2>8, <2>9
<1>6. 0 .. m \subseteq T
  <2> HIDE DEF T, m
  <2> QED
    BY <1>1, <1>4, <1>5, IntervalInduction
<1>7. Taken(f[m], m)
  <2>1. m \in T
    BY <1>1, <1>6
  <2> QED
    BY <2>1
<1>8. f[m] = TakeStrs(ints, strs)
  BY <1>3 DEF Takes
<1> HIDE DEF Full
<1>9. Taken(TakeStrs(ints, strs), m)
  BY <1>7, <1>8
<1> QED
  BY <1>9 DEF Full

----------------------------------------------------------------------------
(* Reading                                                                 *)

\* Only page 0 has integers, and no file a quotation mark inside a string.
FilesTyped(files) ==
    /\ files \in [AllPages -> FileContent \cup {NoFile}]
    /\ \A p \in AllPages : p # 0 /\ files[p] # NoFile => files[p].ints = <<>>

LEMMA PageFileFacts ==
    app \in Apps =>
        \A files : FilesTyped(files) =>
            \A p \in 0 .. RegionPages - 1 : PageFile(files, p) # NoFile =>
                /\ PageFile(files, p) \in FileContent
                /\ p # 0 => PageFile(files, p).ints = <<>>
<1> SUFFICES ASSUME app \in Apps, NEW files, FilesTyped(files),
                    NEW p \in 0 .. RegionPages - 1, PageFile(files, p) # NoFile
             PROVE  /\ PageFile(files, p) \in FileContent
                    /\ p # 0 => PageFile(files, p).ints = <<>>
  OBVIOUS
<1>1. p \in AllPages
  BY AppFacts
<1>2. CASE files[p] # NoFile
  BY <1>1, <1>2, Zenon DEF PageFile, FilesTyped
<1>3. CASE files[p] = NoFile
  <2>1. PageFile(files, p) = PageOf(Defaults, p)
    BY <1>3, DefaultPageFacts, Zenon DEF PageFile
  <2>2. IsContent(Defaults)
    BY DefaultsFacts
  <2>3. PageOf(Defaults, p) \in FileContent
    BY <2>2, PageOfFacts, Zenon
  <2>4. p # 0 => PageOf(Defaults, p).ints = <<>>
    BY <2>2, PageOfFacts
  <2> QED
    BY <2>1, <2>3, <2>4, Zenon
<1> QED
  BY <1>2, <1>3

\* The reader takes the pages before the first one it cannot open.
LEMMA PagesReadFacts ==
    app \in Apps =>
        \A files : \E n \in 0 .. RegionPages :
            /\ PagesRead(files) = [k \in 1 .. n |-> PageFile(files, k - 1)]
            /\ \A p \in 0 .. n - 1 : PageFile(files, p) # NoFile
            /\ n = RegionPages \/ PageFile(files, n) = NoFile
<1> SUFFICES ASSUME app \in Apps, NEW files
             PROVE  \E n \in 0 .. RegionPages :
                        /\ PagesRead(files) = [k \in 1 .. n |-> PageFile(files, k - 1)]
                        /\ \A p \in 0 .. n - 1 : PageFile(files, p) # NoFile
                        /\ n = RegionPages \/ PageFile(files, n) = NoFile
  OBVIOUS
<1> DEFINE m == RegionPages
           F(p) == PageFile(files, p)
           T == {p \in Nat : p = m \/ F(p) = NoFile}
           opened == {l \in 0 .. m : \A p \in 0 .. l - 1 : F(p) # NoFile}
           k == CHOOSE x \in opened : \A l \in opened : l <= x
<1>1. m \in Nat
  BY AppFacts
<1>2. PagesRead(files) = [j \in 1 .. k |-> F(j - 1)]
  BY DEF PagesRead
<1> HIDE DEF F, m
<1>3. T # {} /\ T \subseteq Nat
  BY <1>1
<1>4. PICK n \in T : \A l \in T : n <= l
  <2> HIDE DEF T
  <2> QED
    BY <1>3, LeastNat
<1>5. n \in 0 .. m /\ (n = m \/ F(n) = NoFile)
  <2>1. m \in T
    BY <1>1
  <2> QED
    BY <1>1, <1>4, <2>1
<1>6. \A p \in 0 .. n - 1 : F(p) # NoFile
  <2> TAKE p \in 0 .. n - 1
  <2>1. p \in Nat /\ ~(n <= p)
    BY <1>5
  <2>2. p \notin T
    BY <1>4, <2>1
  <2> QED
    BY <2>1, <2>2
<1>7. n \in opened
  BY <1>5, <1>6
<1>8. \A l \in opened : l <= n
  <2> SUFFICES ASSUME NEW l \in opened, ~(l <= n) PROVE FALSE
    OBVIOUS
  <2>1. l \in 0 .. m /\ n \in 0 .. l - 1
    BY <1>1, <1>5
  <2>2. F(n) # NoFile /\ n # m
    BY <1>1, <2>1
  <2> QED
    BY <1>5, <2>2
<1>9. opened \subseteq Nat
  BY <1>1
<1>10. k = n
  <2>1. k \in opened /\ \A l \in opened : l <= k
    <3> HIDE DEF opened
    <3> QED
      BY <1>7, <1>8
  <2>2. k \in Nat /\ k <= n /\ n <= k
    <3> HIDE DEF opened, k
    <3> QED
      BY <1>7, <1>8, <1>9, <2>1
  <2> HIDE DEF k
  <2> QED
    BY <1>5, <2>2
<1> HIDE DEF k
<1> QED
  BY <1>2, <1>5, <1>6, <1>10 DEF F, m

\* What the reader finds on all pages.
IntsRead(files) == FlattenSeq([k \in DOMAIN PagesRead(files) |-> PagesRead(files)[k].ints])
StrsRead(files) == FlattenSeq([k \in DOMAIN PagesRead(files) |-> PagesRead(files)[k].strs])

\* The reader took n pages, with these integers and strings.
PagesHave(files, n, ints, strs) ==
    /\ ints \in Seq(Seq(Int)) /\ Len(ints) = n /\ IntsRead(files) = FlattenSeq(ints)
    /\ strs \in Seq(Seq(Unquoted)) /\ Len(strs) = n /\ StrsRead(files) = FlattenSeq(strs)
    /\ \A k \in 1 .. n : /\ PageFile(files, k - 1) # NoFile
                         /\ ints[k] = PageFile(files, k - 1).ints
                         /\ strs[k] = PageFile(files, k - 1).strs
                         /\ k # 1 => ints[k] = <<>>
    /\ n = RegionPages \/ PageFile(files, n) = NoFile

LEMMA ReadPages ==
    app \in Apps =>
        \A files : FilesTyped(files) =>
            \E n \in 0 .. RegionPages : \E ints, strs : PagesHave(files, n, ints, strs)
<1> SUFFICES ASSUME app \in Apps, NEW files, FilesTyped(files)
             PROVE  \E n \in 0 .. RegionPages : \E ints, strs : PagesHave(files, n, ints, strs)
  OBVIOUS
<1> DEFINE F(p) == PageFile(files, p)
<1>1. RegionPages \in Nat /\ RegionPages >= 1
  BY AppFacts
<1>2. PICK n \in 0 .. RegionPages :
         /\ PagesRead(files) = [k \in 1 .. n |-> F(k - 1)]
         /\ \A p \in 0 .. n - 1 : F(p) # NoFile
         /\ n = RegionPages \/ F(n) = NoFile
  BY PagesReadFacts
<1> DEFINE ints == [k \in 1 .. n |-> F(k - 1).ints]
           strs == [k \in 1 .. n |-> F(k - 1).strs]
<1>3. n \in Nat
  BY <1>1
<1>4. IntsRead(files) = FlattenSeq(ints) /\ StrsRead(files) = FlattenSeq(strs)
  <2>1. DOMAIN PagesRead(files) = 1 .. n /\ \A k \in 1 .. n : PagesRead(files)[k] = F(k - 1)
    BY <1>2
  <2> HIDE DEF F
  <2>2. [k \in DOMAIN PagesRead(files) |-> PagesRead(files)[k].ints] = ints
    BY <2>1
  <2>3. [k \in DOMAIN PagesRead(files) |-> PagesRead(files)[k].strs] = strs
    BY <2>1
  <2> QED
    BY <2>2, <2>3 DEF IntsRead, StrsRead
<1>5. ASSUME NEW k \in 1 .. n
      PROVE  /\ F(k - 1).ints \in Seq(Int) /\ F(k - 1).strs \in Seq(Unquoted)
             /\ k # 1 => F(k - 1).ints = <<>>
  <2>1. k - 1 \in 0 .. RegionPages - 1 /\ k - 1 \in 0 .. n - 1 /\ (k # 1 => k - 1 # 0)
    BY <1>1, <1>3
  <2>2. F(k - 1) \in FileContent /\ (k - 1 # 0 => F(k - 1).ints = <<>>)
    <3>1. F(k - 1) # NoFile
      BY <1>2, <2>1, Zenon
    <3> QED
      BY <2>1, <3>1, PageFileFacts, Zenon
  <2> HIDE DEF F
  <2> QED
    BY <2>1, <2>2 DEF FileContent
<1> HIDE DEF F
<1>6. /\ ints \in Seq(Seq(Int)) /\ Len(ints) = n
      /\ strs \in Seq(Seq(Unquoted)) /\ Len(strs) = n
  <2>1. ints \in [1 .. n -> Seq(Int)] /\ strs \in [1 .. n -> Seq(Unquoted)]
    BY <1>5
  <2> HIDE DEF ints, strs
  <2> QED
    BY <1>3, <2>1, FunctionIsSeq
<1>7. \A k \in 1 .. n : k - 1 \in 0 .. n - 1
  BY <1>3
<1>8. \A k \in 1 .. n : ints[k] = F(k - 1).ints /\ strs[k] = F(k - 1).strs
  OBVIOUS
<1>9. \A k \in 1 .. n : F(k - 1) # NoFile
  BY <1>2, <1>7
<1> HIDE DEF ints, strs
<1>10. PagesHave(files, n, ints, strs)
  BY <1>2, <1>4, <1>5, <1>6, <1>8, <1>9 DEF PagesHave, F
<1> QED
  BY <1>10

LEMMA ReadFacts ==
    app \in Apps =>
        \A files : FilesTyped(files) =>
            /\ IntsRead(files)
                   = IF PageFile(files, 0) = NoFile THEN <<>> ELSE PageFile(files, 0).ints
            /\ IntsRead(files) \in Seq(Int) /\ StrsRead(files) \in Seq(Unquoted)
<1> SUFFICES ASSUME app \in Apps, NEW files, FilesTyped(files)
             PROVE  /\ IntsRead(files)
                           = IF PageFile(files, 0) = NoFile THEN <<>> ELSE PageFile(files, 0).ints
                    /\ IntsRead(files) \in Seq(Int) /\ StrsRead(files) \in Seq(Unquoted)
  OBVIOUS
<1>1. RegionPages \in Nat /\ RegionPages >= 1
  BY AppFacts
<1>2. PICK n \in 0 .. RegionPages : \E ints, strs : PagesHave(files, n, ints, strs)
  BY ReadPages
<1>3. PICK ints, strs : PagesHave(files, n, ints, strs)
  BY <1>2
<1>4. IntsRead(files) \in Seq(Int) /\ StrsRead(files) \in Seq(Unquoted)
  BY <1>3, FlattenType DEF PagesHave
<1>5. CASE n = 0
  <2>1. PageFile(files, 0) = NoFile /\ ints = <<>>
    BY <1>1, <1>3, <1>5 DEF PagesHave
  <2> QED
    BY <1>3, <1>4, <2>1, FlattenNone DEF PagesHave
<1>6. CASE n # 0
  <2>1. 1 \in 1 .. n /\ 1 - 1 = 0 /\ \A k \in 2 .. n : k \in 1 .. n /\ k # 1
    BY <1>1, <1>6
  <2>2. PageFile(files, 0) # NoFile /\ ints[1] = PageFile(files, 0).ints
    BY <1>3, <2>1 DEF PagesHave
  <2>3. ints \in Seq(Seq(Int)) /\ Len(ints) = n /\ \A k \in 2 .. n : ints[k] = <<>>
    BY <1>3, <2>1 DEF PagesHave
  <2>4. ints # <<>>
    BY <1>6, <2>3
  <2>5. FlattenSeq(ints) = ints[1]
    BY <2>3, <2>4, FlattenFirst
  <2> QED
    BY <1>3, <1>4, <2>2, <2>5 DEF PagesHave
<1> QED
  BY <1>5, <1>6

LEMMA OverwriteFacts ==
    ASSUME NEW S, NEW old \in Seq(S), NEW new \in Seq(S)
    PROVE  /\ Overwrite(old, new) \in Seq(S) /\ Len(Overwrite(old, new)) = Len(old)
           /\ \A k \in 1 .. Len(old) :
                 Overwrite(old, new)[k] = IF k <= Len(new) THEN new[k] ELSE old[k]
           /\ Overwrite(Overwrite(old, new), new) = Overwrite(old, new)
           /\ Len(new) = Len(old) => Overwrite(old, new) = new
<1> DEFINE n == Len(old)
           q == [k \in 1 .. n |-> IF k <= Len(new) THEN new[k] ELSE old[k]]
<1>1. n \in Nat /\ DOMAIN old = 1 .. n /\ \A k \in 1 .. n : old[k] \in S
  OBVIOUS
<1>2. Overwrite(old, new) = q
  BY <1>1 DEF Overwrite
<1>3. \A k \in 1 .. n : k <= Len(new) => new[k] \in S
  <2> TAKE k \in 1 .. n
  <2> SUFFICES ASSUME k <= Len(new) PROVE new[k] \in S
    OBVIOUS
  <2>1. k \in 1 .. Len(new)
    BY <1>1
  <2> QED
    BY <2>1
<1>4. q \in [1 .. n -> S]
  BY <1>1, <1>3
<1>5. q \in Seq(S) /\ Len(q) = n /\ DOMAIN q = 1 .. n
  <2> HIDE DEF q, n
  <2> QED
    BY <1>1, <1>4, FunctionIsSeq
<1>6. Overwrite(q, new) = q
  <2>1. Overwrite(q, new) = [k \in 1 .. n |-> IF k <= Len(new) THEN new[k] ELSE q[k]]
    <3> HIDE DEF q, n
    <3> QED
      BY <1>5 DEF Overwrite
  <2> QED
    BY <2>1
<1>7. Len(new) = n => q = new
  <2> SUFFICES ASSUME Len(new) = n PROVE q = new
    OBVIOUS
  <2>1. new = [k \in 1 .. n |-> new[k]]
    OBVIOUS
  <2>2. \A k \in 1 .. n : k <= Len(new)
    BY <1>1
  <2> HIDE DEF n
  <2> QED
    BY <2>1, <2>2
<1>8. \A k \in 1 .. n : q[k] = IF k <= Len(new) THEN new[k] ELSE old[k]
  OBVIOUS
<1> HIDE DEF q
<1> QED
  BY <1>2, <1>5, <1>6, <1>7, <1>8

LEMMA SpilledFacts ==
    app \in Apps =>
        \A S : {"", "torn"} \subseteq S => \A v : \A s \in Seq(S) :
            /\ SpilledStrs(s, v) \in Seq(S) /\ Len(SpilledStrs(s, v)) = Len(s)
            /\ SpilledStrs(SpilledStrs(s, v), v) = SpilledStrs(s, v)
<1> SUFFICES ASSUME NEW S, {"", "torn"} \subseteq S, NEW v, NEW s \in Seq(S)
             PROVE  /\ SpilledStrs(s, v) \in Seq(S) /\ Len(SpilledStrs(s, v)) = Len(s)
                    /\ SpilledStrs(SpilledStrs(s, v), v) = SpilledStrs(s, v)
  OBVIOUS
<1> DEFINE e == IF v \in {-1, 0} THEN "" ELSE "torn"
           q == [s EXCEPT ![1] = e]
<1>1. e \in S
  BY Zenon
<1> HIDE DEF e
<1>4. q \in Seq(S) /\ Len(q) = Len(s) /\ [q EXCEPT ![1] = e] = q
  BY <1>1, FirstReplaced, Zenon
<1> DEFINE full == NumStrs > 0 /\ Size(app) = RegionPages * PageSize
<1>5. \A t : SpilledStrs(t, v) = IF full THEN [t EXCEPT ![1] = e] ELSE t
  BY Zenon DEF SpilledStrs, e
<1> HIDE DEF full, q
<1>6. CASE full
  BY <1>4, <1>5, <1>6, Zenon DEF q
<1>7. CASE ~full
  BY <1>5, <1>7
<1> QED
  BY <1>6, <1>7

FirstSet(f, e) == [f EXCEPT ![1] = e]

LEMMA OverwriteSpilled ==
    ASSUME NEW S, NEW q \in Seq(S), NEW b \in Seq(S), NEW e \in S, Overwrite(q, b) = q
    PROVE  FirstSet(Overwrite(FirstSet(q, e), b), e) = FirstSet(q, e)
<1> DEFINE n == Len(q)
           r == FirstSet(q, e)
           x == Overwrite(r, b)
           Written1(f) == [k \in 1 .. n |-> IF k <= Len(b) THEN b[k] ELSE f[k]]
<1>1. q \in [1 .. n -> S] /\ DOMAIN q = 1 .. n
  OBVIOUS
<1>2. r \in [1 .. n -> S] /\ DOMAIN r = 1 .. n
      /\ \A k \in 1 .. n : r[k] = IF k = 1 THEN e ELSE q[k]
  <2> HIDE DEF n
  <2> QED
    BY <1>1 DEF FirstSet
<1> HIDE DEF n, r
<1>3. q = Written1(q) /\ x = Written1(r)
  BY <1>1, <1>2, Zenon DEF Overwrite
<1>4. \A k \in 1 .. n : k <= Len(b) => q[k] = b[k]
  BY <1>3
<1>5. DOMAIN x = 1 .. n /\ \A k \in 1 .. n : k # 1 => x[k] = q[k]
  <2>1. \A k \in 1 .. n : x[k] = IF k <= Len(b) THEN b[k] ELSE r[k]
    BY <1>3
  <2>2. DOMAIN x = 1 .. n
    BY <1>3
  <2> HIDE DEF x
  <2> QED
    BY <1>2, <1>4, <2>1, <2>2
<1> HIDE DEF x
<1>6. [x EXCEPT ![1] = e] = [k \in 1 .. n |-> IF k = 1 THEN e ELSE x[k]]
  BY <1>5
<1>7. [q EXCEPT ![1] = e] = [k \in 1 .. n |-> IF k = 1 THEN e ELSE q[k]]
  BY <1>1
<1> QED
  BY <1>5, <1>6, <1>7 DEF FirstSet, x, r

LEMMA SpilledAgain ==
    app \in Apps =>
        \A S : {"", "torn"} \subseteq S => \A v : \A s, b \in Seq(S) :
            /\ SpilledStrs(Overwrite(s, b), v) \in Seq(S)
            /\ Len(SpilledStrs(Overwrite(s, b), v)) = Len(s)
            /\ SpilledStrs(Overwrite(SpilledStrs(Overwrite(s, b), v), b), v)
                   = SpilledStrs(Overwrite(s, b), v)
<1> SUFFICES ASSUME app \in Apps, NEW S, {"", "torn"} \subseteq S, NEW v,
                    NEW s \in Seq(S), NEW b \in Seq(S)
             PROVE  /\ SpilledStrs(Overwrite(s, b), v) \in Seq(S)
                    /\ Len(SpilledStrs(Overwrite(s, b), v)) = Len(s)
                    /\ SpilledStrs(Overwrite(SpilledStrs(Overwrite(s, b), v), b), v)
                           = SpilledStrs(Overwrite(s, b), v)
  OBVIOUS
<1> DEFINE e == IF v \in {-1, 0} THEN "" ELSE "torn"
           full == NumStrs > 0 /\ Size(app) = RegionPages * PageSize
           q == Overwrite(s, b)
           r == SpilledStrs(q, v)
<1>1. q \in Seq(S) /\ Len(q) = Len(s) /\ Overwrite(q, b) = q
  BY OverwriteFacts
<1> HIDE DEF q
<1>2. r \in Seq(S) /\ Len(r) = Len(s)
  BY <1>1, SpilledFacts
<1>3. \A t : SpilledStrs(t, v) = IF full THEN FirstSet(t, e) ELSE t
  BY Zenon DEF SpilledStrs, FirstSet
<1>4. e \in S
  BY Zenon
<1> HIDE DEF e, full, r
<1>5. CASE full
  <2>1. r = FirstSet(q, e)
    BY <1>3, <1>5 DEF r
  <2> DEFINE x == Overwrite(r, b)
  <2>2. FirstSet(x, e) = r
    <3>1. FirstSet(Overwrite(FirstSet(q, e), b), e) = FirstSet(q, e)
      BY <1>1, <1>4, OverwriteSpilled
    <3> QED
      BY <2>1, <3>1, Zenon
  <2> HIDE DEF x
  <2>3. SpilledStrs(x, v) = r
    BY <1>3, <1>5, <2>1, <2>2, Zenon
  <2> QED
    BY <1>2, <2>3 DEF x, r, q
<1>6. CASE ~full
  <2>1. r = q
    BY <1>3, <1>6 DEF r
  <2> QED
    BY <1>1, <1>2, <1>3, <1>6, <2>1, Zenon DEF r, q
<1> QED
  BY <1>5, <1>6

\* What the reader takes of the lines of all files.
LinesTaken(files) == TakeStrs(IntsRead(files), StrsRead(files))

\* What the strings are then.
StrsTaken(s, taken) ==
    IF Len(taken.ints) > NumInts
    THEN SpilledStrs(Overwrite(s, taken.strs), taken.ints[NumInts + 1])
    ELSE Overwrite(s, taken.strs)

LEMMA ReadByLines ==
    \A files, c :
        ReadFiles(files, c) =
            IF ~FilesUsed THEN c
            ELSE [ints |-> Overwrite(c.ints, LinesTaken(files).ints),
                  strs |-> StrsTaken(c.strs, LinesTaken(files))]
BY Zenon DEF ReadFiles, ReadInts, IntsRead, StrsRead, LinesTaken, StrsTaken

\* The integers of page 0 come first.
LEMMA LinesTakenFacts ==
    app \in Apps =>
        \A files : FilesTyped(files) =>
            /\ LinesTaken(files) \in PlainContent
            /\ Len(IntsRead(files)) <= Len(LinesTaken(files).ints)
            /\ \A i \in 1 .. Len(IntsRead(files)) : LinesTaken(files).ints[i] = IntsRead(files)[i]
BY ReadFacts, TakeFacts, Zenon DEF LinesTaken

\* Reading the files again changes nothing.
LEMMA ReadFilesFacts ==
    app \in Apps =>
        \A files, old : FilesTyped(files) /\ IsContent(old) =>
            /\ IsContent(ReadFiles(files, old))
            /\ old \in FileContent => ReadFiles(files, old) \in FileContent
            /\ \A i \in 1 .. NumInts :
                  ReadFiles(files, old).ints[i] =
                      IF FilesUsed /\ i <= Len(LinesTaken(files).ints)
                      THEN LinesTaken(files).ints[i] ELSE old.ints[i]
            /\ ReadFiles(files, ReadFiles(files, old)) = ReadFiles(files, old)
<1> SUFFICES ASSUME app \in Apps, NEW files, NEW old, FilesTyped(files), IsContent(old)
             PROVE  /\ IsContent(ReadFiles(files, old))
                    /\ old \in FileContent => ReadFiles(files, old) \in FileContent
                    /\ \A i \in 1 .. NumInts :
                          ReadFiles(files, old).ints[i] =
                              IF FilesUsed /\ i <= Len(LinesTaken(files).ints)
                              THEN LinesTaken(files).ints[i] ELSE old.ints[i]
                    /\ ReadFiles(files, ReadFiles(files, old)) = ReadFiles(files, old)
  OBVIOUS
<1>1. CASE ~FilesUsed
  BY <1>1, ReadByLines, Zenon
<1>2. CASE FilesUsed
  <2> DEFINE taken == LinesTaken(files)
             a == taken.ints
             b == taken.strs
             Strs(s) == StrsTaken(s, taken)
             ints == Overwrite(old.ints, a)
             strs == Strs(old.strs)
  <2>1. a \in Seq(Int) /\ b \in Seq(Unquoted) /\ b \in Seq(Strings)
    <3>1. taken \in PlainContent
      BY LinesTakenFacts
    <3>2. taken \in FileContent /\ taken \in Content
      BY <3>1, PlainIsContent
    <3> HIDE DEF taken
    <3> QED
      BY <3>2 DEF FileContent, Content
  <2>2. \A c : ReadFiles(files, c) = [ints |-> Overwrite(c.ints, a), strs |-> Strs(c.strs)]
    BY <1>2, ReadByLines, Zenon
  <2>3. /\ old.ints \in Seq(Int) /\ Len(old.ints) = NumInts
        /\ old.strs \in Seq(Strings) /\ Len(old.strs) = NumStrs
    BY DEF IsContent, Content
  <2> HIDE DEF a, b, taken
  <2>4. /\ ints \in Seq(Int) /\ Len(ints) = NumInts /\ Overwrite(ints, a) = ints
        /\ \A i \in 1 .. NumInts : ints[i] = IF i <= Len(a) THEN a[i] ELSE old.ints[i]
    BY <2>1, <2>3, OverwriteFacts, SMTT(30)
  <2>5. ASSUME NEW S, {"", "torn"} \subseteq S, b \in Seq(S), NEW s \in Seq(S)
        PROVE  Strs(s) \in Seq(S) /\ Len(Strs(s)) = Len(s) /\ Strs(Strs(s)) = Strs(s)
    <3>1. CASE Len(a) > NumInts
      <4>1. \A t : Strs(t) = SpilledStrs(Overwrite(t, b), a[NumInts + 1])
        BY <3>1 DEF StrsTaken, a, b
      <4> HIDE DEF Strs
      <4> QED
        BY <2>5, <4>1, SpilledAgain, ZenonT(40)
    <3>2. CASE ~(Len(a) > NumInts)
      <4>1. \A t : Strs(t) = Overwrite(t, b)
        BY <3>2 DEF StrsTaken, a, b
      <4> HIDE DEF Strs
      <4> QED
        BY <2>5, <4>1, OverwriteFacts, Zenon
    <3> QED
      BY <3>1, <3>2
  <2>6. {"", "torn"} \subseteq Strings /\ {"", "torn"} \subseteq Unquoted
    BY AsReadFacts DEF Strings
  <2> HIDE DEF Strs
  <2>7. strs \in Seq(Strings) /\ Len(strs) = NumStrs /\ Strs(strs) = strs
    BY <2>1, <2>3, <2>5, <2>6
  <2>8. old \in FileContent => strs \in Seq(Unquoted)
    BY <2>1, <2>5, <2>6 DEF FileContent
  <2> HIDE DEF ints, strs
  <2>9. ReadFiles(files, old) = [ints |-> ints, strs |-> strs]
    BY <2>2 DEF ints, strs
  <2>10. ReadFiles(files, old).ints = ints /\ ReadFiles(files, old).strs = strs
    BY <2>9
  <2>11. ReadFiles(files, ReadFiles(files, old)) = ReadFiles(files, old)
    BY <2>2, <2>4, <2>7, <2>9, <2>10
  <2>12. ReadFiles(files, old) \in Content
    BY <2>4, <2>7, <2>9 DEF Content
  <2>13. old \in FileContent => ReadFiles(files, old) \in FileContent
    BY <2>4, <2>8, <2>9 DEF FileContent
  <2> QED
    BY <1>2, <2>4, <2>7, <2>10, <2>11, <2>12, <2>13 DEF IsContent, a, taken
<1> QED
  BY <1>1, <1>2

\* If every string of the files is on one line, no integer comes from one.
LEMMA PlainReads ==
    app \in Apps =>
        \A files : FilesTyped(files) /\ PlainFiles(files) => StrsRead(files) \in Seq(Plain)
<1> SUFFICES ASSUME app \in Apps, NEW files, FilesTyped(files), PlainFiles(files)
             PROVE  StrsRead(files) \in Seq(Plain)
  OBVIOUS
<1>1. PICK n \in 0 .. RegionPages : \E ints, strs : PagesHave(files, n, ints, strs)
  BY ReadPages
<1>2. PICK ints, strs : PagesHave(files, n, ints, strs)
  BY <1>1
<1>3. /\ strs \in Seq(Seq(Unquoted)) /\ Len(strs) = n /\ StrsRead(files) = FlattenSeq(strs)
      /\ \A k \in 1 .. n : /\ PageFile(files, k - 1) # NoFile
                           /\ strs[k] = PageFile(files, k - 1).strs
  BY <1>2 DEF PagesHave
<1>4. ASSUME NEW k \in 1 .. n PROVE strs[k] \in Seq(Plain)
  <2>1. k - 1 \in 0 .. RegionPages - 1
    BY APage
  <2>2. strs[k] \in Seq(Unquoted)
    BY <1>3
  <2>3. CASE files[k - 1] # NoFile
    <3>1. strs[k] = files[k - 1].strs
      BY <1>3, <2>3, Zenon DEF PageFile
    <3>2. \A j \in DOMAIN strs[k] : strs[k][j] \notin {NumberedStr, NamedStr}
      BY <2>1, <2>3, <3>1, Zenon DEF PlainFiles
    <3> QED
      BY <2>2, <3>2, SeqOfSome DEF Plain, Unquoted
  <2>4. CASE files[k - 1] = NoFile
    <3>1. strs[k] = DefaultPage(k - 1).strs
      BY <1>3, <2>4, Zenon DEF PageFile
    <3> QED
      BY <2>1, <3>1, DefaultPagePlain
  <2> QED
    BY <2>3, <2>4
<1>5. strs \in Seq(Seq(Plain))
  BY <1>3, <1>4, SeqOfSome
<1> QED
  BY <1>3, <1>5, FlattenType

LEMMA PlainLines ==
    app \in Apps =>
        \A files : FilesTyped(files) /\ PlainFiles(files) =>
            LET taken == LinesTaken(files)
            IN /\ taken.ints = IntsRead(files)
               /\ Len(taken.strs) = IF Len(IntsRead(files)) > NumInts THEN 0
                                    ELSE Smaller(Len(StrsRead(files)), NumStrs)
               /\ \A j \in 1 .. Len(taken.strs) : taken.strs[j] = StrsRead(files)[j]
<1> SUFFICES ASSUME app \in Apps, NEW files, FilesTyped(files), PlainFiles(files)
             PROVE  LET taken == LinesTaken(files)
                    IN /\ taken.ints = IntsRead(files)
                       /\ Len(taken.strs) = IF Len(IntsRead(files)) > NumInts THEN 0
                                            ELSE Smaller(Len(StrsRead(files)), NumStrs)
                       /\ \A j \in 1 .. Len(taken.strs) : taken.strs[j] = StrsRead(files)[j]
  OBVIOUS
<1>1. IntsRead(files) \in Seq(Int) /\ StrsRead(files) \in Seq(Plain)
  BY ReadFacts, PlainReads, Zenon
<1> DEFINE a == IntsRead(files)
           b == StrsRead(files)
<1>2. LinesTaken(files) = TakeStrs(a, b)
  BY DEF LinesTaken
<1> HIDE DEF a, b
<1>3. a \in Seq(Int) /\ b \in Seq(Plain)
  BY <1>1 DEF a, b
<1> QED
  BY <1>2, <1>3, PlainTaken DEF a, b

\* All pages of a region, if they hold all its parameters.
FilesHold(files, c) ==
    /\ Complete /\ FilesUsed
    /\ \A q \in 0 .. RegionPages - 1 : files[q] = PageOf(c, q)

\* What is written to the files is what is read from them: the integers, and
\* the strings if each of them is on one line.
LEMMA ReadBack ==
    app \in Apps =>
        \A files, c, old :
            FilesTyped(files) /\ IsContent(c) /\ IsContent(old) /\ FilesHold(files, c) =>
                /\ ReadFiles(files, old).ints = c.ints
                /\ PlainFiles(files) => ReadFiles(files, old) = Printed(c)
<1> SUFFICES ASSUME app \in Apps, NEW files, NEW c, NEW old,
                    FilesTyped(files), IsContent(c), IsContent(old), FilesHold(files, c)
             PROVE  /\ ReadFiles(files, old).ints = c.ints
                    /\ PlainFiles(files) => ReadFiles(files, old) = Printed(c)
  OBVIOUS
<1> DEFINE n == RegionPages
           d == Printed(c)
           w == [p \in 0 .. n |-> Written[p][2]]
           ints == [k \in 1 .. n |-> PageOf(c, k - 1).ints]
           strs == [k \in 1 .. n |-> SubSeq(d.strs, w[k - 1] + 1, w[k])]
<1>1. n \in Nat /\ n >= 1 /\ NumInts \in Nat /\ NumStrs \in Nat
  BY AppFacts
<1>2. /\ d \in FileContent /\ d.ints = c.ints
      /\ c.ints \in Seq(Int) /\ Len(c.ints) = NumInts
      /\ d.strs \in Seq(Unquoted) /\ Len(d.strs) = NumStrs
  <2>1. d \in FileContent /\ d.ints = c.ints /\ Len(d.strs) = Len(c.strs)
    BY PrintedFacts DEF IsContent
  <2> HIDE DEF d
  <2> QED
    BY <2>1 DEF IsContent, Content, FileContent
<1>3. ASSUME NEW p \in 0 .. n - 1
      PROVE  PageFile(files, p) = PageOf(c, p) /\ PageOf(c, p) # NoFile
  <2>1. files[p] = PageOf(c, p)
    BY DEF FilesHold
  <2>2. PageOf(c, p) \in FileContent
    BY PageOfFacts
  <2>3. PageOf(c, p) # NoFile
    BY <2>2, FileContentIsContent
  <2> QED
    BY <2>1, <2>3 DEF PageFile
<1>4. PagesRead(files) = [k \in 1 .. n |-> PageOf(c, k - 1)]
  <2>1. PICK m \in 0 .. n :
            /\ PagesRead(files) = [k \in 1 .. m |-> PageFile(files, k - 1)]
            /\ m = n \/ PageFile(files, m) = NoFile
    BY PagesReadFacts, Zenon
  <2>2. m = n
    <3>1. m # n => m \in 0 .. n - 1
      BY <1>1
    <3> QED
      BY <1>3, <2>1, <3>1, Zenon
  <2>3. \A k \in 1 .. n : k - 1 \in 0 .. n - 1
    BY <1>1
  <2>4. \A k \in 1 .. n : PageFile(files, k - 1) = PageOf(c, k - 1)
    BY <1>3, <2>3, Zenon
  <2> HIDE DEF n
  <2> QED
    BY <2>1, <2>2, <2>4
<1>5. ASSUME NEW k \in 1 .. n
      PROVE  /\ PageOf(c, k - 1).ints = IF k = 1 THEN c.ints ELSE <<>>
             /\ PageOf(c, k - 1).strs = SubSeq(d.strs, w[k - 1] + 1, w[k])
  <2>1. k - 1 \in 0 .. n - 1 /\ k - 1 \in 0 .. n /\ k \in 0 .. n /\ (k - 1) + 1 = k
        /\ (k - 1 = 0 <=> k = 1)
    BY <1>1
  <2>2. /\ PageOf(c, k - 1).ints = IF k - 1 = 0 THEN c.ints ELSE <<>>
        /\ PageOf(c, k - 1).strs = SubSeq(d.strs, Written[k - 1][2] + 1, Written[(k - 1) + 1][2])
    BY <2>1, PageOfFacts
  <2> QED
    BY <2>1, <2>2
<1>6. IntsRead(files) = FlattenSeq(ints) /\ StrsRead(files) = FlattenSeq(strs)
  <2> DEFINE pages == [k \in 1 .. n |-> PageOf(c, k - 1)]
  <2>1. DOMAIN pages = 1 .. n /\ \A k \in 1 .. n : pages[k] = PageOf(c, k - 1)
    BY Zenon
  <2> HIDE DEF pages, n, d, w
  <2>2. [k \in DOMAIN pages |-> pages[k].ints] = ints
    BY <2>1
  <2>3. [k \in DOMAIN pages |-> pages[k].strs] = strs
    BY <1>5, <2>1
  <2>4. PagesRead(files) = pages
    BY <1>4 DEF pages
  <2> QED
    BY <2>2, <2>3, <2>4 DEF IntsRead, StrsRead
<1>7. FlattenSeq(ints) = c.ints
  <2>1. ints \in [1 .. n -> Seq(Int)]
    BY <1>2, <1>5, EmptySeq
  <2>2. ints[1] = c.ints /\ \A k \in 2 .. n : ints[k] = <<>>
    <3>1. 1 \in 1 .. n /\ \A k \in 2 .. n : k \in 1 .. n /\ k # 1
      BY <1>1
    <3> QED
      BY <1>5, <3>1
  <2> HIDE DEF ints, n
  <2>3. ints \in Seq(Seq(Int)) /\ Len(ints) = n
    BY <1>1, <2>1, FunctionIsSeq
  <2>4. ints # <<>>
    BY <1>1, <2>3
  <2> QED
    BY <2>2, <2>3, <2>4, FlattenFirst
<1>8. FlattenSeq(strs) = d.strs
  <2>1. /\ w \in [0 .. n -> Nat] /\ w[0] = 0
        /\ \A k \in 1 .. n : w[k - 1] <= w[k] /\ w[k] <= Len(d.strs)
    <3>1. \A p \in 0 .. n : Written[p][2] \in 0 .. NumStrs
      BY WrittenFacts
    <3>2. Written[0][2] = 0 /\ \A k \in 1 .. n : Written[k - 1][2] <= Written[k][2]
      BY WrittenFacts
    <3>3. \A k \in 1 .. n : k \in 0 .. n /\ k - 1 \in 0 .. n
      BY <1>1
    <3>4. 0 \in 0 .. n
      BY <1>1
    <3> HIDE DEF n, d
    <3>5. w \in [0 .. n -> Nat]
      BY <1>1, <3>1
    <3>6. w[0] = 0
      BY <3>2, <3>4
    <3>7. \A k \in 1 .. n : w[k - 1] <= w[k] /\ w[k] <= Len(d.strs)
      BY <1>2, <3>1, <3>2, <3>3
    <3> QED
      BY <3>5, <3>6, <3>7
  <2>2. w[n] = NumStrs
    BY <1>1 DEF FilesHold, Complete
  <2>3. d.strs \in Seq(Unquoted) /\ strs = [k \in 1 .. n |-> SubSeq(d.strs, w[k - 1] + 1, w[k])]
    BY <1>2, Zenon
  <2> HIDE DEF n, d, w, strs
  <2>4. FlattenSeq(strs) = SubSeq(d.strs, 1, w[n])
    <3> DEFINE q == d.strs
    <3>1. /\ n \in Nat /\ n >= 1 /\ w \in [0 .. n -> Nat] /\ w[0] = 0
          /\ \A k \in 1 .. n : w[k - 1] <= w[k] /\ w[k] <= Len(q)
      BY <1>1, <2>1
    <3>2. q \in Seq(Unquoted) /\ \A k \in 1 .. n : strs[k] = SubSeq(q, w[k - 1] + 1, w[k])
      BY <2>3
    <3> HIDE DEF q
    <3>4. strs \in [1 .. n -> Seq(Unquoted)]
      <4>1. \A k \in 1 .. n : w[k - 1] \in Nat /\ w[k] \in Nat
        <5>1. \A k \in 1 .. n : k - 1 \in 0 .. n /\ k \in 0 .. n
          BY <3>1
        <5> QED
          BY <3>1, <5>1
      <4>2. \A k \in 1 .. n : SubSeq(q, w[k - 1] + 1, w[k]) \in Seq(Unquoted)
        BY <3>1, <3>2, <4>1, Part, ZenonT(60)
      <4> QED
        BY <2>3, <4>2 DEF q
    <3>5. strs \in Seq(Seq(Unquoted)) /\ Len(strs) = n
      BY <3>1, <3>4, FunctionIsSeq
    <3>3. FlattenSeq(strs) = SubSeq(q, 1, w[n])
      BY <3>1, <3>2, <3>5, FlattenSlices
    <3> QED
      BY <3>3 DEF q
  <2> QED
    BY <1>2, <2>2, <2>4, SubSeqFull
<1>9. /\ old.ints \in Seq(Int) /\ Len(old.ints) = NumInts
      /\ old.strs \in Seq(Strings) /\ Len(old.strs) = NumStrs
  BY DEF IsContent, Content
<1>10. d.strs \in Seq(Strings)
  <2>1. Unquoted \subseteq Strings
    BY DEF Unquoted
  <2> HIDE DEF d
  <2> QED
    BY <1>2, <2>1, SeqMonotonic
<1> DEFINE taken == LinesTaken(files)
<1>11. /\ IntsRead(files) = c.ints /\ StrsRead(files) = d.strs
       /\ taken.ints \in Seq(Int) /\ taken.strs \in Seq(Strings)
       /\ \A i \in 1 .. NumInts : i <= Len(taken.ints) /\ taken.ints[i] = c.ints[i]
       /\ FilesUsed
  <2>1. IntsRead(files) = c.ints /\ StrsRead(files) = d.strs
    BY <1>6, <1>7, <1>8, Zenon
  <2>2. taken \in Content /\ taken \in PlainContent
    BY LinesTakenFacts, PlainIsContent
  <2>3. taken.ints \in Seq(Int) /\ taken.strs \in Seq(Strings)
    <3> HIDE DEF taken
    <3> QED
      BY <2>2 DEF Content
  <2>4. /\ NumInts <= Len(taken.ints)
        /\ \A i \in 1 .. NumInts : taken.ints[i] = c.ints[i]
    BY <1>2, <2>1, LinesTakenFacts, Zenon
  <2>5. \A i \in 1 .. NumInts : i <= Len(taken.ints)
    <3> HIDE DEF taken
    <3> QED
      BY <1>1, <2>3, <2>4
  <2> QED
    BY <2>1, <2>3, <2>4, <2>5 DEF FilesHold
<1>12. Overwrite(old.ints, taken.ints) = c.ints
  <2> DEFINE a == old.ints
             b == taken.ints
             i == c.ints
             q == Overwrite(a, b)
  <2>1. /\ a \in Seq(Int) /\ Len(a) = NumInts /\ b \in Seq(Int)
        /\ i \in Seq(Int) /\ Len(i) = NumInts
        /\ \A k \in 1 .. NumInts : k <= Len(b) /\ b[k] = i[k]
    BY <1>2, <1>9, <1>11, Zenon
  <2> HIDE DEF a, b, i
  <2>2. /\ q \in Seq(Int) /\ Len(q) = NumInts
        /\ \A k \in 1 .. NumInts : q[k] = IF k <= Len(b) THEN b[k] ELSE a[k]
    BY <2>1, OverwriteFacts
  <2> HIDE DEF q
  <2>4. \A k \in 1 .. NumInts : q[k] = i[k]
    BY <2>1, <2>2, Zenon
  <2>3. q = i
    BY <2>1, <2>2, <2>4, SameItems
  <2> QED
    BY <2>3 DEF q, a, b, i
<1>13. ReadFiles(files, old) = [ints |-> c.ints, strs |-> StrsTaken(old.strs, taken)]
  BY <1>11, <1>12, ReadByLines, Zenon
<1>14. ReadFiles(files, old).ints = c.ints
  BY <1>13
<1>15. ASSUME PlainFiles(files) PROVE ReadFiles(files, old) = d
  <2> DEFINE m == NumStrs
  <2>1. /\ Len(taken.strs) = m /\ taken.ints = c.ints
        /\ \A j \in 1 .. m : taken.strs[j] = d.strs[j]
    <3>1. Len(IntsRead(files)) = NumInts /\ Len(StrsRead(files)) = m
      BY <1>2, <1>11, Zenon
    <3>2. (IF Len(IntsRead(files)) > NumInts THEN 0 ELSE Smaller(Len(StrsRead(files)), m)) = m
      BY <1>1, <3>1 DEF Smaller
    <3>3. /\ taken.ints = IntsRead(files)
          /\ Len(taken.strs) = IF Len(IntsRead(files)) > NumInts THEN 0
                               ELSE Smaller(Len(StrsRead(files)), m)
          /\ \A j \in 1 .. Len(taken.strs) : taken.strs[j] = StrsRead(files)[j]
      BY <1>15, PlainLines
    <3> DEFINE k == IF Len(IntsRead(files)) > NumInts THEN 0
                    ELSE Smaller(Len(StrsRead(files)), m)
    <3>4. k = m /\ Len(taken.strs) = k
      BY <3>2, <3>3
    <3> HIDE DEF k, taken, m
    <3>5. Len(taken.strs) = m
      BY <3>4
    <3> QED
      BY <1>11, <3>3, <3>5, Zenon
  <2>2. taken.strs = d.strs
    <3> DEFINE t == taken.strs
               u == d.strs
    <3>1. t \in Seq(Strings) /\ u \in Seq(Strings) /\ Len(t) = m /\ Len(u) = m
          /\ \A j \in 1 .. m : t[j] = u[j]
      BY <1>2, <1>10, <1>11, <2>1, Zenon
    <3> HIDE DEF t, u, m
    <3>2. t = u
      BY <3>1
    <3> QED
      BY <3>2 DEF t, u
  <2>3. Overwrite(old.strs, d.strs) = d.strs
    <3> HIDE DEF d
    <3> QED
      BY <1>2, <1>9, <1>10, OverwriteFacts
  <2>4. ~(Len(taken.ints) > NumInts)
    <3>1. ~(Len(c.ints) > NumInts)
      BY <1>1, <1>2
    <3> QED
      BY <2>1, <3>1, Zenon
  <2>5. StrsTaken(old.strs, taken) = d.strs
    BY <2>2, <2>3, <2>4, Zenon DEF StrsTaken
  <2> HIDE DEF d
  <2>6. d = [ints |-> d.ints, strs |-> d.strs]
    BY <1>2 DEF FileContent
  <2> QED
    BY <1>2, <1>13, <2>5, <2>6, Zenon
<1> QED
  BY <1>14, <1>15 DEF d

----------------------------------------------------------------------------
(* Loading and writing                                                     *)

\* What paramsLoad leaves in the pools.
LEMMA LoadedFacts ==
    app \in Apps =>
        \A c : IsContent(c) =>
            /\ IsContent(Loaded(c)) /\ Printed(Loaded(c)) = Loaded(Printed(c))
            /\ \A i \in 1 .. NumInts : /\ Loaded(c).ints[i] = LoadedInt(i, c.ints[i])
                                       /\ InRange(i, Loaded(c).ints[i])
<1> SUFFICES ASSUME app \in Apps, NEW c, IsContent(c)
             PROVE  /\ IsContent(Loaded(c)) /\ Printed(Loaded(c)) = Loaded(Printed(c))
                    /\ \A i \in 1 .. NumInts : /\ Loaded(c).ints[i] = LoadedInt(i, c.ints[i])
                                               /\ InRange(i, Loaded(c).ints[i])
  OBVIOUS
<1> DEFINE Str(j, s) == IF s = "" THEN app.strs[j] ELSE s
           ints == [i \in 1 .. NumInts |-> LoadedInt(i, c.ints[i])]
           strs == [j \in 1 .. NumStrs |-> Str(j, c.strs[j])]
           printed == [j \in 1 .. NumStrs |-> AsRead(strs[j])]
           d == Printed(c)
<1>1. /\ NumInts \in Nat /\ NumStrs \in Nat
      /\ \A i \in 1 .. NumInts : app.desc[i].def \in Int /\ InRange(i, app.desc[i].def)
      /\ app.strs \in Seq(Unquoted) /\ app.strs \in Seq(Strings) /\ Len(app.strs) = NumStrs
  BY AppFacts DEF Unquoted, NumStrs
<1>2. /\ c \in Content /\ c.ints \in Seq(Int) /\ Len(c.ints) = NumInts
      /\ DOMAIN c.ints = 1 .. NumInts
      /\ c.strs \in Seq(Strings) /\ Len(c.strs) = NumStrs /\ DOMAIN c.strs = 1 .. NumStrs
  BY DEF IsContent, Content
<1>3. ASSUME NEW i \in 1 .. NumInts
      PROVE  LoadedInt(i, c.ints[i]) \in Int /\ InRange(i, LoadedInt(i, c.ints[i]))
  <2>1. c.ints[i] \in Int
    BY <1>2
  <2> QED
    BY <1>1, <2>1 DEF LoadedInt
<1>4. ASSUME NEW j \in 1 .. NumStrs
      PROVE  /\ app.strs[j] \in Unquoted /\ c.strs[j] \in Strings
             /\ Str(j, c.strs[j]) \in Strings
             /\ AsRead(Str(j, c.strs[j])) = Str(j, AsRead(c.strs[j]))
  <2>1. app.strs[j] \in Unquoted /\ c.strs[j] \in Strings /\ app.strs[j] \in Strings
    BY <1>1, <1>2
  <2>2. AsRead(app.strs[j]) = app.strs[j]
    BY <2>1, AsReadFacts
  <2>3. AsRead("") = ""
    BY AsReadFacts
  <2>4. c.strs[j] # "" => AsRead(c.strs[j]) # ""
    BY DEF AsRead
  <2> QED
    BY <2>1, <2>2, <2>3, <2>4, Zenon
<1>5. /\ ints \in Seq(Int) /\ Len(ints) = NumInts
      /\ strs \in Seq(Strings) /\ Len(strs) = NumStrs /\ DOMAIN strs = 1 .. NumStrs
  <2>1. ints \in [1 .. NumInts -> Int]
    BY <1>3
  <2>2. strs \in [1 .. NumStrs -> Strings]
    BY <1>4, Zenon
  <2> HIDE DEF ints, strs
  <2> QED
    BY <1>1, <2>1, <2>2, FunctionIsSeq
<1>6. /\ \A i \in 1 .. NumInts : ints[i] = LoadedInt(i, c.ints[i])
      /\ \A j \in 1 .. NumStrs : strs[j] = Str(j, c.strs[j])
  BY Zenon
<1>7. Loaded(c) = [ints |-> ints, strs |-> strs]
  BY <1>2 DEF Loaded
<1> HIDE DEF ints, strs
<1>8. IsContent(Loaded(c)) /\ Loaded(c).ints = ints
  BY <1>5, <1>7 DEF IsContent, Content
<1>9. /\ d.ints = c.ints /\ Len(d.strs) = NumStrs /\ DOMAIN d.strs = 1 .. NumStrs
      /\ \A j \in 1 .. NumStrs : d.strs[j] = AsRead(c.strs[j])
  BY <1>2, PrintedFacts
<1>10. Printed(Loaded(c)) = [ints |-> ints, strs |-> printed]
  <2>1. Printed(Loaded(c))
           = [[ints |-> ints, strs |-> strs] EXCEPT !.strs =
                   [j \in DOMAIN strs |-> AsRead(strs[j])]]
    BY <1>7 DEF Printed
  <2> QED
    BY <1>5, <2>1
<1>11. Loaded(d) = [ints |-> ints, strs |-> printed]
  <2>1. [i \in DOMAIN d.ints |-> LoadedInt(i, d.ints[i])] = ints
    <3> HIDE DEF d
    <3> QED
      BY <1>2, <1>9 DEF ints
  <2>2. \A j \in 1 .. NumStrs : AsRead(strs[j]) = Str(j, d.strs[j])
    <3> HIDE DEF d
    <3> QED
      BY <1>4, <1>6, <1>9, Zenon
  <2>3. [j \in DOMAIN d.strs |-> Str(j, d.strs[j])] = printed
    <3> HIDE DEF d, Str
    <3> QED
      BY <1>9, <2>2
  <2>4. Loaded(d) = [ints |-> [i \in DOMAIN d.ints |-> LoadedInt(i, d.ints[i])],
                     strs |-> [j \in DOMAIN d.strs |-> Str(j, d.strs[j])]]
    BY Zenon DEF Loaded
  <2> QED
    BY <2>1, <2>3, <2>4, Zenon
<1> QED
  BY <1>3, <1>6, <1>8, <1>10, <1>11

\* What a write, a full disk or a kill leaves in the file of page p.
LEMMA PageWritten ==
    ASSUME app \in Apps, NEW files, FilesTyped(files), NEW c, IsContent(c),
           NEW p \in 0 .. RegionPages - 1,
           NEW left \in {PageOf(c, p), files[p]} \cup Cuts(PageOf(c, p))
    PROVE  /\ FilesTyped([files EXCEPT ![p] = left])
           /\ p # 0 => [files EXCEPT ![p] = left][0] = files[0]
           /\ p = 0 => [files EXCEPT ![p] = left][0] = left
           /\ p = 0 /\ left # files[0] =>
                 /\ left \in FileContent /\ Len(left.ints) <= NumInts
                 /\ \A i \in 1 .. Len(left.ints) : left.ints[i] \in FirstDigits(c.ints[i])
<1> DEFINE d == PageOf(c, p)
           written == [files EXCEPT ![p] = left]
<1>1. RegionPages \in Nat /\ NumInts \in Nat /\ p \in AllPages /\ 0 \in AllPages
  <2>1. /\ RegionPages \in Nat /\ RegionPages >= 1 /\ NumInts \in Nat
        /\ 0 .. RegionPages - 1 \subseteq AllPages
    BY AppFacts, Zenon
  <2>2. 0 \in 0 .. RegionPages - 1
    BY <2>1
  <2> QED
    BY <2>1, <2>2, Zenon
<1>2. /\ d \in FileContent /\ d.ints = (IF p = 0 THEN c.ints ELSE <<>>)
      /\ Len(c.ints) = NumInts /\ c.ints \in Seq(Int)
  <2>1. d \in FileContent
    BY PageOfFacts, Zenon
  <2>2. d.ints = IF p = 0 THEN c.ints ELSE <<>>
    BY PageOfFacts
  <2> QED
    BY <2>1, <2>2 DEF IsContent, Content
<1>3. files \in [AllPages -> FileContent \cup {NoFile}]
      /\ \A q \in AllPages : q # 0 /\ files[q] # NoFile => files[q].ints = <<>>
  BY DEF FilesTyped
<1> HIDE DEF d
<1>4. ASSUME left # files[p]
      PROVE  /\ left \in FileContent /\ Len(left.ints) <= Len(d.ints)
             /\ \A i \in 1 .. Len(left.ints) : left.ints[i] \in FirstDigits(d.ints[i])
  <2>1. left = d \/ left \in Cuts(d)
    BY <1>4, Zenon DEF d
  <2>2. CASE left = d
    <3>1. d.ints \in Seq(Int)
      BY <1>2 DEF FileContent
    <3>2. \A v \in Int : v \in FirstDigits(v)
      BY DEF FirstDigits
    <3> QED
      BY <1>2, <2>2, <3>1, <3>2
  <2>3. CASE left \in Cuts(d)
    BY <1>2, <2>3, CutsFacts
  <2> QED
    BY <2>1, <2>2, <2>3
<1>5. /\ DOMAIN written = AllPages /\ written[p] = left
      /\ \A q \in AllPages : q # p => written[q] = files[q]
  BY <1>1, <1>3
<1>6. left \in FileContent \cup {NoFile}
  BY <1>1, <1>3, <1>4
<1>7. p # 0 /\ left # NoFile => left.ints = <<>>
  <2> SUFFICES ASSUME p # 0, left # NoFile, left # files[p] PROVE left.ints = <<>>
    BY <1>1, <1>3
  <2>1. Len(left.ints) <= 0 /\ left.ints \in Seq(Int)
    BY <1>2, <1>4 DEF FileContent
  <2> QED
    BY <2>1
<1>8. FilesTyped(written)
  <2>1. written \in [AllPages -> FileContent \cup {NoFile}]
    BY <1>3, <1>6
  <2> HIDE DEF written
  <2>2. ASSUME NEW q \in AllPages, q # 0, written[q] # NoFile PROVE written[q].ints = <<>>
    <3>1. CASE q = p
      BY <1>5, <1>7, <2>2, <3>1
    <3>2. CASE q # p
      BY <1>3, <1>5, <2>2, <3>2
    <3> QED
      BY <3>1, <3>2
  <2> QED
    BY <2>1, <2>2 DEF FilesTyped
<1> HIDE DEF written
<1> QED
  BY <1>1, <1>2, <1>4, <1>5, <1>8 DEF written

----------------------------------------------------------------------------
(* Types                                                                   *)

\* Only the files outlive the process, paramsSave starts with page 0, and a
\* program without a redundant region has its parameters in the primary one.
Shape ==
    /\ ~running => /\ pc = "idle" /\ res = "OK" /\ active_rom = "primary"
                   /\ memory = [r \in Roms |-> Blank]
    /\ pc \notin {"int_files", "str_files"} => page = 0
    /\ ~app.redundant => active_rom = "primary"

BaseInv == TypeOK /\ FilesTyped(nvm) /\ Shape

LEMMA BaseFacts ==
    ASSUME BaseInv
    PROVE  /\ app \in Apps /\ FilesTyped(nvm) /\ Target \in Roms /\ active_rom \in Roms
           /\ memory \in [Roms -> Content] /\ \A r \in Roms : IsContent(memory[r])
           /\ IsContent(pools) /\ pools \in Content
           /\ page \in 0 .. RegionPages - 1
           /\ IsContent(Blank) /\ Blank \in Content /\ Blank \in FileContent
           /\ RegionPages \in Nat /\ RegionPages >= 1 /\ 0 \in 0 .. RegionPages - 1
<1>1. app \in Apps /\ FilesTyped(nvm) /\ active_rom \in Roms
  BY DEF BaseInv, TypeOK
<1>2. Target \in Roms
  BY <1>1 DEF Target, Other, Roms
<1>3. /\ memory \in [Roms -> Content] /\ \A r \in Roms : IsContent(memory[r])
      /\ IsContent(pools) /\ pools \in Content /\ page \in 0 .. RegionPages - 1
  BY DEF BaseInv, TypeOK, IsContent
<1>4. IsContent(Blank) /\ Blank \in Content /\ Blank \in FileContent
  BY <1>1, BlankFacts DEF IsContent
<1>5. RegionPages \in Nat /\ RegionPages >= 1
  BY <1>1, AppFacts
<1> QED
  BY <1>1, <1>2, <1>3, <1>4, <1>5

\* A step of a program.
LEMMA TypedStep ==
    ASSUME app \in Apps, app' = app, FilesTyped(nvm'),
           memory' \in [Roms -> Content], \A r \in Roms : IsContent(memory'[r]),
           IsContent(pools'), active_rom' \in Roms, running' \in BOOLEAN,
           pc' \in {"idle", "ints", "int_files", "strs", "str_files", "end"},
           page' \in 0 .. RegionPages - 1, res' \in {"OK", "UNKNOWN_ERROR"}
    PROVE  TypeOK' /\ FilesTyped(nvm)'
<1>1. NumInts' = NumInts /\ NumStrs' = NumStrs /\ RegionPages' = RegionPages
  BY DEF NumInts, NumStrs, RegionPages
<1>2. (\A r \in Roms : IsContent(memory[r]))' /\ IsContent(pools)'
  BY <1>1 DEF IsContent
<1>3. nvm' \in [AllPages -> Content \cup {NoFile}]
  <2>1. FileContent \subseteq Content
    BY FileContentIsContent
  <2> HIDE DEF FileContent
  <2> QED
    BY <2>1 DEF FilesTyped
<1>4. FilesTyped(nvm)'
  BY DEF FilesTyped
<1> QED
  BY <1>1, <1>2, <1>3, <1>4 DEF TypeOK

\* One region gets other contents.
LEMMA RegionSet ==
    ASSUME BaseInv, NEW r \in Roms, NEW c, IsContent(c), memory' = [memory EXCEPT ![r] = c]
    PROVE  memory' \in [Roms -> Content] /\ \A s \in Roms : IsContent(memory'[s])
<1>1. memory \in [Roms -> Content] /\ \A s \in Roms : IsContent(memory[s])
  BY BaseFacts
<1>2. c \in Content
  BY DEF IsContent
<1>3. \A s \in Roms : memory'[s] = IF s = r THEN c ELSE memory[s]
  BY <1>1
<1> QED
  BY <1>1, <1>2, <1>3

\* The region that a flashWrite of one pool leaves.
LEMMA PoolWritten ==
    ASSUME BaseInv
    PROVE  /\ IsContent([memory[Target] EXCEPT !.ints = pools.ints])
           /\ [memory[Target] EXCEPT !.ints = pools.ints].ints = pools.ints
           /\ [memory[Target] EXCEPT !.ints = pools.ints].strs = memory[Target].strs
           /\ IsContent([memory[Target] EXCEPT !.strs = pools.strs])
           /\ [memory[Target] EXCEPT !.strs = pools.strs].ints = memory[Target].ints
           /\ [memory[Target] EXCEPT !.strs = pools.strs].strs = pools.strs
<1> DEFINE c == memory[Target]
           i == c.ints
           s == c.strs
           j == pools.ints
           t == pools.strs
<1>1. IsContent(c) /\ IsContent(pools)
  BY BaseFacts, Zenon
<1> HIDE DEF c
<1>2. /\ c = [ints |-> i, strs |-> s] /\ i \in Seq(Int) /\ s \in Seq(Strings)
      /\ Len(i) = NumInts /\ Len(s) = NumStrs
      /\ j \in Seq(Int) /\ t \in Seq(Strings) /\ Len(j) = NumInts /\ Len(t) = NumStrs
  BY <1>1 DEF IsContent, Content
<1> HIDE DEF i, s, j, t
<1>3. /\ [c EXCEPT !.ints = j] = [ints |-> j, strs |-> s]
      /\ [c EXCEPT !.strs = t] = [ints |-> i, strs |-> t]
  BY <1>2
<1> QED
  BY <1>2, <1>3 DEF IsContent, Content, c, i, s, j, t

LEMMA SetStrings == \A a \in Apps : a.set_strs \subseteq Strings
<1> DEFINE Of(a) == a.set_strs \cup {a.strs[j] : j \in DOMAIN a.strs}
           All == UNION {Of(a) : a \in Apps}
<1>1. \A a \in Apps : a.set_strs \subseteq Of(a)
  BY Zenon
<1>2. Strings = {"", "torn", NamedStr} \cup All
  BY Zenon DEF Strings
<1> HIDE DEF Of
<1>3. \A a \in Apps : Of(a) \subseteq All
  BY Zenon
<1> HIDE DEF All
<1> QED
  BY <1>1, <1>2, <1>3, Zenon

LEMMA BaseStep == ASSUME BaseInv, [Next]_vars PROVE BaseInv'
<1> USE BaseFacts
<1>1. CASE Boot
  <2> DEFINE c == ReadFiles(nvm, memory["primary"])
  <2>1. memory' = [memory EXCEPT !["primary"] = c] /\ "primary" \in Roms
    BY <1>1 DEF Boot, FilledRegion, Roms
  <2>2. IsContent(c)
    BY <2>1, ReadFilesFacts, Zenon
  <2>3. memory' \in [Roms -> Content] /\ \A s \in Roms : IsContent(memory'[s])
    <3> HIDE DEF c
    <3> QED
      BY <2>1, <2>2, RegionSet
  <2>4. active_rom' \in Roms /\ (~app.redundant => active_rom' = "primary")
    BY <1>1 DEF Boot, Roms
  <2>5. IsContent(pools')
    <3>1. pools' = Loaded(memory'[active_rom'])
      BY <1>1 DEF Boot
    <3> QED
      BY <2>3, <2>4, <3>1, LoadedFacts, Zenon
  <2>6. UNCHANGED <<app, nvm, pc, page, res>> /\ running' = TRUE
    BY <1>1 DEF Boot
  <2>7. pc \in {"idle", "ints", "int_files", "strs", "str_files", "end"}
        /\ res \in {"OK", "UNKNOWN_ERROR"}
    BY DEF BaseInv, TypeOK
  <2>8. TypeOK' /\ FilesTyped(nvm)'
    BY <2>3, <2>4, <2>5, <2>6, <2>7, TypedStep
  <2>9. Shape'
    BY <2>4, <2>6 DEF BaseInv, Shape
  <2> QED
    BY <2>8, <2>9 DEF BaseInv
<1>2. CASE Reload \/ Edit
  <2>1. UNCHANGED <<app, nvm, memory, active_rom, running, pc, page, res>>
    BY <1>2 DEF Reload, Edit
  <2>2. IsContent(pools')
    <3>1. CASE pools' = Loaded(memory[active_rom])
      BY <3>1, LoadedFacts, Zenon
    <3>2. CASE pools' = Defaults
      BY <3>2, DefaultsFacts
    <3>3. ASSUME NEW i \in 1 .. NumInts, NEW v \in SetInts, pools' = [pools EXCEPT !.ints[i] = v]
          PROVE  IsContent(pools')
      <4>1. v \in Int
        BY SitlAssumption, Zenon
      <4>2. /\ pools = [ints |-> pools.ints, strs |-> pools.strs]
            /\ pools.ints \in Seq(Int) /\ pools.strs \in Seq(Strings)
            /\ Len(pools.ints) = NumInts /\ Len(pools.strs) = NumStrs
        BY DEF IsContent, Content
      <4> DEFINE q == [pools.ints EXCEPT ![i] = v]
                 s == pools.strs
      <4>3. q \in Seq(Int) /\ Len(q) = NumInts
        BY <4>1, <4>2
      <4>4. pools' = [ints |-> q, strs |-> s]
        BY <3>3, <4>2
      <4> HIDE DEF q
      <4> QED
        BY <4>2, <4>3, <4>4 DEF IsContent, Content
    <3>4. ASSUME NEW j \in 1 .. NumStrs, NEW v \in app.set_strs,
                 pools' = [pools EXCEPT !.strs[j] = v]
          PROVE  IsContent(pools')
      <4>1. v \in Strings
        <5>1. app \in Apps
          BY Zenon
        <5> QED
          BY <5>1, SetStrings, Zenon
      <4>2. /\ pools = [ints |-> pools.ints, strs |-> pools.strs]
            /\ pools.ints \in Seq(Int) /\ pools.strs \in Seq(Strings)
            /\ Len(pools.ints) = NumInts /\ Len(pools.strs) = NumStrs
        BY DEF IsContent, Content
      <4> DEFINE q == [pools.strs EXCEPT ![j] = v]
                 i == pools.ints
      <4>3. q \in Seq(Strings) /\ Len(q) = NumStrs
        BY <4>1, <4>2
      <4>4. pools' = [ints |-> i, strs |-> q]
        BY <3>4, <4>2
      <4> HIDE DEF q
      <4> QED
        BY <4>2, <4>3, <4>4 DEF IsContent, Content
    <3> QED
      BY <1>2, <3>1, <3>2, <3>3, <3>4 DEF Reload, Edit
  <2>3. TypeOK' /\ FilesTyped(nvm)'
    <3>1. /\ pc \in {"idle", "ints", "int_files", "strs", "str_files", "end"}
          /\ res \in {"OK", "UNKNOWN_ERROR"} /\ running \in BOOLEAN
      BY DEF BaseInv, TypeOK
    <3> QED
      BY <2>1, <2>2, <3>1, TypedStep
  <2>4. Shape'
    <3>1. Blank' = Blank
      BY <2>1 DEF Blank, NumInts, NumStrs
    <3> QED
      BY <2>1, <3>1 DEF BaseInv, Shape
  <2> QED
    BY <2>3, <2>4 DEF BaseInv
<1>3. CASE ParamsSave \/ WriteInts \/ WriteStrs
  <2>1. UNCHANGED <<app, nvm, pools, active_rom, running, page>> /\ running /\ page = 0
    <3>1. pc \in {"idle", "ints", "strs"}
      BY <1>3 DEF ParamsSave, WriteInts, WriteStrs, Idle
    <3>2. UNCHANGED <<app, nvm, pools, active_rom, running, page>>
      BY <1>3 DEF ParamsSave, WriteInts, WriteStrs
    <3>3. running /\ page = 0
      BY <1>3, <3>1 DEF ParamsSave, WriteInts, WriteStrs, Idle, BaseInv, Shape, TypeOK
    <3> QED
      BY <3>2, <3>3
  <2>2. \E c : IsContent(c) /\ memory' = [memory EXCEPT ![Target] = c]
    <3>1. CASE ParamsSave
      BY <3>1 DEF ParamsSave
    <3>2. CASE WriteInts
      <4>1. memory' = [memory EXCEPT ![Target] = [memory[Target] EXCEPT !.ints = pools.ints]]
        BY <3>2 DEF WriteInts
      <4> QED
        BY <4>1, PoolWritten, Zenon
    <3>3. CASE WriteStrs
      <4>1. memory' = [memory EXCEPT ![Target] = [memory[Target] EXCEPT !.strs = pools.strs]]
        BY <3>3 DEF WriteStrs
      <4> QED
        BY <4>1, PoolWritten, Zenon
    <3> QED
      BY <1>3, <3>1, <3>2, <3>3
  <2>3. memory' \in [Roms -> Content] /\ \A s \in Roms : IsContent(memory'[s])
    BY <2>2, RegionSet, Zenon
  <2>4. /\ pc' \in {"idle", "ints", "int_files", "strs", "str_files", "end"}
        /\ res' \in {"OK", "UNKNOWN_ERROR"}
    BY <1>3 DEF ParamsSave, WriteInts, WriteStrs, SaveToFiles, StrFiles, BaseInv, TypeOK
  <2>5. TypeOK' /\ FilesTyped(nvm)'
    BY <2>1, <2>3, <2>4, TypedStep
  <2>6. Shape'
    BY <2>1 DEF BaseInv, Shape
  <2> QED
    BY <2>5, <2>6 DEF BaseInv
<1>4. CASE WriteFile
  <2>1. /\ UNCHANGED <<app, memory, pools, active_rom, running>>
        /\ running
    BY <1>4 DEF WriteFile, BaseInv, Shape, TypeOK
  <2>2. \E left \in {PageOf(memory[Target], page), nvm[page]}
                   \cup Cuts(PageOf(memory[Target], page)) :
            nvm' = [nvm EXCEPT ![page] = left]
    BY <1>4, Zenon DEF WriteFile
  <2>3. FilesTyped(nvm')
    <3>1. PICK left \in {PageOf(memory[Target], page), nvm[page]}
                       \cup Cuts(PageOf(memory[Target], page)) :
              nvm' = [nvm EXCEPT ![page] = left]
      BY <2>2
    <3>2. /\ app \in Apps /\ FilesTyped(nvm) /\ IsContent(memory[Target])
          /\ page \in 0 .. RegionPages - 1
      BY Zenon
    <3>3. FilesTyped([nvm EXCEPT ![page] = left])
      BY <3>2, PageWritten, Zenon
    <3> QED
      BY <3>1, <3>3
  <2>4. /\ page' \in 0 .. RegionPages - 1
        /\ pc' \in {"int_files", "strs", "str_files", "end"} /\ res' \in {"OK", "UNKNOWN_ERROR"}
        /\ pc' \notin {"int_files", "str_files"} => page' = 0
    BY <1>4 DEF WriteFile, NextPage, BaseInv, TypeOK
  <2>5. TypeOK' /\ FilesTyped(nvm)'
    BY <2>1, <2>3, <2>4, TypedStep
  <2>6. Shape'
    BY <2>1, <2>4 DEF BaseInv, Shape
  <2> QED
    BY <2>5, <2>6 DEF BaseInv
<1>5. CASE EndSave
  <2>1. UNCHANGED <<app, nvm, pools, running, page, res>> /\ pc' = "idle" /\ running /\ page = 0
    BY <1>5 DEF EndSave, BaseInv, Shape, TypeOK
  <2>2. /\ memory' \in [Roms -> Content] /\ \A s \in Roms : IsContent(memory'[s])
        /\ active_rom' \in Roms /\ (~app.redundant => active_rom' = "primary")
    <3>1. CASE res = "OK" /\ app.redundant
      <4>1. memory' = [memory EXCEPT ![Other(Target)] = Blank] /\ active_rom' = Target
        BY <1>5, <3>1 DEF EndSave, SavedRom
      <4>2. Other(Target) \in Roms
        BY DEF Other, Roms
      <4> QED
        BY <3>1, <4>1, <4>2, RegionSet, Zenon
    <3>2. CASE ~(res = "OK" /\ app.redundant)
      BY <1>5, <3>2 DEF EndSave, BaseInv, Shape
    <3> QED
      BY <3>1, <3>2
  <2>3. res \in {"OK", "UNKNOWN_ERROR"}
    BY DEF BaseInv, TypeOK
  <2>4. TypeOK' /\ FilesTyped(nvm)'
    BY <2>1, <2>2, <2>3, TypedStep
  <2>5. Shape'
    BY <2>1, <2>2 DEF Shape
  <2> QED
    BY <2>4, <2>5 DEF BaseInv
<1>6. CASE Kill
  <2>1. /\ UNCHANGED app /\ running' = FALSE /\ pools' = Blank /\ active_rom' = "primary"
        /\ memory' = [r \in Roms |-> Blank] /\ pc' = "idle" /\ page' = 0 /\ res' = "OK"
    BY <1>6 DEF Kill
  <2>2. FilesTyped(nvm')
    <3>1. nvm' = nvm \/ \E left \in Cuts(PageOf(memory[Target], page)) :
                            nvm' = [nvm EXCEPT ![page] = left]
      BY <1>6, Zenon DEF Kill
    <3>2. IsContent(memory[Target])
      BY Zenon
    <3>3. ASSUME NEW left \in Cuts(PageOf(memory[Target], page))
          PROVE  FilesTyped([nvm EXCEPT ![page] = left])
      <4>1. left \in {PageOf(memory[Target], page), nvm[page]}
                     \cup Cuts(PageOf(memory[Target], page))
        BY Zenon
      <4> QED
        BY <3>2, <4>1, PageWritten, Zenon
    <3> QED
      BY <3>1, <3>3, Zenon
  <2>3. /\ memory' \in [Roms -> Content] /\ \A r \in Roms : IsContent(memory'[r])
        /\ IsContent(pools') /\ "primary" \in Roms
    BY <2>1 DEF Roms
  <2>4. TypeOK' /\ FilesTyped(nvm)'
    BY <2>1, <2>2, <2>3, TypedStep
  <2>5. Shape'
    <3>1. Blank' = Blank
      BY <2>1 DEF Blank, NumInts, NumStrs
    <3> QED
      BY <2>1, <3>1 DEF Shape
  <2> QED
    BY <2>4, <2>5 DEF BaseInv
<1>7. CASE Update
  <2>1. /\ UNCHANGED <<nvm, active_rom, running, pc, page, res>> /\ ~running
        /\ memory' = [r \in Roms |-> Blank'] /\ pools' = Blank'
    BY <1>7 DEF Update
  <2>2. app' \in Apps
    <3>1. Updates \subseteq Apps \X Apps
      BY SitlAssumption, Zenon
    <3> QED
      BY <1>7, <3>1 DEF Update
  <2>3. (app \in Apps => IsContent(Blank) /\ Blank \in FileContent)'
    BY BlankFacts, PTL
  <2>4. (app \in Apps => RegionPages \in Nat /\ RegionPages >= 1)'
    BY APage, PTL
  <2>5. pc = "idle" /\ res = "OK" /\ active_rom = "primary" /\ page = 0
    BY <2>1 DEF BaseInv, Shape
  <2>6. TypeOK'
    <3>1. IsContent(Blank)' /\ Blank' \in Content
      BY <2>2, <2>3 DEF IsContent
    <3>2. IsContent(pools)' /\ (\A r \in Roms : IsContent(memory[r]))'
          /\ memory' \in [Roms -> Content]
      BY <2>1, <3>1 DEF IsContent
    <3>3. nvm' \in [AllPages -> Content \cup {NoFile}]
      BY <2>1 DEF BaseInv, TypeOK
    <3>4. page' \in (0 .. RegionPages - 1)'
      BY <2>1, <2>2, <2>4, <2>5
    <3>5. active_rom' \in Roms /\ running' \in BOOLEAN
      BY <2>1 DEF BaseInv, TypeOK
    <3> QED
      BY <2>1, <2>2, <2>5, <3>2, <3>3, <3>4, <3>5 DEF TypeOK
  <2>7. FilesTyped(nvm)'
    BY <2>1 DEF FilesTyped
  <2>8. Shape'
    BY <2>1, <2>5 DEF Shape
  <2> QED
    BY <2>6, <2>7, <2>8 DEF BaseInv
<1>8. CASE UNCHANGED vars
  <2>1. NumInts' = NumInts /\ NumStrs' = NumStrs /\ RegionPages' = RegionPages
    BY <1>8 DEF vars, NumInts, NumStrs, RegionPages
  <2> QED
    BY <1>8, <2>1 DEF vars, BaseInv, TypeOK, FilesTyped, Shape, IsContent, Blank
<1> QED
  BY <1>1, <1>2, <1>3, <1>4, <1>5, <1>6, <1>7, <1>8 DEF Next, SaveStep

LEMMA BaseInitially == ASSUME Init PROVE BaseInv
<1>1. IsContent(Blank) /\ RegionPages \in Nat /\ RegionPages >= 1 /\ app \in Apps
  BY BlankFacts, AppFacts DEF Init
<1>2. FilesTyped(nvm)
  BY DEF Init, FilesTyped
<1>3. Blank \in Content
  BY <1>1 DEF IsContent
<1>4. TypeOK
  <2>1. active_rom \in Roms /\ nvm \in [AllPages -> Content \cup {NoFile}]
    BY DEF Init, Roms
  <2>2. memory \in [Roms -> Content] /\ \A r \in Roms : IsContent(memory[r])
    <3>1. memory = [r \in Roms |-> Blank]
      BY DEF Init
    <3> QED
      BY <1>1, <1>3, <3>1, Zenon
  <2>3. /\ running \in BOOLEAN /\ res \in {"OK", "UNKNOWN_ERROR"}
        /\ pc \in {"idle", "ints", "int_files", "strs", "str_files", "end"}
    BY DEF Init
  <2>5. page \in 0 .. RegionPages - 1
    <3>1. page = 0
      BY DEF Init
    <3> QED
      BY <1>1, <3>1
  <2>4. IsContent(pools) /\ app \in Apps
    BY <1>1, Zenon DEF Init
  <2> QED
    BY <2>1, <2>2, <2>3, <2>4, <2>5, Zenon DEF TypeOK
<1>5. Shape
  BY DEF Init, Shape
<1> QED
  BY <1>2, <1>4, <1>5 DEF BaseInv

LEMMA BaseHolds == Spec => []BaseInv
<1>1. Init => BaseInv
  BY BaseInitially
<1>2. BaseInv /\ [Next]_vars => BaseInv'
  BY BaseStep
<1> QED
  BY <1>1, <1>2, PTL DEF Spec

\* Both regions and the pools always hold every parameter of the program, and
\* write_to_dir stays on its pages, whatever is killed, cut or replaced.
THEOREM SitlTypes == Spec => []TypeOK
<1>1. BaseInv => TypeOK
  BY DEF BaseInv
<1> QED
  BY <1>1, BaseHolds, PTL

\* The default files and the files of the driver are split alike.
THEOREM SplitAlike == Spec => []DefaultsSplitAsWritten
<1>1. TypeOK => DefaultsSplitAsWritten
  BY DefaultsSplit DEF TypeOK
<1> QED
  BY <1>1, SitlTypes, PTL

----------------------------------------------------------------------------
(* Saving                                                                  *)

\* The pages depend on the program only.
LEMMA SamePages ==
    ASSUME app' = app
    PROVE  /\ NumInts' = NumInts /\ NumStrs' = NumStrs /\ RegionPages' = RegionPages
           /\ Complete' = Complete /\ FilesUsed' = FilesUsed /\ Blank' = Blank
           /\ \A c, p : PageOf(c, p)' = PageOf(c, p)
<1>1. NumInts' = NumInts /\ NumStrs' = NumStrs /\ RegionPages' = RegionPages
  BY DEF NumInts, NumStrs, RegionPages
<1>2. Written' = Written
  BY SMT DEF Written, IntsOnPage, StrsOnPage, NumInts, NumStrs, RegionPages, PagesOf, Size, Smaller
<1>3. Complete' = Complete
  BY <1>1, <1>2 DEF Complete
<1>4. FilesUsed' = FilesUsed /\ Blank' = Blank
  BY <1>1 DEF FilesUsed, DirIsSet, Blank
<1>5. \A c, p : PageOf(c, p)' = PageOf(c, p)
  BY <1>2, Zenon DEF PageOf, Slice
<1> QED
  BY <1>1, <1>3, <1>4, <1>5

\* The files that write_to_dir has printed hold its region, unless one could
\* not be written.
Saved(c, n) == ~app.faulty => \A q \in 0 .. n - 1 : nvm[q] = PageOf(c, q)
SavedAll(c) == Complete /\ FilesUsed /\ Saved(c, RegionPages)

\* What paramsSave has done when it is at pc.  The first round of files holds
\* the integers, and all there is if there are no strings.
SaveInv ==
    /\ pc \in {"int_files", "str_files"} => FilesUsed /\ Saved(memory[Target], page)
    /\ pc \in {"int_files", "strs", "str_files"} => memory[Target].ints = pools.ints
    /\ pc = "str_files" => memory[Target].strs = pools.strs
    /\ pc = "strs" /\ NumInts > 0 /\ app.named => SavedAll(memory[Target])
    /\ pc = "end" /\ res = "OK" => memory[Target] = pools /\ (app.named => SavedAll(pools))

LEMMA SameRegion ==
    ASSUME BaseInv, NEW c, IsContent(c), c.ints = pools.ints, c.strs = pools.strs
    PROVE  c = pools
<1>1. c \in Content /\ pools \in Content
  BY BaseFacts DEF IsContent
<1>2. c = [ints |-> c.ints, strs |-> c.strs] /\ pools = [ints |-> pools.ints, strs |-> pools.strs]
  BY <1>1, Zenon DEF Content
<1> QED
  BY <1>2

LEMMA SaveInvStep == ASSUME BaseInv, SaveInv, [Next]_vars PROVE SaveInv'
<1> DEFINE M == memory[Target]
<1>1. CASE pc' \in {"idle", "ints"}
  BY <1>1 DEF SaveInv
<1>2. CASE WriteInts \/ WriteStrs
  <2> DEFINE i == [M EXCEPT !.ints = pools.ints]
             s == [M EXCEPT !.strs = pools.strs]
  <2>1. UNCHANGED <<app, nvm, pools, active_rom, running, page>> /\ pc \in {"ints", "strs"}
    BY <1>2 DEF WriteInts, WriteStrs
  <2>2. Target' = Target /\ page = 0
    BY <2>1 DEF Target, BaseInv, Shape
  <2>3. memory \in [Roms -> Content] /\ Target \in Roms /\ IsContent(M) /\ pools' = pools
    BY <2>1, BaseFacts
  <2>4. /\ NumInts' = NumInts /\ NumStrs' = NumStrs /\ RegionPages' = RegionPages
        /\ Complete' = Complete /\ FilesUsed' = FilesUsed
        /\ \A c, p : PageOf(c, p)' = PageOf(c, p)
    BY <2>1, SamePages
  <2>5. Saved(M, page)'
    <3>1. page' = 0
      BY <2>1, <2>2
    <3> HIDE DEF M
    <3> QED
      BY <3>1 DEF Saved
  <2>6. ASSUME WriteInts PROVE SaveInv'
    <3>1. M' = i
      BY <2>2, <2>3, <2>6 DEF WriteInts
    <3>2. i.ints = pools.ints
      BY PoolWritten
    <3> HIDE DEF M, i
    <3>3. M'.ints = pools'.ints
      BY <2>3, <3>1, <3>2
    <3>4. \/ pc' = "strs" /\ (NumInts = 0 \/ ~app.named)
          \/ pc' = "int_files" /\ FilesUsed
          \/ pc' = "end" /\ res' = "UNKNOWN_ERROR"
      BY <2>6 DEF WriteInts, SaveToFiles, FilesUsed
    <3> QED
      BY <2>1, <2>4, <2>5, <3>3, <3>4 DEF SaveInv, M
  <2>7. ASSUME WriteStrs PROVE SaveInv'
    <3>1. M' = s
      BY <2>2, <2>3, <2>7 DEF WriteStrs
    <3>2. s.ints = M.ints /\ s.strs = pools.strs /\ IsContent(s)
      BY PoolWritten
    <3>3. M.ints = pools.ints /\ (NumInts > 0 /\ app.named => SavedAll(M))
      BY <2>7 DEF WriteStrs, SaveInv
    <3> HIDE DEF M, s
    <3>4. M'.ints = pools'.ints /\ M'.strs = pools'.strs
      BY <2>3, <3>1, <3>2, <3>3
    <3>5. M' = pools'
      <4>1. s = pools
        BY <3>2, <3>3, SameRegion
      <4> QED
        BY <2>3, <3>1, <4>1
    <3>6. \/ pc' = "end" /\ (NumStrs = 0 \/ ~app.named)
          \/ pc' = "str_files" /\ FilesUsed
          \/ pc' = "end" /\ res' = "UNKNOWN_ERROR"
      BY <2>7 DEF WriteStrs, SaveToFiles, StrFiles, FilesUsed
    <3>7. NumStrs = 0 /\ app.named => SavedAll(pools)'
      <4> SUFFICES ASSUME NumStrs = 0, app.named PROVE SavedAll(pools)'
        OBVIOUS
      <4>1. NumInts > 0
        <5>1. NumInts \in Nat /\ NumInts + NumStrs > 0
          BY AppFacts, BaseFacts
        <5> QED
          BY <5>1
      <4>2. M.strs = pools.strs
        <5>1. /\ M.strs \in Seq(Strings) /\ Len(M.strs) = 0
              /\ pools.strs \in Seq(Strings) /\ Len(pools.strs) = 0
          BY <2>3, BaseFacts DEF IsContent, Content
        <5> QED
          BY <5>1
      <4>3. M = pools
        BY <2>3, <3>3, <4>2, SameRegion
      <4>4. SavedAll(pools)
        BY <3>3, <4>1, <4>3
      <4> QED
        BY <2>1, <2>4, <4>4 DEF SavedAll, Saved
    <3> QED
      BY <2>1, <2>4, <2>5, <3>4, <3>5, <3>6, <3>7 DEF SaveInv, M
  <2> QED
    BY <1>2, <2>6, <2>7
<1>3. CASE WriteFile
  <2>1. UNCHANGED <<app, memory, pools, active_rom, running>> /\ pc \in {"int_files", "str_files"}
    BY <1>3 DEF WriteFile
  <2>2. Target' = Target /\ M' = M /\ pools' = pools
    BY <2>1 DEF Target
  <2>3. /\ NumInts' = NumInts /\ RegionPages' = RegionPages
        /\ Complete' = Complete /\ FilesUsed' = FilesUsed
        /\ \A c, p : PageOf(c, p)' = PageOf(c, p)
    BY <2>1, SamePages
  <2>4. /\ FilesUsed /\ Saved(M, page) /\ M.ints = pools.ints
        /\ pc = "str_files" => M.strs = pools.strs
    BY <2>1 DEF SaveInv
  <2>5. IsContent(M) /\ page \in 0 .. RegionPages - 1 /\ RegionPages \in Nat
    BY BaseFacts
  <2> DEFINE Printed1 == ~app.faulty => \A q \in 0 .. page : nvm'[q] = PageOf(M, q)
  <2>6. Printed1
    <3> SUFFICES ASSUME ~app.faulty, NEW q \in 0 .. page PROVE nvm'[q] = PageOf(M, q)
      BY DEF Printed1
    <3>1. nvm' = [nvm EXCEPT ![page] = PageOf(M, page)]
      BY <1>3 DEF WriteFile
    <3>2. q # page => nvm[q] = PageOf(M, q)
      <4>1. q # page => q \in 0 .. page - 1
        BY <2>5
      <4> QED
        BY <2>4, <4>1, Zenon DEF Saved
    <3>3. q \in AllPages /\ page \in AllPages /\ DOMAIN nvm = AllPages
      <4>1. /\ 0 .. RegionPages - 1 \subseteq AllPages
            /\ nvm \in [AllPages -> FileContent \cup {NoFile}]
        BY AppFacts, BaseFacts DEF FilesTyped
      <4>2. q \in 0 .. RegionPages - 1
        BY <2>5
      <4> QED
        BY <2>5, <4>1, <4>2
    <3> HIDE DEF M
    <3> QED
      BY <3>1, <3>2, <3>3
  <2> HIDE DEF M
  <2>7. app' = app /\ (\A n : n - 1 = page => Saved(M, n)')
    <3> SUFFICES ASSUME NEW n, n - 1 = page PROVE Saved(M, n)'
      BY <2>1
    <3>1. Saved(M, n)' <=> (~app.faulty => \A q \in 0 .. n - 1 : nvm'[q] = PageOf(M, q))
      BY <2>1, <2>2, <2>3 DEF Saved
    <3> QED
      BY <2>6, <3>1
  <2>8. CASE page < RegionPages - 1
    <3>1. page' = page + 1 /\ pc' = pc /\ res' = res
      BY <1>3, <2>5, <2>8 DEF WriteFile, NextPage
    <3>2. Saved(M, page)'
      <4>1. page' - 1 = page
        BY <2>5, <3>1
      <4> QED
        BY <2>1, <2>2, <2>3, <2>6, <4>1 DEF Saved
    <3> QED
      BY <2>1, <2>2, <2>3, <2>4, <3>1, <3>2 DEF SaveInv, M
  <2>9. CASE page = RegionPages - 1
    <3>1. /\ page' = 0
          /\ pc' = IF Complete /\ pc = "int_files" THEN "strs" ELSE "end"
          /\ res' = IF Complete THEN res ELSE "UNKNOWN_ERROR"
      BY <1>3, <2>5, <2>9 DEF WriteFile
    <3>2. Saved(M, RegionPages)'
      BY <2>3, <2>7, <2>9 DEF Saved
    <3>3. Complete => SavedAll(M)'
      BY <2>3, <2>4, <3>2 DEF SavedAll
    <3>4. CASE Complete /\ pc = "int_files"
      BY <2>2, <2>4, <3>1, <3>3, <3>4 DEF SaveInv, M
    <3>5. CASE Complete /\ pc = "str_files"
      <4>1. M = pools
        BY <2>4, <2>5, <3>5, SameRegion
      <4>2. M' = pools' /\ SavedAll(pools)'
        BY <2>2, <3>3, <3>5, <4>1 DEF SavedAll, Saved
      <4> QED
        BY <3>1, <3>5, <4>2 DEF SaveInv, M
    <3>6. CASE ~Complete
      BY <3>1, <3>6 DEF SaveInv
    <3> QED
      BY <2>1, <3>4, <3>5, <3>6
  <2> QED
    BY <2>5, <2>8, <2>9
<1>4. CASE UNCHANGED vars
  <2>1. UNCHANGED vars /\ app' = app
    BY <1>4 DEF vars
  <2>2. /\ NumInts' = NumInts /\ RegionPages' = RegionPages
        /\ Complete' = Complete /\ FilesUsed' = FilesUsed
        /\ \A c, p : PageOf(c, p)' = PageOf(c, p)
    BY <2>1, SamePages
  <2>3. Target' = Target
    BY <2>1 DEF Target, vars
  <2>4. \A c, n : (Saved(c, n)' <=> Saved(c, n))
    BY <2>1, <2>2 DEF Saved, vars
  <2> QED
    BY <2>1, <2>2, <2>3, <2>4 DEF SaveInv, SavedAll, vars
<1>5. Boot \/ Reload \/ Edit \/ ParamsSave \/ EndSave \/ Kill \/ Update => pc' \in {"idle", "ints"}
  BY DEF Boot, Reload, Edit, ParamsSave, EndSave, Kill, Update, Idle, BaseInv, Shape
<1> QED
  BY <1>1, <1>2, <1>3, <1>4, <1>5 DEF Next, SaveStep

LEMMA SaveHolds == Spec => [](BaseInv /\ SaveInv)
<1>1. Init => SaveInv
  BY DEF Init, SaveInv
<1>2. BaseInv /\ SaveInv /\ [Next]_vars => SaveInv'
  BY SaveInvStep
<1> QED
  BY <1>1, <1>2, BaseHolds, PTL DEF Spec

\* What paramsSave acknowledges is what the next process loads from the files,
\* if they could be written: the integers, and the strings if each of them is
\* on one line.
THEOREM SitlAcknowledged == Spec => AcknowledgedIsInFiles
<1>1. ASSUME BaseInv, SaveInv, Next, SaveAcknowledged
      PROVE  /\ Recovered(nvm').ints = Loaded(pools').ints
             /\ PlainFiles(nvm') => Recovered(nvm') = Loaded(Printed(pools'))
  <2>1. pc = "end" /\ pc' = "idle" /\ running' /\ res' = "OK" /\ ~app.faulty /\ app.named
    BY <1>1 DEF SaveAcknowledged, SaveReturns
  <2>2. EndSave
    <3>1. ~Boot /\ ~Reload /\ ~Edit /\ ~ParamsSave /\ ~WriteInts /\ ~WriteStrs /\ ~WriteFile
      BY <1>1, <2>1 DEF Boot, Reload, Edit, ParamsSave, WriteInts, WriteStrs, WriteFile, Idle,
                        BaseInv, Shape
    <3>2. ~Kill /\ ~Update
      BY <1>1, <2>1 DEF Kill, Update, BaseInv, Shape
    <3> QED
      BY <1>1, <3>1, <3>2 DEF Next, SaveStep
  <2>3. nvm' = nvm /\ pools' = pools /\ res = "OK"
    BY <2>1, <2>2 DEF EndSave
  <2>4. SavedAll(pools)
    BY <1>1, <2>1, <2>3 DEF SaveInv
  <2>5. FilesHold(nvm, pools)
    BY <2>1, <2>4 DEF FilesHold, SavedAll, Saved
  <2> DEFINE c == ReadFiles(nvm, Blank)
  <2>6. /\ app \in Apps /\ FilesTyped(nvm) /\ IsContent(pools) /\ IsContent(Blank)
    BY <1>1, BaseFacts
  <2>7. c.ints = pools.ints /\ (PlainFiles(nvm) => c = Printed(pools))
    BY <2>5, <2>6, ReadBack, Zenon
  <2>8. \A d, e : d.ints = e.ints => Loaded(d).ints = Loaded(e).ints
    BY DEF Loaded
  <2>9. Recovered(nvm') = Loaded(c)
    BY <2>3 DEF Recovered
  <2> HIDE DEF c
  <2>10. Loaded(c).ints = Loaded(pools).ints
    BY <2>7, <2>8, Zenon
  <2> QED
    BY <2>3, <2>7, <2>9, <2>10, Zenon
<1>2. BaseInv /\ SaveInv /\ [Next]_vars =>
          [SaveAcknowledged =>
              /\ Recovered(nvm').ints = Loaded(pools').ints
              /\ PlainFiles(nvm') => Recovered(nvm') = Loaded(Printed(pools'))]_vars
  BY <1>1
<1> QED
  BY <1>2, SaveHolds, PTL DEF Spec, AcknowledgedIsInFiles

----------------------------------------------------------------------------
(* Recovery                                                                *)

\* What paramsLoad makes of a string.
LoadedStr(j, s) == IF s = "" THEN app.strs[j] ELSE s

\* What a new process has of each integer and, if the files do not hold more
\* integers than the program has, of each string.
ReadOf(files, i) == IF FilesUsed /\ i <= Len(IntsRead(files)) THEN IntsRead(files)[i] ELSE 0

RecoveredAsRead(files) ==
    /\ Len(IntsRead(files)) \in Nat /\ Len(StrsRead(files)) \in Nat
    /\ \A i \in 1 .. NumInts : Recovered(files).ints[i] = LoadedInt(i, ReadOf(files, i))
    /\ FilesUsed /\ Len(IntsRead(files)) <= NumInts =>
          \A j \in 1 .. NumStrs :
             j <= Len(StrsRead(files)) =>
                Recovered(files).strs[j] = LoadedStr(j, StrsRead(files)[j])

LEMMA RecoveredFacts ==
    app \in Apps => \A files : FilesTyped(files) /\ PlainFiles(files) => RecoveredAsRead(files)
<1> SUFFICES ASSUME app \in Apps, NEW files, FilesTyped(files), PlainFiles(files)
             PROVE  RecoveredAsRead(files)
  OBVIOUS
<1> DEFINE c == ReadFiles(files, Blank)
           a == IntsRead(files)
           b == StrsRead(files)
           t == LinesTaken(files).strs
<1>1. a \in Seq(Int) /\ b \in Seq(Unquoted) /\ Len(a) \in Nat /\ Len(b) \in Nat
  <2>1. a \in Seq(Int) /\ b \in Seq(Unquoted)
    BY ReadFacts
  <2> HIDE DEF a, b
  <2> QED
    BY <2>1
<1>2. NumInts \in Nat /\ NumStrs \in Nat /\ IsContent(Blank)
  BY AppFacts, BlankFacts
<1>3. /\ LinesTaken(files).ints = a /\ t \in Seq(Strings)
      /\ Len(t) = IF Len(a) > NumInts THEN 0 ELSE Smaller(Len(b), NumStrs)
      /\ \A j \in 1 .. Len(t) : t[j] = b[j]
  <2>1. LinesTaken(files) \in Content
    BY LinesTakenFacts, PlainIsContent
  <2>2. t \in Seq(Strings)
    BY <2>1 DEF Content
  <2> QED
    BY <2>2, PlainLines
<1>4. /\ IsContent(c)
      /\ \A i \in 1 .. NumInts : c.ints[i] = IF FilesUsed /\ i <= Len(a) THEN a[i] ELSE Blank.ints[i]
  <2>1. /\ IsContent(c)
        /\ \A i \in 1 .. NumInts :
              c.ints[i] = IF FilesUsed /\ i <= Len(LinesTaken(files).ints)
                          THEN LinesTaken(files).ints[i] ELSE Blank.ints[i]
    BY <1>2, ReadFilesFacts
  <2> HIDE DEF a, c
  <2> QED
    BY <1>3, <2>1
<1>5. Recovered(files) = Loaded(c)
  BY DEF Recovered
<1>6. \A i \in 1 .. NumInts : Loaded(c).ints[i] = LoadedInt(i, ReadOf(files, i))
  <2>1. \A i \in 1 .. NumInts : Blank.ints[i] = 0
    BY DEF Blank
  <2>2. \A i \in 1 .. NumInts : c.ints[i] = ReadOf(files, i)
    <3> HIDE DEF c
    <3> QED
      BY <1>4, <2>1 DEF ReadOf
  <2>3. \A i \in 1 .. NumInts : Loaded(c).ints[i] = LoadedInt(i, c.ints[i])
    <3> HIDE DEF c
    <3> QED
      BY <1>4, LoadedFacts
  <2> HIDE DEF c
  <2> QED
    BY <2>2, <2>3
<1>7. ASSUME FilesUsed, Len(a) <= NumInts, NEW j \in 1 .. NumStrs, j <= Len(b)
      PROVE  Loaded(c).strs[j] = LoadedStr(j, b[j])
  <2>1. c.strs = Overwrite(Blank.strs, t)
    <3>1. ~(Len(a) > NumInts)
      BY <1>1, <1>2, <1>7
    <3>2. c = [ints |-> Overwrite(Blank.ints, LinesTaken(files).ints),
               strs |-> StrsTaken(Blank.strs, LinesTaken(files))]
      BY <1>7, ReadByLines, Zenon
    <3>3. StrsTaken(Blank.strs, LinesTaken(files)) = Overwrite(Blank.strs, t)
      BY <1>3, <3>1, Zenon DEF StrsTaken
    <3> HIDE DEF c, b, a
    <3> QED
      BY <3>2, <3>3
  <2>2. Overwrite(Blank.strs, t)[j] = b[j]
    <3>1. Blank.strs \in Seq(Strings) /\ Len(Blank.strs) = NumStrs
      BY <1>2 DEF IsContent, Content
    <3> HIDE DEF a, b, t
    <3>2. j <= Len(t) /\ j \in 1 .. Len(t)
      BY <1>1, <1>2, <1>3, <1>7 DEF Smaller
    <3> QED
      BY <1>3, <3>1, <3>2, OverwriteFacts
  <2>3. c.strs \in Seq(Strings) /\ Len(c.strs) = NumStrs
    <3> HIDE DEF c
    <3> QED
      BY <1>4 DEF IsContent, Content
  <2>4. Loaded(c).strs = [k \in DOMAIN c.strs |-> IF c.strs[k] = "" THEN app.strs[k] ELSE c.strs[k]]
    BY DEF Loaded
  <2>5. j \in DOMAIN c.strs
    BY <2>3
  <2> HIDE DEF c, b
  <2>6. Loaded(c).strs[j] = IF c.strs[j] = "" THEN app.strs[j] ELSE c.strs[j]
    BY <2>4, <2>5
  <2> QED
    BY <2>1, <2>2, <2>6 DEF LoadedStr
<1> HIDE DEF a, b, c
<1> QED
  BY <1>1, <1>5, <1>6, <1>7 DEF a, b, RecoveredAsRead

\* An integer is the old one, or what is left of the new one.
Stays(i, old, new, v) == new = old \/ \E z \in FirstDigits(v) : new = LoadedInt(i, z)

LEMMA IntegersStay ==
    ASSUME app \in Apps, NEW files, FilesTyped(files), NEW c, IsContent(c), FilesUsed,
           NEW p \in 0 .. RegionPages - 1,
           NEW left \in {PageOf(c, p), files[p]} \cup Cuts(PageOf(c, p)),
           PlainFiles(files), PlainFiles([files EXCEPT ![p] = left]),
           NEW i \in 1 .. NumInts
    PROVE  Stays(i, Recovered(files).ints[i],
                 Recovered([files EXCEPT ![p] = left]).ints[i], c.ints[i])
<1> DEFINE written == [files EXCEPT ![p] = left]
           Stay == written[0] = files[0]
           x == Recovered(written).ints[i]
           y == Recovered(files).ints[i]
           V == FirstDigits(c.ints[i])
<1> SUFFICES x = y \/ \E v \in V : x = LoadedInt(i, v)
  BY DEF Stays
<1>1. /\ FilesTyped(written)
      /\ p # 0 => Stay
      /\ p = 0 => written[0] = left
      /\ p = 0 /\ left # files[0] =>
            /\ left \in FileContent /\ Len(left.ints) <= NumInts
            /\ \A k \in 1 .. Len(left.ints) : left.ints[k] \in FirstDigits(c.ints[k])
  BY PageWritten, Zenon
<1>0. PlainFiles(written)
  OBVIOUS
<1> HIDE DEF written
<1>2. x = LoadedInt(i, ReadOf(written, i)) /\ y = LoadedInt(i, ReadOf(files, i))
  BY <1>0, <1>1, RecoveredFacts, Zenon DEF RecoveredAsRead
<1>3. /\ IntsRead(written)
             = (IF PageFile(written, 0) = NoFile THEN <<>> ELSE PageFile(written, 0).ints)
      /\ IntsRead(files) = (IF PageFile(files, 0) = NoFile THEN <<>> ELSE PageFile(files, 0).ints)
  <2>1. \A f : FilesTyped(f) =>
            IntsRead(f) = IF PageFile(f, 0) = NoFile THEN <<>> ELSE PageFile(f, 0).ints
    BY ReadFacts
  <2> QED
    BY <1>1, <2>1, Zenon
<1>4. CASE Stay
  <2>1. PageFile(written, 0) = PageFile(files, 0)
    BY <1>4, Zenon DEF PageFile
  <2>2. x = y
    BY <1>2, <1>3, <2>1 DEF ReadOf
  <2> QED
    BY <2>2, Zenon
<1>5. CASE ~Stay
  <2>1. p = 0 /\ written[0] = left /\ left # files[0]
    BY <1>1, <1>5, Zenon
  <2>2. /\ left \in FileContent
        /\ \A k \in 1 .. Len(left.ints) : left.ints[k] \in FirstDigits(c.ints[k])
    BY <1>1, <2>1, Zenon
  <2>3. IntsRead(written) = left.ints /\ left.ints \in Seq(Int)
    <3>1. left # NoFile
      BY <2>2, FileContentIsContent, Zenon
    <3>2. PageFile(written, 0) = left
      BY <2>1, <3>1, Zenon DEF PageFile
    <3> QED
      BY <1>3, <2>2, <3>1, <3>2, Zenon DEF FileContent
  <2> DEFINE z == IF i <= Len(left.ints) THEN left.ints[i] ELSE 0
  <2>4. x = LoadedInt(i, z)
    BY <1>2, <2>3, Zenon DEF ReadOf
  <2>5. z \in V
    <3>1. CASE i <= Len(left.ints)
      <4>1. i \in 1 .. Len(left.ints)
        BY <2>3, <3>1
      <4> QED
        BY <2>2, <3>1, <4>1, Zenon
    <3>2. CASE ~(i <= Len(left.ints))
      <4>1. c.ints[i] \in Int
        BY DEF IsContent, Content
      <4>2. 0 \in V
        BY <4>1 DEF FirstDigits
      <4> QED
        BY <3>2, <4>2, Zenon
    <3> QED
      BY <3>1, <3>2
  <2> HIDE DEF x, y, z, V
  <2> QED
    BY <2>4, <2>5, Zenon
<1> HIDE DEF x, y, V, Stay
<1> QED
  BY <1>4, <1>5

\* An integer never takes the place of another one, whatever is cut, as long as
\* every string in the files is on one line.
THEOREM SitlIntegersStay == Spec => IntegersStayInPlace
<1> DEFINE Old(i) == {Recovered(nvm).ints[i]}
           Left(i) == {LoadedInt(i, v) : v \in FirstDigits(pools.ints[i])}
<1>1. ASSUME BaseInv, SaveInv, Next, PlainFiles(nvm), PlainFiles(nvm'), NEW i \in 1 .. NumInts
      PROVE  Recovered(nvm').ints[i] \in Old(i) \cup Left(i)
  <2>1. \/ nvm' = nvm
        \/ /\ pc \in {"int_files", "str_files"}
           /\ \E left \in {PageOf(memory[Target], page), nvm[page]}
                          \cup Cuts(PageOf(memory[Target], page)) :
                 nvm' = [nvm EXCEPT ![page] = left]
    <3>1. CASE WriteFile
      BY <3>1, Zenon DEF WriteFile
    <3>2. CASE Kill
      BY <3>2, Zenon DEF Kill
    <3>3. CASE Boot \/ Reload \/ Edit \/ ParamsSave \/ WriteInts \/ WriteStrs \/ EndSave \/ Update
      BY <3>3, Zenon DEF Boot, Reload, Edit, ParamsSave, WriteInts, WriteStrs, EndSave, Update
    <3> QED
      BY <1>1, <3>1, <3>2, <3>3 DEF Next, SaveStep
  <2>2. CASE nvm' = nvm
    <3>1. Recovered(nvm').ints[i] = Recovered(nvm).ints[i]
      BY <2>2
    <3> QED
      BY <3>1, Zenon
  <2>3. ASSUME pc \in {"int_files", "str_files"},
               NEW left \in {PageOf(memory[Target], page), nvm[page]}
                            \cup Cuts(PageOf(memory[Target], page)),
               nvm' = [nvm EXCEPT ![page] = left]
        PROVE  Recovered(nvm').ints[i] \in Old(i) \cup Left(i)
    <3>1. memory[Target].ints = pools.ints /\ FilesUsed
      BY <1>1, <2>3 DEF SaveInv
    <3>2. /\ app \in Apps /\ FilesTyped(nvm) /\ IsContent(memory[Target])
          /\ page \in 0 .. RegionPages - 1
      BY <1>1, BaseFacts, Zenon
    <3>3. Stays(i, Recovered(nvm).ints[i], Recovered([nvm EXCEPT ![page] = left]).ints[i],
                memory[Target].ints[i])
      BY <1>1, <2>3, <3>1, <3>2, IntegersStay, Zenon
    <3> QED
      BY <2>3, <3>1, <3>3, Zenon DEF Stays
  <2> QED
    BY <2>1, <2>2, <2>3
<1>2. BaseInv /\ SaveInv /\ [Next]_vars =>
          [PlainFiles(nvm) /\ PlainFiles(nvm') =>
              LET old == Recovered(nvm)
                  new == Recovered(nvm')
              IN \A i \in 1 .. NumInts :
                    new.ints[i] \in {old.ints[i]}
                        \cup {LoadedInt(i, v) : v \in FirstDigits(pools.ints[i])}]_vars
  BY <1>1
<1> QED
  BY <1>2, SaveHolds, PTL DEF Spec, IntegersStayInPlace

----------------------------------------------------------------------------
(* Replacing the program                                                   *)

\* Complete files are all read.
LEMMA CompleteFiles ==
    ASSUME app \in Apps, FilesTyped(nvm), FilesComplete
    PROVE  /\ \A p \in 0 .. RegionPages - 1 : nvm[p] # NoFile
           /\ Len(IntsRead(nvm)) = NumInts /\ IntsRead(nvm) = nvm[0].ints
           /\ Len(StrsRead(nvm)) = NumStrs
           /\ \E ints, strs : PagesHave(nvm, RegionPages, ints, strs)
<1> DEFINE n == RegionPages
           pages == [k \in 1 .. n |-> nvm[k - 1]]
           a == [k \in DOMAIN pages |-> pages[k].ints]
           b == [k \in DOMAIN pages |-> pages[k].strs]
<1>1. n \in Nat /\ n >= 1 /\ 0 \in 0 .. n - 1 /\ \A k \in 1 .. n : k - 1 \in 0 .. n - 1
  BY AppFacts
<1>2. /\ \A k \in DOMAIN pages : pages[k] # NoFile
      /\ Len(FlattenSeq(a)) = NumInts /\ Len(FlattenSeq(b)) = NumStrs
  BY DEF FilesComplete
<1>3. \A p \in 0 .. n - 1 : nvm[p] # NoFile /\ PageFile(nvm, p) = nvm[p]
  <2> TAKE p \in 0 .. n - 1
  <2>1. p + 1 \in 1 .. n /\ (p + 1) - 1 = p
    BY <1>1
  <2>2. pages[p + 1] = nvm[p] /\ p + 1 \in DOMAIN pages
    BY <2>1
  <2>3. nvm[p] # NoFile
    BY <1>2, <2>2
  <2> QED
    BY <2>3, Zenon DEF PageFile
<1>4. PICK m \in 0 .. n : /\ PagesRead(nvm) = [k \in 1 .. m |-> PageFile(nvm, k - 1)]
                          /\ m = n \/ PageFile(nvm, m) = NoFile
  BY PagesReadFacts, Zenon
<1>5. m = n
  <2>1. m # n => m \in 0 .. n - 1
    BY <1>1
  <2> QED
    BY <1>3, <1>4, <2>1, Zenon
<1>6. PagesRead(nvm) = pages
  <2>1. \A k \in 1 .. n : PageFile(nvm, k - 1) = nvm[k - 1]
    BY <1>1, <1>3, Zenon
  <2> HIDE DEF n
  <2> QED
    BY <1>4, <1>5, <2>1
<1>7. IntsRead(nvm) = FlattenSeq(a) /\ StrsRead(nvm) = FlattenSeq(b)
  BY <1>6 DEF IntsRead, StrsRead
<1>8. IntsRead(nvm) = nvm[0].ints
  <2>1. IntsRead(nvm) = IF PageFile(nvm, 0) = NoFile THEN <<>> ELSE PageFile(nvm, 0).ints
    BY ReadFacts
  <2> QED
    BY <1>1, <1>3, <2>1, Zenon
<1>9. \E ints, strs : PagesHave(nvm, n, ints, strs)
  <2>1. PICK l \in 0 .. n : \E ints, strs : PagesHave(nvm, l, ints, strs)
    BY ReadPages
  <2>2. l = n \/ PageFile(nvm, l) = NoFile
    BY <2>1 DEF PagesHave
  <2>3. l = n
    <3>1. l # n => l \in 0 .. n - 1
      BY <1>1
    <3> QED
      BY <1>3, <2>2, <3>1, Zenon
  <2> QED
    BY <2>1, <2>3
<1> HIDE DEF a, b
<1> QED
  BY <1>2, <1>3, <1>7, <1>8, <1>9

\* A program with no fewer parameters has no fewer pages.
LEMMA MorePages ==
    ASSUME NEW a \in Apps, NEW b \in Apps, Len(a.desc) <= Len(b.desc), Len(a.strs) <= Len(b.strs)
    PROVE  PagesOf(a) <= PagesOf(b)
<1> DEFINE i == Len(a.desc)
           j == Len(b.desc)
           s == Len(a.strs)
           t == Len(b.strs)
           m == Size(a)
           n == Size(b)
<1>1. /\ IntSize \in Nat /\ StrSize \in Nat /\ PageSize \in Nat \ {0}
      /\ i \in Nat /\ j \in Nat /\ s \in Nat /\ t \in Nat /\ i <= j /\ s <= t
  <2>1. \A c \in Apps : /\ c.desc \in Seq([min : Int, max : Int, def : Int])
                        /\ c.strs \in Seq(Strings \ {QuotedStr, NumberedStr, NamedStr})
    BY SitlAssumption, Zenon
  <2>2. \A c \in Apps : Len(c.desc) \in Nat /\ Len(c.strs) \in Nat
    BY <2>1
  <2> QED
    BY <2>2, Sizes
<1>2. m = IntSize * i + StrSize * s /\ n = IntSize * j + StrSize * t
  BY DEF Size
<1> HIDE DEF i, j, s, t, m, n
<1>3. /\ IntSize * i \in Nat /\ IntSize * j \in Nat /\ StrSize * s \in Nat /\ StrSize * t \in Nat
      /\ IntSize * (j - i) \in Nat /\ StrSize * (t - s) \in Nat
      /\ IntSize * (j - i) = IntSize * j - IntSize * i
      /\ StrSize * (t - s) = StrSize * t - StrSize * s
  BY <1>1, SMT
<1>4. m \in Nat /\ n \in Nat /\ m <= n
  BY <1>2, <1>3, SMTT(30)
<1> DEFINE x == m + PageSize - 1
           y == n + PageSize - 1
           p == x \div PageSize
           q == y \div PageSize
<1>5. x \in Nat /\ y \in Nat /\ x <= y
  BY <1>1, <1>4
<1> HIDE DEF x, y
<1>6. p \in Nat /\ q \in Nat
  BY <1>1, <1>5, Quotient
<1>7. PageSize * p <= x /\ (p <= q <=> PageSize * p <= y)
  BY <1>1, <1>5, <1>6, Quotient
<1>8. PageSize * p \in Int
  BY <1>1, <1>6, SMT
<1>9. p <= q
  BY <1>5, <1>7, <1>8
<1>10. 1 <= q \/ n = 0
  <2>1. n # 0 => PageSize * 1 <= y
    BY <1>1, <1>4 DEF y
  <2>2. 1 <= q <=> PageSize * 1 <= y
    BY <1>1, <1>5, Quotient
  <2> QED
    BY <2>1, <2>2
<1>11. /\ PagesOf(a) = (IF m = 0 THEN 1 ELSE p)
       /\ PagesOf(b) = (IF n = 0 THEN 1 ELSE q)
  BY DEF PagesOf, m, n, x, y
<1> HIDE DEF p, q
<1> QED
  BY <1>4, <1>6, <1>9, <1>10, <1>11

\* The strings of the files of a program are the first that a program with no
\* fewer pages reads.
LEMMA StringsKept ==
    ASSUME BaseInv, app' \in Apps, nvm' = nvm, FilesComplete, RegionPages <= RegionPages'
    PROVE  /\ NumStrs <= Len(StrsRead(nvm)')
           /\ \A j \in 1 .. NumStrs : StrsRead(nvm)'[j] = StrsRead(nvm)[j]
<1>1. /\ app \in Apps /\ FilesTyped(nvm)
      /\ \A p \in 0 .. RegionPages - 1 : nvm[p] # NoFile
      /\ Len(StrsRead(nvm)) = NumStrs
      /\ RegionPages \in Nat
  BY BaseFacts, CompleteFiles
<1>2. PICK a, b : PagesHave(nvm, RegionPages, a, b)
  BY <1>1, CompleteFiles
<1>3. (app \in Apps =>
          \A files : FilesTyped(files) =>
              \E n \in 0 .. RegionPages : \E ints, strs : PagesHave(files, n, ints, strs))'
  BY ReadPages, PTL
<1>4. FilesTyped(nvm')
  BY <1>1
<1>5. \E n \in 0 .. RegionPages' : \E ints, strs : PagesHave(nvm, n, ints, strs)'
  <2>1. \A files : FilesTyped(files)' =>
            \E n \in 0 .. RegionPages' : \E ints, strs : PagesHave(files, n, ints, strs)'
    BY <1>3
  <2>2. FilesTyped(nvm)'
    BY <1>4 DEF FilesTyped
  <2> QED
    BY <2>1, <2>2
<1>6. PICK n \in 0 .. RegionPages' : \E ints, strs : PagesHave(nvm, n, ints, strs)'
  BY <1>5
<1>7. PICK c, d : PagesHave(nvm, n, c, d)'
  BY <1>6
<1>8. /\ b \in Seq(Seq(Unquoted)) /\ Len(b) = RegionPages /\ StrsRead(nvm) = FlattenSeq(b)
      /\ \A k \in 1 .. RegionPages : b[k] = PageFile(nvm, k - 1).strs
  BY <1>2 DEF PagesHave
<1>9. /\ d \in Seq(Seq(Unquoted)) /\ Len(d) = n /\ StrsRead(nvm)' = FlattenSeq(d)
      /\ \A k \in 1 .. n : d[k] = PageFile(nvm, k - 1)'.strs
      /\ n = RegionPages' \/ PageFile(nvm, n)' = NoFile
  BY <1>7 DEF PagesHave
<1>10. \A p \in 0 .. RegionPages - 1 : PageFile(nvm, p) = nvm[p] /\ PageFile(nvm, p)' = nvm[p]
  BY <1>1, Zenon DEF PageFile
<1>11. n \in Nat /\ RegionPages <= n
  <2>1. RegionPages' \in Nat
    <3>1. (app \in Apps => RegionPages \in Nat /\ RegionPages >= 1)'
      BY APage, PTL
    <3> QED
      BY <3>1
  <2>2. n < RegionPages => n \in 0 .. RegionPages - 1 /\ n # RegionPages'
    BY <1>1, <2>1
  <2> QED
    BY <1>1, <1>9, <1>10, <2>1, <2>2
<1>12. \A k \in 1 .. RegionPages : d[k] = b[k]
  <2> TAKE k \in 1 .. RegionPages
  <2>1. k \in 1 .. n /\ k - 1 \in 0 .. RegionPages - 1
    BY <1>1, <1>11
  <2> QED
    BY <1>8, <1>9, <1>10, <2>1
<1>13. /\ Len(FlattenSeq(b)) <= Len(FlattenSeq(d))
       /\ \A j \in 1 .. Len(FlattenSeq(b)) : FlattenSeq(d)[j] = FlattenSeq(b)[j]
  BY <1>8, <1>9, <1>11, <1>12, FlattenPrefix
<1> QED
  BY <1>1, <1>8, <1>9, <1>13

\* A new version of the program keeps the parameters that it did not change.
THEOREM SitlUpdateKeeps == Spec => UpdateKeepsParameters
<1> DEFINE Kept ==
        LET old == Recovered(nvm)
            new == Recovered(nvm)'
        IN /\ \A i \in 1 .. Smaller(NumInts, NumInts') :
                  app'.desc[i] = app.desc[i] => new.ints[i] = old.ints[i]
           /\ NumInts' >= NumInts /\ NumStrs' >= NumStrs =>
                  \A j \in 1 .. NumStrs :
                      app'.strs[j] = app.strs[j] => new.strs[j] = old.strs[j]
<1>1. ASSUME BaseInv, BaseInv', UpdateOfFiles
      PROVE  Kept
  <2> DEFINE a == IntsRead(nvm)
             b == StrsRead(nvm)
             old == Recovered(nvm)
  <2>1. nvm' = nvm /\ app \in Apps /\ app' \in Apps /\ FilesTyped(nvm) /\ FilesTyped(nvm)'
    <3>1. nvm' = nvm
      BY <1>1 DEF Update, UpdateOfFiles
    <3> QED
      BY <1>1, <3>1 DEF BaseInv, TypeOK
  <2>2. NumInts \in Nat /\ NumStrs \in Nat
    BY <2>1, AppFacts
  <2>3. NumInts' \in Nat /\ NumStrs' \in Nat
    <3>1. app' = app' /\ app'.desc \in Seq([min : Int, max : Int, def : Int])
          /\ app'.strs \in Seq(Strings \ {QuotedStr, NumberedStr, NamedStr})
      BY <2>1, SitlAssumption
    <3> QED
      BY <3>1 DEF NumInts, NumStrs
  <2>4. /\ \A p \in 0 .. RegionPages - 1 : nvm[p] # NoFile
        /\ Len(a) = NumInts /\ a = nvm[0].ints /\ Len(b) = NumStrs
    BY <1>1, <2>1, CompleteFiles DEF UpdateOfFiles
  <2>5. /\ \A i \in 1 .. NumInts : old.ints[i] = LoadedInt(i, IF i <= Len(a) THEN a[i] ELSE 0)
        /\ \A j \in 1 .. NumStrs : j <= Len(b) => old.strs[j] = LoadedStr(j, b[j])
    <3>1. Len(a) <= NumInts
      BY <2>2, <2>4
    <3>2. RecoveredAsRead(nvm) /\ FilesUsed
      BY <1>1, <2>1, RecoveredFacts DEF UpdateOfFiles
    <3> HIDE DEF a, b, old
    <3> QED
      BY <3>1, <3>2 DEF a, b, old, RecoveredAsRead, ReadOf
  <2>6. (app \in Apps =>
            \A files : FilesTyped(files) /\ PlainFiles(files) => RecoveredAsRead(files))'
    BY RecoveredFacts, PTL
  <2>7. /\ \A i \in 1 .. NumInts' : old'.ints[i] = LoadedInt(i, IF i <= Len(a) THEN a[i] ELSE 0)'
        /\ Len(a') <= NumInts' =>
              \A j \in 1 .. NumStrs' : j <= Len(b') => old'.strs[j] = LoadedStr(j, b[j])'
    <3>1. FilesUsed' /\ PlainFiles(nvm)'
      BY <1>1 DEF UpdateOfFiles
    <3>2. RecoveredAsRead(nvm)'
      BY <2>1, <2>6, <3>1
    <3> QED
      BY <3>1, <3>2 DEF RecoveredAsRead, ReadOf
  <2>8. a' = a
    <3>1. (app \in Apps =>
              \A files : FilesTyped(files) =>
                  /\ IntsRead(files)
                         = IF PageFile(files, 0) = NoFile THEN <<>> ELSE PageFile(files, 0).ints
                  /\ IntsRead(files) \in Seq(Int) /\ StrsRead(files) \in Seq(Unquoted))'
      BY ReadFacts, PTL
    <3>2. a' = (IF PageFile(nvm, 0) = NoFile THEN <<>> ELSE PageFile(nvm, 0).ints)'
      BY <2>1, <3>1
    <3>3. nvm[0] # NoFile
      <4>1. 0 \in 0 .. RegionPages - 1
        BY <1>1, BaseFacts, Zenon
      <4> QED
        BY <2>4, <4>1
    <3>4. PageFile(nvm, 0)' = nvm[0]
      BY <2>1, <3>3, Zenon DEF PageFile
    <3> QED
      BY <2>4, <3>2, <3>3, <3>4
  <2> HIDE DEF a, b, old
  <2>9. ASSUME NEW i \in 1 .. Smaller(NumInts, NumInts'), app'.desc[i] = app.desc[i]
        PROVE  old'.ints[i] = old.ints[i]
    <3>1. i \in 1 .. NumInts /\ i \in 1 .. NumInts' /\ i <= Len(a)
      BY <2>2, <2>3, <2>4 DEF Smaller
    <3>2. old.ints[i] = LoadedInt(i, a[i])
      BY <2>5, <3>1
    <3>3. old'.ints[i] = IF app'.desc[i].min <= a[i] /\ a[i] <= app'.desc[i].max
                        THEN a[i] ELSE app'.desc[i].def
      BY <2>7, <2>8, <3>1 DEF LoadedInt, InRange
    <3> QED
      BY <2>9, <3>2, <3>3 DEF LoadedInt, InRange
  <2>10. ASSUME NumInts' >= NumInts, NumStrs' >= NumStrs, NEW j \in 1 .. NumStrs,
                app'.strs[j] = app.strs[j]
         PROVE  old'.strs[j] = old.strs[j]
    <3>1. RegionPages <= RegionPages'
      BY <2>1, <2>10, MorePages DEF RegionPages, NumInts, NumStrs
    <3>2. NumStrs <= Len(b') /\ b'[j] = b[j]
      BY <1>1, <2>1, <3>1, StringsKept DEF b, UpdateOfFiles
    <3>3. b' \in Seq(Unquoted)
      <4>1. (app \in Apps =>
                \A files : FilesTyped(files) =>
                    /\ IntsRead(files)
                           = IF PageFile(files, 0) = NoFile THEN <<>> ELSE PageFile(files, 0).ints
                    /\ IntsRead(files) \in Seq(Int) /\ StrsRead(files) \in Seq(Unquoted))'
        BY ReadFacts, PTL
      <4> QED
        BY <2>1, <4>1 DEF b
    <3>4. j \in 1 .. NumStrs' /\ j <= Len(b') /\ j <= Len(b) /\ Len(a') <= NumInts'
      BY <2>2, <2>3, <2>4, <2>8, <2>10, <3>2, <3>3
    <3>5. old.strs[j] = IF b[j] = "" THEN app.strs[j] ELSE b[j]
      BY <2>5, <3>4 DEF LoadedStr
    <3>6. old'.strs[j] = IF b'[j] = "" THEN app'.strs[j] ELSE b'[j]
      BY <2>7, <3>4 DEF LoadedStr
    <3> QED
      BY <2>10, <3>2, <3>5, <3>6
  <2> QED
    BY <2>9, <2>10, Zenon DEF old
<1>2. BaseInv /\ BaseInv' /\ [Next]_vars =>
          [UpdateOfFiles => Kept]_vars
  BY <1>1
<1> QED
  BY <1>2, BaseHolds, PTL DEF Spec, UpdateKeepsParameters

----------------------------------------------------------------------------
(* Starting and loading again                                              *)

\* A number in a file is what is left of one that some version of the program
\* had in its pools.
PoolsInRange == running => \A i \in 1 .. NumInts : InRange(i, pools.ints[i])
OfSomeVersion ==
    nvm[0] # NoFile =>
        \A i \in 1 .. Len(nvm[0].ints) :
            \E a \in Apps :
                /\ app \in Versions(a) /\ i \in 1 .. Len(a.desc)
                /\ \E v \in a.desc[i].min .. a.desc[i].max : nvm[0].ints[i] \in FirstDigits(v)
RangeInv == PoolsInRange /\ OfSomeVersion

LEMMA VersionsFacts ==
    /\ \A a \in Apps : a \in Versions(a)
    /\ \A a, b, c : b \in Versions(a) /\ <<b, c>> \in Updates => c \in Versions(a)
<1>1. \A a \in Apps : a \in Versions(a)
  BY DEF Versions
<1>2. ASSUME NEW a, NEW b, NEW c, b \in Versions(a), <<b, c>> \in Updates
      PROVE  c \in Versions(a)
  <2>1. c \in Apps
    <3>1. Updates \subseteq Apps \X Apps
      BY SitlAssumption, Zenon
    <3> QED
      BY <1>2, <3>1
  <2>2. ASSUME NEW S \in SUBSET Apps, a \in S, \A u \in Updates : u[1] \in S => u[2] \in S
        PROVE  c \in S
    <3>1. b \in S
      BY <1>2, <2>2 DEF Versions
    <3>2. <<b, c>>[1] = b /\ <<b, c>>[2] = c
      OBVIOUS
    <3> QED
      BY <1>2, <2>2, <3>1, <3>2
  <2> QED
    BY <2>1, <2>2 DEF Versions
<1> QED
  BY <1>1, <1>2

\* What a write leaves of page 0.
FirstPage(old, new, c) ==
    \/ new[0] = old[0]
    \/ /\ new[0] \in FileContent /\ Len(new[0].ints) <= NumInts
       /\ \A i \in 1 .. Len(new[0].ints) : new[0].ints[i] \in FirstDigits(c.ints[i])

LEMMA FirstPageLeft ==
    ASSUME app \in Apps, NEW files, FilesTyped(files), NEW c, IsContent(c),
           NEW p \in 0 .. RegionPages - 1,
           NEW left \in {PageOf(c, p), files[p]} \cup Cuts(PageOf(c, p))
    PROVE  FirstPage(files, [files EXCEPT ![p] = left], c)
<1> DEFINE new == [files EXCEPT ![p] = left]
<1>1. /\ FilesTyped(new)
      /\ p # 0 => new[0] = files[0]
      /\ p = 0 => new[0] = left
      /\ p = 0 /\ left # files[0] =>
            /\ left \in FileContent /\ Len(left.ints) <= NumInts
            /\ \A i \in 1 .. Len(left.ints) : left.ints[i] \in FirstDigits(c.ints[i])
  BY PageWritten, ZenonT(60)
<1> HIDE DEF new
<1>2. FirstPage(files, new, c)
  BY <1>1 DEF FirstPage
<1> QED
  BY <1>2 DEF new

\* Page 0 stays, or a write, a full disk or a kill leaves something of the
\* integers in the pools.
LEMMA FirstPageStep ==
    ASSUME BaseInv, SaveInv, Next
    PROVE  \/ nvm'[0] = nvm[0]
           \/ /\ running /\ app' = app
              /\ nvm'[0] \in FileContent /\ Len(nvm'[0].ints) <= NumInts
              /\ \A i \in 1 .. Len(nvm'[0].ints) : nvm'[0].ints[i] \in FirstDigits(pools.ints[i])
<1>1. CASE nvm' = nvm
  BY <1>1
<1>2. ASSUME NEW left \in {PageOf(memory[Target], page), nvm[page]}
                          \cup Cuts(PageOf(memory[Target], page)),
             pc \in {"int_files", "str_files"}, app' = app, nvm' = [nvm EXCEPT ![page] = left]
      PROVE  \/ nvm'[0] = nvm[0]
             \/ /\ running /\ app' = app
                /\ nvm'[0] \in FileContent /\ Len(nvm'[0].ints) <= NumInts
                /\ \A i \in 1 .. Len(nvm'[0].ints) : nvm'[0].ints[i] \in FirstDigits(pools.ints[i])
  <2>1. /\ app \in Apps /\ FilesTyped(nvm) /\ IsContent(memory[Target])
        /\ page \in 0 .. RegionPages - 1
    BY BaseFacts, Zenon
  <2>2. running /\ memory[Target].ints = pools.ints
    BY <1>2 DEF BaseInv, Shape, SaveInv
  <2>3. FirstPage(nvm, [nvm EXCEPT ![page] = left], memory[Target])
    BY <2>1, FirstPageLeft, Zenon
  <2>4. FirstPage(nvm, nvm', memory[Target])
    BY <1>2, <2>3
  <2> QED
    BY <1>2, <2>2, <2>4 DEF FirstPage
<1>3. CASE WriteFile
  <2>1. \E left \in {PageOf(memory[Target], page), nvm[page]}
                   \cup Cuts(PageOf(memory[Target], page)) :
            nvm' = [nvm EXCEPT ![page] = left]
    BY <1>3, Zenon DEF WriteFile
  <2>2. pc \in {"int_files", "str_files"} /\ app' = app
    BY <1>3 DEF WriteFile
  <2> QED
    BY <1>2, <2>1, <2>2, Zenon
<1>4. CASE Kill
  <2>1. \/ nvm' = nvm
        \/ /\ pc \in {"int_files", "str_files"}
           /\ \E left \in {PageOf(memory[Target], page), nvm[page]}
                          \cup Cuts(PageOf(memory[Target], page)) :
                 nvm' = [nvm EXCEPT ![page] = left]
    BY <1>4, Zenon DEF Kill
  <2>2. app' = app
    BY <1>4 DEF Kill
  <2> QED
    BY <1>1, <1>2, <2>1, <2>2, Zenon
<1>5. CASE Boot \/ Reload \/ Edit \/ ParamsSave \/ WriteInts \/ WriteStrs \/ EndSave \/ Update
  BY <1>1, <1>5, Zenon DEF Boot, Reload, Edit, ParamsSave, WriteInts, WriteStrs, EndSave, Update
<1> QED
  BY <1>3, <1>4, <1>5 DEF Next, SaveStep

LEMMA RangeStep == ASSUME BaseInv, SaveInv, RangeInv, [Next]_vars PROVE RangeInv'
<1>1. app \in Apps /\ NumInts \in Nat /\ IsContent(pools)
  BY BaseFacts, AppFacts
<1>2. PoolsInRange'
  <2>1. CASE UNCHANGED <<app, pools, running>>
    BY <2>1 DEF RangeInv, PoolsInRange, NumInts, InRange
  <2>2. CASE Kill \/ Update
    BY <2>2 DEF Kill, Update, PoolsInRange
  <2>3. ASSUME NEW c, IsContent(c), pools' = Loaded(c), app' = app
        PROVE  PoolsInRange'
    <3>1. \A i \in 1 .. NumInts : InRange(i, pools'.ints[i])
      BY <1>1, <2>3, LoadedFacts
    <3> QED
      BY <2>3, <3>1 DEF PoolsInRange, NumInts, InRange
  <2>4. CASE Boot
    <3>1. BaseInv'
      BY BaseStep
    <3>2. app' = app /\ pools' = Loaded(memory'[active_rom'])
      BY <2>4 DEF Boot
    <3>3. IsContent(memory'[active_rom'])
      <4>1. IsContent(memory[active_rom])'
        BY <3>1 DEF BaseInv, TypeOK
      <4> QED
        BY <3>2, <4>1 DEF IsContent, NumInts, NumStrs
    <3> QED
      BY <2>3, <3>2, <3>3
  <2>5. CASE Reload
    <3>1. IsContent(memory[active_rom])
      BY BaseFacts, Zenon
    <3> QED
      BY <2>3, <2>5, <3>1 DEF Reload
  <2>6. CASE Edit
    <3>1. app' = app /\ running' = running /\ running
      BY <2>6 DEF Edit, Idle
    <3>2. \A i \in 1 .. NumInts : InRange(i, pools.ints[i])
      BY <3>1 DEF RangeInv, PoolsInRange
    <3>3. \A i \in 1 .. NumInts : InRange(i, pools'.ints[i])
      <4>1. CASE pools' = Defaults
        <5>1. \A i \in 1 .. NumInts : Defaults.ints[i] = app.desc[i].def
          BY DEF Defaults
        <5> QED
          BY <1>1, <4>1, <5>1, AppFacts
      <4>2. ASSUME NEW j \in 1 .. NumStrs, NEW v \in app.set_strs,
                   pools' = [pools EXCEPT !.strs[j] = v]
            PROVE  pools'.ints = pools.ints
        <5>1. pools = [ints |-> pools.ints, strs |-> pools.strs]
          BY <1>1 DEF IsContent, Content
        <5> QED
          BY <4>2, <5>1
      <4>3. ASSUME NEW k \in 1 .. NumInts, NEW v \in SetInts, InRange(k, v),
                   pools' = [pools EXCEPT !.ints[k] = v]
            PROVE  \A i \in 1 .. NumInts : InRange(i, pools'.ints[i])
        <5>1. /\ pools = [ints |-> pools.ints, strs |-> pools.strs]
              /\ pools.ints \in Seq(Int) /\ Len(pools.ints) = NumInts
          BY <1>1 DEF IsContent, Content
        <5>2. pools'.ints = [pools.ints EXCEPT ![k] = v]
          BY <4>3, <5>1
        <5>3. \A i \in 1 .. NumInts : pools'.ints[i] = IF i = k THEN v ELSE pools.ints[i]
          BY <5>1, <5>2
        <5> QED
          BY <3>2, <4>3, <5>3
      <4> QED
        BY <2>6, <3>2, <4>1, <4>2, <4>3 DEF Edit
    <3> QED
      BY <3>1, <3>3 DEF PoolsInRange, NumInts, InRange
  <2>7. CASE ParamsSave \/ WriteInts \/ WriteStrs \/ WriteFile \/ EndSave
    BY <2>1, <2>7 DEF ParamsSave, WriteInts, WriteStrs, WriteFile, EndSave
  <2>8. CASE UNCHANGED vars
    BY <2>1, <2>8 DEF vars
  <2> QED
    BY <2>2, <2>4, <2>5, <2>6, <2>7, <2>8 DEF Next, SaveStep
<1>3. OfSomeVersion'
  <2>1. app' = app \/ <<app, app'>> \in Updates
    BY DEF Next, SaveStep, Boot, Reload, Edit, ParamsSave, WriteInts, WriteStrs, WriteFile, EndSave,
           Kill, Update, vars
  <2>2. \A a : app \in Versions(a) => app' \in Versions(a)
    BY <2>1, VersionsFacts
  <2>3. CASE nvm'[0] = nvm[0]
    BY <2>2, <2>3 DEF RangeInv, OfSomeVersion
  <2>4. CASE nvm'[0] # nvm[0]
    <3>1. /\ running /\ app' = app
          /\ nvm'[0] \in FileContent /\ Len(nvm'[0].ints) <= NumInts
          /\ \A i \in 1 .. Len(nvm'[0].ints) : nvm'[0].ints[i] \in FirstDigits(pools.ints[i])
      <4>1. Next
        BY <2>4 DEF vars
      <4> QED
        BY <2>4, <4>1, FirstPageStep
    <3>2. ASSUME NEW i \in 1 .. Len(nvm'[0].ints)
          PROVE  \E a \in Apps :
                     /\ app' \in Versions(a) /\ i \in 1 .. Len(a.desc)
                     /\ \E v \in a.desc[i].min .. a.desc[i].max : nvm'[0].ints[i] \in FirstDigits(v)
      <4>1. i \in 1 .. NumInts
        <5>1. nvm'[0].ints \in Seq(Int)
          BY <3>1 DEF FileContent
        <5> QED
          BY <1>1, <3>1, <5>1
      <4>2. pools.ints[i] \in app.desc[i].min .. app.desc[i].max
        <5>1. pools.ints[i] \in Int
          BY <1>1, <4>1 DEF IsContent, Content
        <5>2. app.desc[i].min \in Int /\ app.desc[i].max \in Int
          BY <1>1, <4>1, AppFacts
        <5> QED
          BY <3>1, <4>1, <5>1, <5>2 DEF RangeInv, PoolsInRange, InRange
      <4>3. app' \in Versions(app) /\ app' = app
        BY <1>1, <3>1, VersionsFacts
      <4> QED
        BY <1>1, <3>1, <4>1, <4>2, <4>3 DEF NumInts
    <3> QED
      BY <3>2 DEF OfSomeVersion
  <2> QED
    BY <2>3, <2>4
<1> QED
  BY <1>2, <1>3 DEF RangeInv

LEMMA RangeHolds == Spec => [](BaseInv /\ SaveInv /\ RangeInv)
<1>1. ASSUME Init PROVE RangeInv
  <2>1. BaseInv
    BY <1>1, BaseInitially
  <2>2. 0 \in AllPages
    <3>1. 0 \in 0 .. RegionPages - 1 /\ app \in Apps
      BY <2>1, BaseFacts
    <3>2. 0 .. RegionPages - 1 \subseteq AllPages
      BY <3>1, AppFacts
    <3> QED
      BY <3>1, <3>2
  <2> QED
    BY <1>1, <2>2 DEF Init, RangeInv, PoolsInRange, OfSomeVersion
<1>2. BaseInv /\ SaveInv /\ RangeInv /\ [Next]_vars => RangeInv'
  BY RangeStep
<1> QED
  BY <1>1, <1>2, SaveHolds, PTL DEF Spec

LEMMA RangeOf ==
    ASSUME NEW q \in Seq([min : Int, max : Int, def : Int]), NEW i \in 1 .. Len(q)
    PROVE  i \in DOMAIN q /\ q[i].min \in Int /\ q[i].max \in Int
<1>1. q[i] \in [min : Int, max : Int, def : Int]
  BY ElementOfSeq
<1>2. i \in DOMAIN q
  BY LenProperties
<1> QED
  BY <1>1, <1>2

\* What the files give to the blank primary region does not look erased.
LEMMA NotErased ==
    ASSUME BaseInv, RangeInv, RangesOnlyWiden, PlainFiles(nvm), app.redundant, ~LooksErased(Blank)
    PROVE  ~LooksErased(ReadFiles(nvm, Blank))
<1> DEFINE a == IntsRead(nvm)
           c == ReadFiles(nvm, Blank)
<1>1. /\ app \in Apps /\ FilesTyped(nvm) /\ IsContent(Blank)
      /\ RegionPages >= 1 /\ 0 \in 0 .. RegionPages - 1
  BY BaseFacts
<1>2. /\ NumInts \in Nat /\ app.desc \in Seq([min : Int, max : Int, def : Int])
      /\ \A i \in 1 .. NumInts : /\ app.desc[i].min \in Int /\ app.desc[i].max \in Int
                                 /\ app.desc[i].def \in Int /\ InRange(i, app.desc[i].def)
  BY <1>1, AppFacts, SitlAssumption DEF NumInts
<1>3. /\ IsContent(c)
      /\ \A i \in 1 .. NumInts : c.ints[i] = IF FilesUsed /\ i <= Len(a) THEN a[i] ELSE Blank.ints[i]
  <2>1. /\ IsContent(c)
        /\ \A i \in 1 .. NumInts :
              c.ints[i] = IF FilesUsed /\ i <= Len(LinesTaken(nvm).ints)
                          THEN LinesTaken(nvm).ints[i] ELSE Blank.ints[i]
    BY <1>1, ReadFilesFacts
  <2>2. LinesTaken(nvm).ints = a
    BY <1>1, PlainLines
  <2> HIDE DEF a, c
  <2> QED
    BY <2>1, <2>2
<1>4. \A i \in 1 .. NumInts : Blank.ints[i] = 0
  BY DEF Blank
<1>5. \A i \in 1 .. NumInts : InRange(i, 0)
  <2>1. DOMAIN Blank.ints = 1 .. NumInts
    BY DEF Blank
  <2> QED
    BY <1>4, <2>1 DEF LooksErased
<1>6. a = (IF PageFile(nvm, 0) = NoFile THEN <<>> ELSE PageFile(nvm, 0).ints) /\ a \in Seq(Int)
  BY <1>1, ReadFacts
<1> HIDE DEF a, c
<1>7. ASSUME NEW i \in 1 .. NumInts, i <= Len(a) PROVE InRange(i, a[i])
  <2>1. i \in 1 .. Len(a)
    BY <1>2, <1>6, <1>7
  <2>2. PageFile(nvm, 0) # NoFile /\ a = PageFile(nvm, 0).ints
    BY <1>6, <2>1
  <2>3. CASE nvm[0] # NoFile
    <3>1. a = nvm[0].ints
      BY <2>2, <2>3 DEF PageFile
    <3>2. PICK b \in Apps :
              /\ app \in Versions(b) /\ i \in 1 .. Len(b.desc)
              /\ \E v \in b.desc[i].min .. b.desc[i].max : a[i] \in FirstDigits(v)
      BY <2>1, <2>3, <3>1 DEF RangeInv, OfSomeVersion
    <3>3. PICK v \in b.desc[i].min .. b.desc[i].max : a[i] \in FirstDigits(v)
      BY <3>2
    <3>4. b.desc \in Seq([min : Int, max : Int, def : Int])
      BY SitlAssumption
    <3>5. b.desc[i].min \in Int /\ b.desc[i].max \in Int /\ i \in DOMAIN b.desc
      BY <3>2, <3>4, RangeOf
    <3>6. DOMAIN app.desc = 1 .. NumInts /\ i \in DOMAIN app.desc
      <4>1. DOMAIN app.desc = 1 .. Len(app.desc)
        BY <1>2
      <4> QED
        BY <4>1 DEF NumInts
    <3>7. \A k \in DOMAIN app.desc : app.desc[k].min <= 0 /\ 0 <= app.desc[k].max
      BY <1>5, <3>6, Zenon DEF InRange
    <3>8. app.desc[i].min <= b.desc[i].min /\ b.desc[i].max <= app.desc[i].max
      BY <3>2, <3>5, <3>6, <3>7 DEF RangesOnlyWiden
    <3>9. app.desc[i].min <= 0 /\ 0 <= app.desc[i].max
      BY <3>6, <3>7
    <3>10. app.desc[i].min \in Int /\ app.desc[i].max \in Int
      BY <1>2
    <3> DEFINE lo == app.desc[i].min
               hi == app.desc[i].max
               low == b.desc[i].min
               high == b.desc[i].max
               z == a[i]
    <3>11. /\ {lo, hi, low, high} \subseteq Int /\ lo <= low /\ high <= hi /\ lo <= 0 /\ 0 <= hi
           /\ v \in low .. high /\ z \in FirstDigits(v)
      BY <3>3, <3>5, <3>8, <3>9, <3>10
    <3> HIDE DEF lo, hi, low, high, z
    <3>12. lo <= z /\ z <= hi
      BY <3>11 DEF FirstDigits
    <3> QED
      BY <3>12 DEF InRange, lo, hi, z
  <2>4. CASE nvm[0] = NoFile
    <3>1. PageFile(nvm, 0) = DefaultPage(0)
      BY <2>2, <2>4 DEF PageFile
    <3>2. DefaultPage(0).ints = Defaults.ints
      <4>1. DefaultPage(0) = PageOf(Defaults, 0) /\ IsContent(Defaults)
        BY <1>1, DefaultPageFacts, DefaultsFacts
      <4> QED
        BY <1>1, <4>1, PageOfFacts
    <3>3. \A k \in 1 .. NumInts : Defaults.ints[k] = app.desc[k].def
      BY DEF Defaults
    <3> QED
      BY <1>2, <2>2, <3>1, <3>2, <3>3
  <2> QED
    BY <2>3, <2>4
<1>8. DOMAIN c.ints = 1 .. NumInts
  BY <1>2, <1>3 DEF IsContent, Content
<1>9. \A i \in 1 .. NumInts : InRange(i, c.ints[i])
  BY <1>3, <1>4, <1>5, <1>7
<1> QED
  BY <1>8, <1>9 DEF LooksErased, c

\* What a process reads depends on the program and the files only.
LEMMA SameReads ==
    ASSUME app' = app
    PROVE  \A files, c : ReadFiles(files, c)' = ReadFiles(files, c)
<1>1. /\ NumInts' = NumInts /\ NumStrs' = NumStrs /\ RegionPages' = RegionPages
      /\ Defaults' = Defaults /\ FilesUsed' = FilesUsed
  BY DEF NumInts, NumStrs, RegionPages, Defaults, FilesUsed, DirIsSet
<1>2. Generated' = Generated
  BY SMT DEF Generated, Fitting, NumInts, NumStrs, RegionPages, PagesOf, Size
<1>3. \A p : DefaultPage(p)' = DefaultPage(p)
  BY <1>1, <1>2, Zenon DEF DefaultPage, Slice
<1>4. \A files, p : PageFile(files, p)' = PageFile(files, p)
  BY <1>3, Zenon DEF PageFile
<1>5. \A files : PagesRead(files)' = PagesRead(files)
  BY <1>1, <1>4, Zenon DEF PagesRead
<1>6. \A strs, v : SpilledStrs(strs, v)' = SpilledStrs(strs, v)
  BY <1>1, Zenon DEF SpilledStrs
<1>7. \A files : IntsRead(files)' = IntsRead(files) /\ StrsRead(files)' = StrsRead(files)
  BY <1>5, Zenon DEF IntsRead, StrsRead
<1>8. \A ints, strs : TakeStrs(ints, strs)' = TakeStrs(ints, strs)
  <2>1. \A taken : Stopped(taken)' <=> Stopped(taken)
    BY <1>1, Zenon DEF Stopped
  <2>2. \A s : TakeStr(s)' = TakeStr(s)
    BY <2>1, Zenon DEF TakeStr
  <2> QED
    BY <2>2, Zenon DEF TakeStrs
<1>9. \A files : LinesTaken(files)' = LinesTaken(files)
  BY <1>7, <1>8, Zenon DEF LinesTaken
<1>10. \A s, taken : StrsTaken(s, taken)' = StrsTaken(s, taken)
  BY <1>1, <1>6, Zenon DEF StrsTaken, Overwrite
<1>11. (\A files, c :
          ReadFiles(files, c) =
              IF ~FilesUsed THEN c
              ELSE [ints |-> Overwrite(c.ints, LinesTaken(files).ints),
                    strs |-> StrsTaken(c.strs, LinesTaken(files))])'
  BY ReadByLines, PTL
<1>12. \A files, c :
          ReadFiles(files, c)' =
              IF ~FilesUsed' THEN c
              ELSE [ints |-> Overwrite(c.ints, LinesTaken(files)'.ints),
                    strs |-> StrsTaken(c.strs, LinesTaken(files))']
  BY <1>11, Zenon DEF Overwrite
<1> QED
  BY <1>1, <1>9, <1>10, <1>12, ReadByLines, Zenon

\* The region that is active after a start, and what the other one then holds;
\* and after a save.
Started ==
    /\ active_rom = "primary" /\ memory["primary"] = ReadFiles(nvm, Blank)
    /\ app.redundant => \/ memory["redundant"].ints = Blank.ints
                        \/ memory["redundant"].ints = memory["primary"].ints
JustSaved ==
    /\ FilesHold(nvm, memory[active_rom])
    /\ app.redundant => memory[Other(active_rom)] = Blank

\* The last save, if there was one, wrote its files, and they can be read.
FilesAreGood == res = "OK" /\ ~app.faulty /\ app.named

IdleInv == Idle /\ FilesAreGood /\ PlainFiles(nvm) => Started \/ JustSaved

\* A start takes the primary region, with what the files hold.
LEMMA BootFacts ==
    ASSUME BaseInv, RangeInv, IdleInv, RangesOnlyWiden, PlainFiles(nvm), Boot,
           ~running \/ FilesAreGood
    PROVE  /\ active_rom' = "primary" /\ memory'["primary"] = ReadFiles(nvm, Blank)
           /\ app.redundant => \/ memory'["redundant"].ints = Blank.ints
                               \/ memory'["redundant"].ints = ReadFiles(nvm, Blank).ints
<1> DEFINE R == ReadFiles(nvm, Blank)
           F == ReadFiles(nvm, memory["primary"])
<1>1. /\ app \in Apps /\ FilesTyped(nvm) /\ IsContent(Blank)
      /\ memory \in [Roms -> Content] /\ \A r \in Roms : IsContent(memory[r])
      /\ active_rom \in Roms
  BY BaseFacts
<1>2. IsContent(R) /\ ReadFiles(nvm, R) = R
  BY <1>1, ReadFilesFacts
<1>3. app.redundant /\ ~LooksErased(Blank) => ~LooksErased(R)
  BY NotErased
<1>4. \A c, d : c.ints = d.ints => (LooksErased(c) <=> LooksErased(d))
  BY DEF LooksErased
<1>5. /\ F = R
      /\ app.redundant => \/ memory["redundant"].ints = Blank.ints
                          \/ memory["redundant"].ints = R.ints
  <2>1. CASE ~running
    <3>1. memory = [r \in Roms |-> Blank] /\ "primary" \in Roms /\ "redundant" \in Roms
      BY <2>1 DEF BaseInv, Shape, Roms
    <3>2. memory["primary"] = Blank /\ memory["redundant"] = Blank
      BY <3>1
    <3> QED
      BY <3>2
  <2>2. CASE running
    <3>1. Idle /\ FilesAreGood
      BY <2>2 DEF Boot
    <3>2. CASE Started
      <4>1. memory["primary"] = R
        BY <3>2 DEF Started
      <4>2. F = R
        BY <1>2, <4>1
      <4> HIDE DEF R, F
      <4> QED
        BY <3>2, <4>1, <4>2 DEF Started
    <3>3. CASE JustSaved
      <4> DEFINE M == memory[active_rom]
      <4>1. FilesHold(nvm, M) /\ IsContent(M)
        BY <1>1, <3>3 DEF JustSaved
      <4>2. \A old : IsContent(old) => ReadFiles(nvm, old) = Printed(M)
        <5> HIDE DEF M
        <5> QED
          BY <1>1, <4>1, ReadBack, Zenon
      <4>3. R = Printed(M) /\ F = Printed(M)
        <5>1. IsContent(memory["primary"])
          BY <1>1 DEF Roms
        <5> HIDE DEF M
        <5> QED
          BY <1>1, <4>2, <5>1
      <4>4. Printed(M).ints = M.ints
        <5> HIDE DEF M
        <5> QED
          BY <4>1, PrintedFacts DEF IsContent
      <4> HIDE DEF R, F
      <4>5. CASE active_rom = "primary"
        BY <3>3, <4>3, <4>5 DEF JustSaved, Other
      <4>6. CASE active_rom = "redundant"
        BY <4>3, <4>4, <4>6
      <4> QED
        BY <1>1, <4>5, <4>6 DEF Roms
    <3> QED
      BY <3>1, <3>2, <3>3 DEF IdleInv
  <2> QED
    BY <2>1, <2>2
<1> HIDE DEF R, F
<1>6. /\ memory' = [memory EXCEPT !["primary"] = F]
      /\ active_rom' = IF /\ app.redundant
                          /\ LooksErased([memory EXCEPT !["primary"] = F]["primary"])
                          /\ ~LooksErased([memory EXCEPT !["primary"] = F]["redundant"])
                       THEN "redundant" ELSE "primary"
  BY DEF Boot, FilledRegion, F
<1>7. /\ [memory EXCEPT !["primary"] = F]["primary"] = F
      /\ [memory EXCEPT !["primary"] = F]["redundant"] = memory["redundant"]
  BY <1>1 DEF Roms
<1>8. ~(app.redundant /\ LooksErased(R) /\ ~LooksErased(memory["redundant"]))
  <2>1. CASE memory["redundant"].ints = Blank.ints
    BY <1>3, <1>4, <2>1, Zenon
  <2>2. CASE memory["redundant"].ints = R.ints
    BY <1>4, <2>2, Zenon
  <2> QED
    BY <1>5, <2>1, <2>2, Zenon
<1>9. /\ active_rom' = "primary" /\ memory'["primary"] = R
      /\ memory'["redundant"] = memory["redundant"]
  BY <1>5, <1>6, <1>7, <1>8
<1> QED
  BY <1>5, <1>9 DEF R

\* The region that is active when the program is idle is the one that was read
\* from the files or the one that was written to them.
LEMMA IdleStep ==
    ASSUME BaseInv, SaveInv, RangeInv, IdleInv, RangesOnlyWiden, [Next]_vars
    PROVE  IdleInv'
<1>1. CASE Boot
  <2>1. /\ UNCHANGED <<app, nvm, pc, res>> /\ (~running \/ Idle)
    BY <1>1 DEF Boot
  <2>2. ReadFiles(nvm, Blank)' = ReadFiles(nvm, Blank) /\ Blank' = Blank
    <3>1. Blank' = Blank /\ \A files, c : ReadFiles(files, c)' = ReadFiles(files, c)
      BY <2>1, SamePages, SameReads
    <3> QED
      BY <2>1, <3>1
  <2>3. ASSUME FilesAreGood, PlainFiles(nvm) PROVE Started'
    BY <1>1, <2>1, <2>2, <2>3, BootFacts DEF Started
  <2>4. PlainFiles(nvm)' <=> PlainFiles(nvm)
    BY <2>1, SamePages DEF PlainFiles
  <2> QED
    BY <2>1, <2>3, <2>4 DEF IdleInv, FilesAreGood
<1>2. CASE Reload \/ Edit \/ UNCHANGED vars
  <2>1. UNCHANGED <<app, nvm, memory, active_rom, running, pc, res>>
    BY <1>2 DEF Reload, Edit, vars
  <2>2. /\ Blank' = Blank /\ Complete' = Complete /\ FilesUsed' = FilesUsed
        /\ RegionPages' = RegionPages /\ \A c, p : PageOf(c, p)' = PageOf(c, p)
        /\ \A files, c : ReadFiles(files, c)' = ReadFiles(files, c)
    BY <2>1, SamePages, SameReads
  <2>3. Started' <=> Started
    BY <2>1, <2>2 DEF Started
  <2>4. JustSaved' <=> JustSaved
    <3>1. FilesHold(nvm, memory[active_rom])' <=> FilesHold(nvm, memory[active_rom])
      BY <2>1, <2>2 DEF FilesHold
    <3> QED
      BY <2>1, <2>2, <3>1 DEF JustSaved
  <2>5. PlainFiles(nvm)' <=> PlainFiles(nvm)
    BY <2>1, <2>2 DEF PlainFiles
  <2> QED
    BY <2>1, <2>3, <2>4, <2>5 DEF IdleInv, Idle, FilesAreGood
<1>3. CASE ParamsSave \/ WriteInts \/ WriteStrs \/ WriteFile \/ Kill \/ Update
  <2>1. pc' # "idle" \/ ~running'
    BY <1>3 DEF ParamsSave, WriteInts, WriteStrs, WriteFile, Kill, Update, SaveToFiles, StrFiles
  <2> QED
    BY <2>1 DEF IdleInv, Idle
<1>4. CASE EndSave
  <2>1. UNCHANGED <<app, nvm, pools, res>> /\ pc = "end"
    BY <1>4 DEF EndSave
  <2>2. /\ Blank' = Blank /\ Complete' = Complete /\ FilesUsed' = FilesUsed
        /\ RegionPages' = RegionPages /\ \A c, p : PageOf(c, p)' = PageOf(c, p)
    BY <2>1, SamePages
  <2>3. ASSUME res = "OK", ~app.faulty, app.named PROVE JustSaved'
    <3>1. memory[Target] = pools /\ SavedAll(pools)
      BY <2>1, <2>3 DEF SaveInv
    <3>2. FilesHold(nvm, pools)
      BY <2>3, <3>1 DEF SavedAll, Saved, FilesHold
    <3>3. FilesHold(nvm, pools)'
      BY <2>1, <2>2, <3>2 DEF FilesHold
    <3>4. memory \in [Roms -> Content] /\ active_rom \in Roms
      BY BaseFacts
    <3>5. /\ memory'[active_rom'] = pools
          /\ app.redundant => memory'[Other(active_rom')] = Blank
      <4>1. CASE app.redundant
        <5>1. active_rom' = Other(active_rom) /\ Target = Other(active_rom)
              /\ memory' = [memory EXCEPT ![Other(Other(active_rom))] = Blank]
          BY <1>4, <2>3, <4>1 DEF EndSave, SavedRom, Target
        <5>2. Other(active_rom) \in Roms /\ Other(Other(active_rom)) \in Roms
              /\ Other(Other(active_rom)) # Other(active_rom)
          BY <3>4 DEF Other, Roms
        <5> HIDE DEF Other
        <5> QED
          BY <3>1, <3>4, <5>1, <5>2
      <4>2. CASE ~app.redundant
        BY <1>4, <3>1, <4>2 DEF EndSave, Target
      <4> QED
        BY <4>1, <4>2
    <3>6. FilesHold(nvm, memory[active_rom])'
      <4>1. (memory[active_rom])' = pools'
        BY <2>1, <3>5
      <4> QED
        BY <2>1, <3>3, <4>1 DEF FilesHold
    <3> QED
      BY <2>1, <2>2, <3>5, <3>6 DEF JustSaved
  <2> QED
    BY <2>1, <2>3 DEF IdleInv, FilesAreGood
<1> QED
  BY <1>1, <1>2, <1>3, <1>4 DEF Next, SaveStep

LEMMA IdleHolds ==
    ASSUME RangesOnlyWiden
    PROVE  Spec => [](BaseInv /\ SaveInv /\ RangeInv /\ IdleInv)
<1>1. Init => IdleInv
  BY DEF Init, IdleInv, Idle
<1>2. BaseInv /\ SaveInv /\ RangeInv /\ IdleInv /\ [Next]_vars => IdleInv'
  BY IdleStep
<1> QED
  BY <1>1, <1>2, RangeHolds, PTL DEF Spec

\* What was read from files loads and prints alike.
LEMMA ReadLoads ==
    ASSUME BaseInv
    PROVE  Printed(Loaded(ReadFiles(nvm, Blank))) = Recovered(nvm)
<1> DEFINE R == ReadFiles(nvm, Blank)
<1>1. app \in Apps /\ FilesTyped(nvm) /\ IsContent(Blank) /\ Blank \in FileContent
  BY BaseFacts
<1>2. IsContent(R) /\ R \in FileContent
  BY <1>1, ReadFilesFacts
<1>3. Recovered(nvm) = Loaded(R)
  BY DEF Recovered
<1> HIDE DEF R
<1>4. Printed(R) = R
  BY <1>2, PrintedFacts, FileContentIsContent
<1>5. Printed(Loaded(R)) = Loaded(R)
  BY <1>1, <1>2, <1>4, LoadedFacts
<1> QED
  BY <1>3, <1>5 DEF R

\* A start never prefers the redundant region to what the files hold, as long as
\* every string in them is on one line.
THEOREM SitlBootLoads == ASSUME RangesOnlyWiden PROVE Spec => BootLoadsFiles
<1>1. ASSUME BaseInv, RangeInv, IdleInv, PlainFiles(nvm), Boot, ~running \/ FilesAreGood
      PROVE  Printed(pools') = Recovered(nvm)
  <2>1. pools' = Loaded(memory'[active_rom'])
    BY <1>1 DEF Boot
  <2>2. memory'[active_rom'] = ReadFiles(nvm, Blank)
    BY <1>1, BootFacts
  <2> QED
    BY <1>1, <2>1, <2>2, ReadLoads
<1>2. BaseInv /\ SaveInv /\ RangeInv /\ IdleInv /\ [Next]_vars =>
          [Boot /\ PlainFiles(nvm) /\ (~running \/ (res = "OK" /\ ~app.faulty /\ app.named)) =>
              Printed(pools') = Recovered(nvm)]_vars
  BY <1>1 DEF FilesAreGood
<1> QED
  BY <1>2, IdleHolds, PTL DEF Spec, BootLoadsFiles

\* Loading again and starting again give the same parameters, after a save that
\* succeeded and as long as every string in the files is on one line.
THEOREM SitlReloadAgrees == ASSUME RangesOnlyWiden PROVE Spec => []ReloadAgreesWithRestart
<1>1. ASSUME BaseInv, IdleInv, Idle, FilesAreGood, PlainFiles(nvm)
      PROVE  Printed(Loaded(memory[active_rom])) = Recovered(nvm)
  <2>1. CASE Started
    BY <1>1, <2>1, ReadLoads DEF Started
  <2>2. CASE JustSaved
    <3> DEFINE M == memory[active_rom]
    <3>1. /\ FilesHold(nvm, M) /\ IsContent(M) /\ app \in Apps /\ IsContent(Blank)
          /\ FilesTyped(nvm)
      BY <1>1, <2>2, BaseFacts DEF JustSaved
    <3> HIDE DEF M
    <3>2. ReadFiles(nvm, Blank) = Printed(M)
      BY <1>1, <3>1, ReadBack, Zenon
    <3>3. Printed(Loaded(M)) = Loaded(Printed(M))
      BY <3>1, LoadedFacts
    <3> QED
      BY <3>2, <3>3 DEF Recovered, M
  <2> QED
    BY <1>1, <2>1, <2>2 DEF IdleInv
<1>2. BaseInv /\ IdleInv => ReloadAgreesWithRestart
  BY <1>1 DEF ReloadAgreesWithRestart, FilesAreGood
<1> QED
  BY <1>2, IdleHolds, PTL
====
