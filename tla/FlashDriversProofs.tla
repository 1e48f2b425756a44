---- MODULE FlashDriversProofs ----
(***************************************************************************)
(* Theorems of FlashDrivers, for any device of the four kinds, any region  *)
(* that romInit accepts, any sizes, and any amounts of parameters.         *)
(***************************************************************************)
EXTENDS FlashDrivers, SequenceTheorems, TLAPS

----------------------------------------------------------------------------
(* A failing operation                                                     *)

\* Only the F103 driver keeps error flags, and no job is left when it has one.
FlagsInv == sr # {} => app.driver = "f103" /\ todo = <<>>

\* After an error the F103 driver neither erases nor programs, because
\* flashWaitForLastOperation finds the flags of the error each time.
THEOREM ErrorStopsTheDriver == Spec => ErrorStopsDriver
<1>1. Init => FlagsInv
  BY DEF Init, FlagsInv
<1>2. FlagsInv /\ [Next]_vars => FlagsInv'
  <2> SUFFICES ASSUME FlagsInv, [Next]_vars PROVE FlagsInv'
    OBVIOUS
  <2>1. CASE ParamsSave \/ CallDone \/ EndWrite \/ PowerLoss
    BY <2>1 DEF FlagsInv, ParamsSave, CallDone, EndWrite, PowerLoss, registers
  <2>2. CASE BeginWrite
    BY <2>2 DEF FlagsInv, BeginWrite, UnlockMayFail, Refused
  <2>3. ASSUME NEW pool \in Pools, CallWrite(pool)
        PROVE  FlagsInv'
    BY <2>3 DEF FlagsInv, CallWrite, Accepted, Refused, registers
  <2>4. CASE JobDone
    BY <2>4 DEF FlagsInv, JobDone
  <2>5. CASE JobFails
    <3>1. pc = "erase" \/ pc \in Pools
      BY <2>5 DEF JobFails
    <3>2. sr' \in ErrorFlags /\ todo' = <<>> /\ UNCHANGED app
      BY <2>5 DEF JobFails
    <3>3. app.driver # "f103" => sr' = sr
      BY <3>1, <3>2 DEF ErrorFlags
    <3> QED
      BY <3>2, <3>3 DEF FlagsInv
  <2>6. CASE UNCHANGED vars
    BY <2>6 DEF FlagsInv, vars, registers
  <2> QED
    BY <2>1, <2>2, <2>3, <2>4, <2>5, <2>6 DEF Next
<1>3. FlagsInv /\ [Next]_vars => [sr # {} => mem' = mem]_vars
  <2> SUFFICES ASSUME FlagsInv, Next, sr # {} PROVE mem' = mem
    OBVIOUS
  <2>1. todo = <<>>
    BY DEF FlagsInv
  <2> QED
    BY <2>1 DEF Next, ParamsSave, BeginWrite, CallWrite, JobDone, JobFails, CallDone, EndWrite,
       PowerLoss
<1> QED
  BY <1>1, <1>2, <1>3, PTL DEF Spec, ErrorStopsDriver

----------------------------------------------------------------------------
(* Arithmetic                                                              *)

Multiple(u, x) == \E q \in Int : x = u * q

LEMMA Division ==
    ASSUME NEW v \in Int, NEW u \in Nat \ {0}
    PROVE  /\ v \div u \in Int
           /\ v % u \in 0 .. u - 1
           /\ v = u * (v \div u) + (v % u)
  BY SMT

\* A product of the divisor lies between the products of other factors.
LEMMA ProductOrder ==
    ASSUME NEW u \in Nat \ {0}, NEW p \in Int, NEW q \in Int
    PROVE  /\ u * p \in Int
           /\ p < q => u * p + u <= u * q
           /\ p <= q => u * p <= u * q
           /\ u * p < u * q => p < q
<1>1. u * (q - p) = u * q - u * p
  BY SMT
<1>2. (q - p >= 1 => u * (q - p) >= u) /\ (q - p >= 0 => u * (q - p) >= 0)
  BY SMT
<1>3. q - p <= 0 => u * (q - p) <= 0
  BY SMT
<1> QED
  BY <1>1, <1>2, <1>3, SMT

LEMMA MultipleIsRemainder ==
    ASSUME NEW u \in Nat \ {0}, NEW x \in Int
    PROVE  Multiple(u, x) <=> x % u = 0
<1>1. ASSUME x % u = 0
      PROVE  Multiple(u, x)
  <2> DEFINE p == x \div u
  <2>1. p \in Int /\ x = u * p + (x % u)
    BY Division
  <2> HIDE DEF p
  <2>2. u * p \in Int
    BY <2>1, ProductOrder
  <2>3. x = u * p
    BY <1>1, <2>1, <2>2
  <2> QED
    BY <2>1, <2>3 DEF Multiple
<1>2. ASSUME NEW q \in Int, x = u * q
      PROVE  x % u = 0
  <2> DEFINE p == x \div u
             m == x % u
  <2>1. p \in Int /\ m \in 0 .. u - 1 /\ x = u * p + m
    BY Division
  <2> HIDE DEF p, m
  <2>2. ~(p < q) /\ ~(q < p)
    BY <1>2, <2>1, ProductOrder
  <2>3. p = q
    BY <2>1, <2>2
  <2>4. m = 0
    BY <1>2, <2>1, <2>3, ProductOrder
  <2> QED
    BY <2>4 DEF m
<1> QED
  BY <1>1, <1>2 DEF Multiple

LEMMA MultiplesAddUp ==
    ASSUME NEW u \in Nat \ {0}, NEW x \in Int, NEW y \in Int, Multiple(u, x), Multiple(u, y)
    PROVE  Multiple(u, x + y) /\ Multiple(u, x - y)
<1>1. PICK p \in Int, q \in Int : x = u * p /\ y = u * q
  BY DEF Multiple
<1>2. u * p + u * q = u * (p + q) /\ u * p - u * q = u * (p - q)
  BY SMT
<1>3. p + q \in Int /\ p - q \in Int
  OBVIOUS
<1> HIDE DEF Multiple
<1>4. x + y = u * (p + q) /\ x - y = u * (p - q)
  BY <1>1, <1>2
<1> QED
  BY <1>3, <1>4, Zenon DEF Multiple

LEMMA MultipleOfProduct ==
    ASSUME NEW u \in Nat \ {0}, NEW n \in Int, NEW x \in Int, Multiple(u, x)
    PROVE  Multiple(u, n * x)
<1>1. PICK q \in Int : x = u * q
  BY DEF Multiple
<1>2. n * (u * q) = u * (n * q) /\ n * q \in Int
  BY SMT
<1> QED
  BY <1>1, <1>2 DEF Multiple

\* What lies beyond a multiple lies a whole word beyond it, if it is one too.
LEMMA NextMultiple ==
    ASSUME NEW u \in Nat \ {0}, NEW x \in Int, NEW y \in Int, Multiple(u, x), Multiple(u, y), x < y
    PROVE  x + u <= y
<1>1. PICK p \in Int, q \in Int : x = u * p /\ y = u * q
  BY DEF Multiple
<1> QED
  BY <1>1, ProductOrder

\* Words from x on that hold s half-words, counted by the usual division.
LEMMA WordsForSize ==
    ASSUME NEW u \in Nat \ {0}, NEW s \in Nat
    PROVE  LET n == (s + u - 1) \div u
           IN /\ n \in Nat
              /\ s <= u * n /\ u * n < s + u
              /\ \A i \in 1 .. n : /\ (i - 1) * u \in Nat
                                   /\ (i - 1) * u + u <= u * n
                                   /\ (i - 1) * u < s
              /\ \A k \in 0 .. s - 1 : \E i \in 1 .. n : (i - 1) * u <= k /\ k < (i - 1) * u + u
<1> DEFINE v == s + u - 1
           n == v \div u
           m == v % u
<1>0. v \in Nat
  OBVIOUS
<1>1. v \in Nat /\ n \in Int /\ m \in 0 .. u - 1 /\ v = u * n + m
  <2> HIDE DEF v
  <2> QED
    BY <1>0, Division
<1> HIDE DEF v, n, m
<1>2. u * n \in Int /\ s <= u * n /\ u * n < s + u
  BY <1>1, ProductOrder DEF v
<1>3. n >= 0
  <2>1. u * (-1) = -u /\ u * n > u * (-1)
    BY <1>1, <1>2, SMT
  <2> QED
    BY <1>1, <2>1, ProductOrder
<1>4. ASSUME NEW i \in 1 .. n
      PROVE  (i - 1) * u \in Nat /\ (i - 1) * u + u <= u * n /\ (i - 1) * u < s
  <2>1. (i - 1) * u = u * (i - 1) /\ u * (i - 1) >= 0 /\ u * (i - 1) \in Int
    BY <1>1, <1>4, SMT
  <2>2. u * (i - 1) + u <= u * n
    BY <1>1, <1>4, ProductOrder
  <2> QED
    BY <1>2, <2>1, <2>2
<1>5. ASSUME NEW k \in 0 .. s - 1
      PROVE  \E i \in 1 .. n : (i - 1) * u <= k /\ k < (i - 1) * u + u
  <2> DEFINE p == k \div u
             r == k % u
  <2>1. p \in Int /\ r \in 0 .. u - 1 /\ k = u * p + r
    BY Division
  <2> HIDE DEF p, r
  <2>2. u * p < u * n
    BY <1>2, <2>1, ProductOrder
  <2>3. p < n /\ p > -1
    <3>1. u * (-1) = -u /\ u * p > u * (-1)
      BY <2>1, ProductOrder, SMT
    <3> QED
      BY <1>1, <2>1, <2>2, <3>1, ProductOrder
  <2>4. p + 1 \in 1 .. n /\ ((p + 1) - 1) * u = u * p
    BY <1>1, <2>1, <2>3, SMT
  <2>5. u * p <= k /\ k < u * p + u
    BY <2>1, ProductOrder
  <2> QED
    BY <2>4, <2>5
<1> QED
  BY <1>1, <1>2, <1>3, <1>4, <1>5 DEF n, v

----------------------------------------------------------------------------
(* The region                                                              *)

Lo(a) == a.first * a.page_size
Hi(a) == (a.first + a.num) * a.page_size
Region(a) == Lo(a) .. Hi(a) - 1
Ints(a) == a.ints * IntSize
Strs(a) == a.strs * StrSize

LEMMA Geometry ==
    ASSUME NEW a \in Apps
    PROVE  /\ a \in App /\ a.word \in Nat \ {0}
           /\ {Lo(a), Hi(a), Ints(a), Strs(a), Size(a), FlashStart} \subseteq Nat
           /\ Hi(a) = Lo(a) + a.num * a.page_size
           /\ Lo(a) + Ints(a) + Strs(a) <= Hi(a)
           /\ Hi(a) <= Size(a) /\ Size(a) <= FlashStart
           /\ Multiple(a.word, Lo(a)) /\ Multiple(a.word, Hi(a)) /\ Multiple(a.word, FlashStart)
<1>1. a \in App /\ DriversAssumption(a) /\ FlashStart >= Size(a)
  BY AppsAssumption DEF Size
<1>2. /\ {a.pages, a.bank, a.page_size, a.word, a.first, a.num, a.ints, a.strs} \subseteq Nat
      /\ {FlashStart, IntSize, StrSize} \subseteq Nat
  BY <1>1, SizesAssumption DEF App
<1>3. a.word \in Nat \ {0}
  BY <1>1, <1>2 DEF DriversAssumption
<1>4. /\ Lo(a) \in Nat /\ Hi(a) \in Nat /\ Ints(a) \in Nat /\ Strs(a) \in Nat /\ Size(a) \in Nat
      /\ a.num * a.page_size \in Nat
  BY <1>2, SMT DEF Lo, Hi, Ints, Strs, Size
<1>5. Hi(a) = Lo(a) + a.num * a.page_size
  BY <1>2, SMT DEF Lo, Hi
<1>6. Lo(a) + Ints(a) + Strs(a) <= Hi(a)
  BY <1>1, <1>4, <1>5 DEF DriversAssumption, Ints, Strs
<1>7. Hi(a) <= Size(a)
  <2> DEFINE k == a.pages - (a.first + a.num)
  <2>1. k \in Nat
    BY <1>1, <1>2 DEF DriversAssumption
  <2>2. k * a.page_size \in Nat
    BY <1>2, <2>1, SMT
  <2>3. (a.first + a.num) * a.page_size + k * a.page_size = a.pages * a.page_size
    BY <1>2, SMT
  <2> HIDE DEF k
  <2> QED
    BY <1>4, <2>2, <2>3 DEF Hi, Size
<1>8. Multiple(a.word, a.page_size) /\ Multiple(a.word, FlashStart)
  <2>1. a.page_size \in Int /\ FlashStart \in Int
    BY <1>2
  <2> QED
    BY <1>1, <1>3, <2>1, MultipleIsRemainder, Zenon DEF DriversAssumption
<1>9. Multiple(a.word, Lo(a)) /\ Multiple(a.word, Hi(a))
  <2>1. a.page_size \in Int /\ a.first \in Int /\ a.first + a.num \in Int
    BY <1>2
  <2> QED
    BY <1>3, <1>8, <2>1, MultipleOfProduct, Zenon DEF Lo, Hi
<1> QED
  BY <1>1, <1>2, <1>3, <1>4, <1>5, <1>6, <1>7, <1>8, <1>9

\* What the region holds once the pools of ps are written.
Goal(a, ps) ==
    [c \in Region(a) |->
        IF "ints" \in ps /\ c < Lo(a) + Ints(a) THEN Datum("ints", c - Lo(a))
        ELSE IF "strs" \in ps /\ c >= Hi(a) - Strs(a) THEN Datum("strs", c - (Hi(a) - Strs(a)))
        ELSE Erased]

Value == {Erased, Old, <<"lost", 0>>} \cup (Pools \X Nat)

LEMMA GoalType ==
    ASSUME NEW a \in Apps, NEW ps, NEW c \in Region(a)
    PROVE  Goal(a, ps)[c] \in Value
BY Geometry DEF Region, Goal, Value, Datum, Pools

----------------------------------------------------------------------------
(* Queues of jobs                                                          *)

Job == [kind : {"erase", "wren", "fram", "program"}, at : Nat, cells : Seq(Value)]

CellsOf(job) == job.at .. job.at + Len(job.cells) - 1

\* Jobs that bring cells of the region to what they are in g, data for the
\* FRAM right after the command that sets its latch, and words at their
\* alignment, each of them behind those of all earlier jobs.
JobsTo(a, q, g) ==
    /\ q \in Seq(Job)
    /\ \A i \in 1 .. Len(q) : \A c \in CellsOf(q[i]) :
           c \in Region(a) /\ q[i].cells[c - q[i].at + 1] = g[c]
    /\ \A i \in 1 .. Len(q) :
           q[i].kind = "program" => Len(q[i].cells) = a.word /\ q[i].at % a.word = 0
    /\ \A i, k \in 1 .. Len(q) :
           i < k /\ q[k].kind = "program" => q[i].at + Len(q[i].cells) <= q[k].at
    /\ \A i \in 2 .. Len(q) : q[i].kind = "fram" => q[i - 1].kind = "wren"

Covers(q, s) == \A c \in s : \E i \in 1 .. Len(q) : c \in CellsOf(q[i])

LEMMA FunctionIsSequence ==
    ASSUME NEW S, NEW n \in Nat, NEW f \in [1 .. n -> S]
    PROVE  f \in Seq(S) /\ Len(f) = n
BY SeqDef, LenProperties

LEMMA NoJobs ==
    ASSUME NEW a, NEW g
    PROVE  JobsTo(a, <<>>, g)
BY DEF JobsTo

LEMMA JobsLeft ==
    ASSUME NEW a, NEW g, NEW q, JobsTo(a, q, g), q # <<>>
    PROVE  /\ Head(q) \in Job /\ Head(q) = q[1] /\ 1 \in 1 .. Len(q)
           /\ Tail(q) \in Seq(Job) /\ Len(Tail(q)) = Len(q) - 1
           /\ \A i \in 1 .. Len(Tail(q)) : i + 1 \in 2 .. Len(q) /\ Tail(q)[i] = q[i + 1]
           /\ JobsTo(a, Tail(q), g)
<1>1. q \in Seq(Job) /\ Len(q) \in Nat
  BY DEF JobsTo
<1>2. /\ Head(q) \in Job /\ Head(q) = q[1] /\ 1 \in 1 .. Len(q)
      /\ Tail(q) \in Seq(Job) /\ Len(Tail(q)) = Len(q) - 1
      /\ \A i \in 1 .. Len(Tail(q)) : i + 1 \in 2 .. Len(q) /\ Tail(q)[i] = q[i + 1]
  BY <1>1, HeadTailProperties, EmptySeq
<1> DEFINE t == Tail(q)
<1> HIDE DEF t
<1>3. /\ t \in Seq(Job) /\ Len(t) = Len(q) - 1
      /\ \A i \in 1 .. Len(t) : i + 1 \in 2 .. Len(q) /\ t[i] = q[i + 1]
  BY <1>2 DEF t
<1>4. JobsTo(a, t, g)
  <2>1. \A i \in 1 .. Len(t) : i + 1 \in 1 .. Len(q) /\ t[i] = q[i + 1]
    BY <1>1, <1>3
  <2>2. /\ \A i \in 1 .. Len(t) : \A c \in CellsOf(t[i]) :
               c \in Region(a) /\ t[i].cells[c - t[i].at + 1] = g[c]
        /\ \A i \in 1 .. Len(t) :
               t[i].kind = "program" => Len(t[i].cells) = a.word /\ t[i].at % a.word = 0
    <3> SUFFICES ASSUME NEW i \in 1 .. Len(t)
                 PROVE  /\ \A c \in CellsOf(t[i]) :
                               c \in Region(a) /\ t[i].cells[c - t[i].at + 1] = g[c]
                        /\ t[i].kind = "program" =>
                               Len(t[i].cells) = a.word /\ t[i].at % a.word = 0
      BY Zenon
    <3> DEFINE k == i + 1
    <3>1. k \in 1 .. Len(q) /\ t[i] = q[k]
      BY <2>1
    <3> HIDE DEF k
    <3> QED
      BY <3>1, ZenonT(40) DEF JobsTo
  <2>3. \A i, k \in 1 .. Len(t) :
            i < k /\ t[k].kind = "program" => t[i].at + Len(t[i].cells) <= t[k].at
    <3> SUFFICES ASSUME NEW i \in 1 .. Len(t), NEW k \in 1 .. Len(t), i < k, t[k].kind = "program"
                 PROVE  t[i].at + Len(t[i].cells) <= t[k].at
      OBVIOUS
    <3>1. i + 1 < k + 1
      BY <1>1, <1>3
    <3>2. q[i + 1].at + Len(q[i + 1].cells) <= q[k + 1].at
      BY <2>1, <3>1, Zenon DEF JobsTo
    <3> QED
      BY <2>1, <3>2
  <2>4. \A i \in 2 .. Len(t) : t[i].kind = "fram" => t[i - 1].kind = "wren"
    <3> SUFFICES ASSUME NEW i \in 2 .. Len(t), t[i].kind = "fram"
                 PROVE  t[i - 1].kind = "wren"
      OBVIOUS
    <3>1. /\ i \in 1 .. Len(t) /\ i - 1 \in 1 .. Len(t) /\ (i - 1) + 1 = i
          /\ i + 1 \in 2 .. Len(q) /\ (i + 1) - 1 = i
      BY <1>1, <1>3
    <3>2. t[i] = q[i + 1] /\ t[i - 1] = q[i]
      BY <2>1, <3>1
    <3> QED
      BY <3>1, <3>2 DEF JobsTo
  <2> QED
    BY <1>3, <2>2, <2>3, <2>4 DEF JobsTo
<1> QED
  BY <1>2, <1>4 DEF t

----------------------------------------------------------------------------
(* Erasing                                                                 *)

LEMMA PageWithin ==
    ASSUME NEW s \in Nat, NEW f \in Nat, NEW n \in Nat, NEW i \in 1 .. n
    PROVE  /\ s * (f + i - 1) \in Nat /\ s * f <= s * (f + i - 1)
           /\ s * (f + i - 1) + s <= s * (f + n)
<1>1. s * (f + i - 1) = s * f + s * (i - 1) /\ s * f >= 0 /\ s * (i - 1) >= 0
  BY SMT
<1>2. s * (f + n) = s * (f + i - 1) + s + s * (n - i) /\ s * (n - i) >= 0
  BY SMT
<1>3. /\ s * (f + i - 1) \in Int /\ s * f \in Int /\ s * (i - 1) \in Int
      /\ s * (f + n) \in Int /\ s * (n - i) \in Int
  BY SMT
<1> QED
  BY <1>1, <1>2, <1>3

\* Pages of the region one after the other, which is what each controller is
\* asked for.
LEMMA PagesErase ==
    ASSUME app \in Apps
    PROVE  /\ JobsTo(app, F103Erase, Goal(app, {}))
           /\ Covers(F103Erase, Region(app))
           /\ \A i \in 1 .. Len(F103Erase) : F103Erase[i].kind = "erase"
<1> DEFINE s == app.page_size
           q == F103Erase
<1>1. app.first \in Nat /\ app.num \in Nat /\ s \in Nat
  BY Geometry DEF App
<1>2. Len(q) = app.num /\ q \in Seq(Job)
  <2>1. ASSUME NEW i \in 1 .. app.num
        PROVE  ErasePage(app.first + i - 1) \in Job
    <3>1. (app.first + i - 1) * s \in Nat
      BY <1>1, SMT
    <3> QED
      BY <1>1, <3>1 DEF ErasePage, Job, Value
  <2>2. q \in [1 .. app.num -> Job]
    BY <2>1 DEF F103Erase
  <2> HIDE DEF q
  <2> QED
    BY <1>1, <2>2, FunctionIsSequence
<1>3. ASSUME NEW i \in 1 .. app.num
      PROVE  /\ q[i].kind = "erase"
             /\ q[i].at = s * (app.first + i - 1) /\ q[i].at \in Int /\ Len(q[i].cells) = s
             /\ \A k \in 1 .. s : q[i].cells[k] = Erased
  BY <1>1, SMT DEF F103Erase, ErasePage
<1>4. Lo(app) = s * app.first /\ Hi(app) = s * (app.first + app.num)
  BY <1>1, SMT DEF Lo, Hi
<1> HIDE DEF q, s
<1>5. ASSUME NEW i \in 1 .. app.num, NEW c \in CellsOf(q[i])
      PROVE  c \in Region(app) /\ q[i].cells[c - q[i].at + 1] = Goal(app, {})[c]
  <2>1. Lo(app) <= q[i].at /\ q[i].at + s <= Hi(app)
    <3>1. q[i].at = s * (app.first + i - 1)
      BY <1>3
    <3> QED
      BY <1>1, <1>4, <3>1, PageWithin, Zenon
  <2>2. /\ q[i].at \in Int /\ Len(q[i].cells) = s
        /\ \A k \in 1 .. s : q[i].cells[k] = Erased
    BY <1>3, Zenon
  <2>3. Lo(app) \in Int /\ Hi(app) \in Int
    BY Geometry
  <2>4. c \in Int /\ q[i].at <= c /\ c < q[i].at + s
    BY <1>1, <2>2 DEF CellsOf
  <2>5. c \in Region(app)
    BY <1>1, <2>1, <2>2, <2>3, <2>4 DEF Region
  <2>6. q[i].cells[c - q[i].at + 1] = Erased
    <3>1. c - q[i].at + 1 \in 1 .. s
      BY <1>1, <2>2, <2>4, SMTT(30)
    <3> QED
      BY <2>2, <3>1, Zenon
  <2> QED
    BY <2>5, <2>6 DEF Goal
<1>6. JobsTo(app, q, Goal(app, {}))
  BY <1>1, <1>2, <1>3, <1>5, SMTT(30) DEF JobsTo
<1>7. ASSUME NEW c \in Region(app)
      PROVE  \E i \in 1 .. app.num : c \in CellsOf(q[i])
  <2>1. s # 0
    <3>1. s = 0 => s * app.first = 0 /\ s * (app.first + app.num) = 0
      BY <1>1, SMT
    <3> QED
      BY <1>4, <3>1 DEF Region
  <2> DEFINE p == c \div s
             r == c % s
  <2>2. c \in Int /\ s * app.first <= c /\ c < s * (app.first + app.num)
    BY <1>4, Geometry DEF Region
  <2>3. p \in Int /\ r \in 0 .. s - 1 /\ c = s * p + r
    BY <1>1, <2>1, <2>2, Division
  <2> HIDE DEF p, r
  <2>4. s * p < s * (app.first + app.num) /\ s * app.first < s * (p + 1)
    <3>1. s * (p + 1) = s * p + s /\ s * p \in Int
      BY <1>1, <2>3, SMT
    <3> QED
      BY <1>1, <2>2, <2>3, <3>1
  <2>5. p < app.first + app.num /\ app.first < p + 1
    BY <1>1, <2>1, <2>3, <2>4, ProductOrder
  <2> DEFINE i == p - app.first + 1
  <2>6. i \in 1 .. app.num /\ app.first + i - 1 = p
    BY <1>1, <2>3, <2>5
  <2>7. s * p \in Int /\ s * p <= c /\ c <= s * p + s - 1
    BY <1>1, <2>1, <2>3, ProductOrder
  <2> HIDE DEF i
  <2>8. q[i].at = s * p /\ Len(q[i].cells) = s
    BY <1>3, <2>6
  <2>9. c \in CellsOf(q[i])
    BY <1>1, <2>2, <2>7, <2>8 DEF CellsOf
  <2> QED
    BY <2>6, <2>9
<1> QED
  BY <1>2, <1>3, <1>6, <1>7 DEF Covers, q

PagesFrom(x, n) == [i \in 1 .. n |-> ErasePage(x + i - 1)]

LEMMA PagesJoin ==
    ASSUME app \in Apps, NEW x \in Nat, NEW n \in Nat, NEW m \in Nat
    PROVE  PagesFrom(x, n) \o PagesFrom(x + n, m) = PagesFrom(x, n + m)
<1> DEFINE P == {ErasePage(y) : y \in Nat}
<1>1. ASSUME NEW y \in Nat, NEW k \in Nat
      PROVE  /\ PagesFrom(y, k) \in Seq(P) /\ Len(PagesFrom(y, k)) = k
             /\ \A i \in 1 .. k : PagesFrom(y, k)[i] = ErasePage(y + i - 1)
  <2>1. ASSUME NEW i \in 1 .. k
        PROVE  y + i - 1 \in Nat
    BY <1>1
  <2>2. PagesFrom(y, k) \in [1 .. k -> P]
    BY <2>1 DEF PagesFrom
  <2> HIDE DEF P
  <2> QED
    BY <1>1, <2>2, FunctionIsSequence DEF PagesFrom
<1> DEFINE s == PagesFrom(x, n)
           t == PagesFrom(x + n, m)
           r == PagesFrom(x, n + m)
<1>2. /\ s \in Seq(P) /\ Len(s) = n /\ \A i \in 1 .. n : s[i] = ErasePage(x + i - 1)
      /\ t \in Seq(P) /\ Len(t) = m /\ \A i \in 1 .. m : t[i] = ErasePage((x + n) + i - 1)
      /\ r \in Seq(P) /\ Len(r) = n + m /\ \A i \in 1 .. n + m : r[i] = ErasePage(x + i - 1)
  <2>1. x + n \in Nat /\ n + m \in Nat
    OBVIOUS
  <2> HIDE DEF P
  <2> QED
    BY <1>1, <2>1
<1> HIDE DEF P, s, t, r
<1>3. /\ s \o t \in Seq(P) /\ Len(s \o t) = n + m
      /\ \A i \in 1 .. n + m : (s \o t)[i] = IF i <= n THEN s[i] ELSE t[i - n]
  BY <1>2, ConcatProperties, ZenonT(40)
<1>4. ASSUME NEW i \in 1 .. n + m
      PROVE  (s \o t)[i] = r[i]
  <2>1. CASE i <= n
    BY <1>2, <1>3, <2>1
  <2>2. CASE ~(i <= n)
    <3>1. i - n \in 1 .. m /\ (x + n) + (i - n) - 1 = x + i - 1
      BY <2>2
    <3> QED
      BY <1>2, <1>3, <2>2, <3>1
  <2> QED
    BY <2>1, <2>2
<1>5. s \o t = r
  BY <1>2, <1>3, <1>4, SeqEqual
<1> QED
  BY <1>5 DEF s, t, r

LEMMA NoPages ==
    ASSUME NEW x \in Nat
    PROVE  PagesFrom(x, 0) = <<>>
BY DEF PagesFrom

\* The HAL erases the pages it is asked for if they are in the bank, which is
\* where the first or the second half of the pages are.
LEMMA HalPages ==
    ASSUME app \in Apps, NEW bank \in {1, 2}, NEW page \in Nat, NEW n \in Nat, NEW second \in Nat,
           bank = 2 => page >= second,
           NEW index \in Nat, index = (IF bank = 1 THEN page ELSE page - second),
           index + n <= app.bank
    PROVE  HalErase(bank, page, n, second) =
               PagesFrom(IF bank = 1 THEN index ELSE app.bank + index, n)
<1> DEFINE b == app.bank
           x == IF bank = 1 THEN index ELSE b + index
<1>1. b \in Nat
  BY Geometry DEF App
<1>2. (bank - 1) * b + index = x /\ x \in Nat
  <2>1. CASE bank = 1
    BY <1>1, <2>1
  <2>2. CASE bank = 2
    BY <1>1, <2>2
  <2> QED
    BY <2>1, <2>2
<1> HIDE DEF b, x
<1>3. \A i \in 1 .. n : index + i - 1 \in 0 .. b - 1
  BY <1>1 DEF b
<1>4. HalErase(bank, page, n, second) =
          [i \in 1 .. n |-> IF index + i - 1 \in 0 .. b - 1
                            THEN ErasePage((bank - 1) * b + index + i - 1) ELSE NoOperation]
  BY Zenon DEF HalErase, b
<1>5. HalErase(bank, page, n, second) = [i \in 1 .. n |-> ErasePage(x + i - 1)]
  BY <1>2, <1>3, <1>4, Zenon
<1> QED
  BY <1>5 DEF PagesFrom, x, b

\* Wherever the region is with regard to the banks, each page of it is erased.
LEMMA BankedErases ==
    ASSUME app \in Apps
    PROVE  /\ app.driver = "f103" => EraseJobs = F103Erase
           /\ app.driver = "g0b1" => EraseJobs = F103Erase
           /\ app.driver = "h753" => EraseJobs = F103Erase
<1> DEFINE b == app.bank
           f == app.first
           n == app.num
<1>1. b \in Nat /\ f \in Nat /\ n \in Nat /\ n > 0
  BY Geometry, AppsAssumption DEF App, DriversAssumption
<1>2. F103Erase = PagesFrom(f, n)
  BY DEF F103Erase, PagesFrom
<1>3. app.driver \in {"g0b1", "h753"} => f + n <= 2 * b
  BY <1>1, AppsAssumption, Geometry DEF DriversAssumption, App
<1> HIDE DEF b, f, n
<1>4. ASSUME NEW x \in Nat, NEW m \in Nat, NEW second \in Nat, x + m <= b
      PROVE  HalErase(1, x, m, second) = PagesFrom(x, m)
  BY <1>4, HalPages DEF b
<1>5. ASSUME NEW x \in Nat, NEW m \in Nat, NEW second \in Nat, NEW page, page = second + x,
             x + m <= b
      PROVE  HalErase(2, page, m, second) = PagesFrom(b + x, m)
  <2>1. page \in Nat /\ page >= second /\ page - second = x
    BY <1>5
  <2> QED
    BY <1>5, <2>1, HalPages DEF b
<1>6. CASE app.driver = "g0b1"
  <2>1. ASSUME NEW x \in Nat, NEW m \in Nat, x < b, x + m <= b
        PROVE  G0SingleBank(x, m) = PagesFrom(x, m)
    <3>1. 2 * b \in Nat
      BY <1>1
    <3> QED
      BY <1>4, <2>1, <3>1 DEF G0SingleBank, b
  <2>2. ASSUME NEW x \in Nat, NEW m \in Nat, x >= b, x + m <= 2 * b
        PROVE  G0SingleBank(x, m) = PagesFrom(x, m)
    <3> DEFINE k == x - b
    <3>1. k \in Nat /\ b + x = 2 * b + k /\ b + k = x /\ k + m <= b /\ 2 * b \in Nat
      BY <1>1, <2>2
    <3> HIDE DEF k
    <3>2. HalErase(2, b + x, m, 2 * b) = PagesFrom(b + k, m)
      BY <1>5, <3>1
    <3>3. ~(x < b)
      BY <1>1, <2>2
    <3> QED
      BY <3>1, <3>2, <3>3 DEF G0SingleBank, b
  <2>3. G0Erase = PagesFrom(f, n)
    <3>1. CASE f <= b - 1 /\ f + n >= b
      <4> DEFINE h == b - f
                 k == (f + n) - b
      <4>1. /\ h \in Nat /\ k \in Nat /\ f < b /\ f + h = b /\ b + k <= 2 * b /\ h + k = n
        BY <1>1, <1>3, <1>6, <3>1
      <4>2. G0Erase = G0SingleBank(f, h) \o G0SingleBank(b, k)
        BY <3>1, Zenon DEF G0Erase, b, f, n
      <4> HIDE DEF h, k
      <4>3. G0SingleBank(f, h) = PagesFrom(f, h)
        BY <1>1, <2>1, <4>1
      <4>4. G0SingleBank(b, k) = PagesFrom(f + h, k)
        BY <1>1, <2>2, <4>1
      <4>5. PagesFrom(f, h) \o PagesFrom(f + h, k) = PagesFrom(f, h + k)
        BY <1>1, <4>1, PagesJoin, ZenonT(60)
      <4> QED
        BY <4>1, <4>2, <4>3, <4>4, <4>5, Zenon
    <3>2. CASE ~(f <= b - 1 /\ f + n >= b)
      <4>1. G0Erase = G0SingleBank(f, n)
        BY <3>2 DEF G0Erase, b, f, n
      <4>2. (f < b /\ f + n <= b) \/ (f >= b /\ f + n <= 2 * b)
        BY <1>1, <1>3, <1>6, <3>2
      <4> QED
        BY <1>1, <2>1, <2>2, <4>1, <4>2
    <3> QED
      BY <3>1, <3>2
  <2> QED
    BY <1>2, <1>6, <2>3 DEF EraseJobs
<1>7. CASE app.driver = "h753"
  <2>1. H7Erase = PagesFrom(f, n)
    <3>1. CASE f < b /\ f + n > b
      <4> DEFINE h == b - f
                 k == (f + n) - b
      <4>1. h \in Nat /\ k \in Nat /\ f + h = b /\ k <= b /\ h + k = n
        BY <1>1, <1>3, <1>7, <3>1
      <4>2. H7Erase = HalErase(1, f, h, 0) \o HalErase(2, 0, k, 0)
        BY <3>1, Zenon DEF H7Erase, b, f, n
      <4> HIDE DEF h, k
      <4>3. HalErase(1, f, h, 0) = PagesFrom(f, h)
        BY <1>1, <1>4, <4>1
      <4>4. HalErase(2, 0, k, 0) = PagesFrom(f + h, k)
        <5>1. HalErase(2, 0, k, 0) = PagesFrom(b + 0, k)
          BY <1>1, <1>5, <4>1
        <5>2. b + 0 = f + h
          BY <1>1, <4>1
        <5> QED
          BY <5>1, <5>2
      <4>5. PagesFrom(f, h) \o PagesFrom(f + h, k) = PagesFrom(f, h + k)
        BY <1>1, <4>1, PagesJoin, ZenonT(60)
      <4> QED
        BY <4>1, <4>2, <4>3, <4>4, <4>5, Zenon
    <3>2. CASE f < b /\ ~(f + n > b)
      <4>1. H7Erase = HalErase(1, f, n, 0)
        BY <3>2 DEF H7Erase, b, f, n
      <4>2. f + n <= b
        BY <1>1, <3>2
      <4> QED
        BY <1>1, <1>4, <4>1, <4>2
    <3>3. CASE ~(f < b)
      <4> DEFINE k == f - b
      <4>1. k \in Nat /\ k = 0 + k /\ b + k = f /\ k + n <= b
        BY <1>1, <1>3, <1>7, <3>3
      <4>2. H7Erase = HalErase(2, k, n, 0)
        BY <3>3 DEF H7Erase, b, f, n
      <4> HIDE DEF k
      <4>3. HalErase(2, k, n, 0) = PagesFrom(b + k, n)
        BY <1>1, <1>5, <4>1
      <4> QED
        BY <4>1, <4>2, <4>3
    <3> QED
      BY <3>1, <3>2, <3>3
  <2> QED
    BY <1>2, <1>7, <2>1 DEF EraseJobs
<1> QED
  BY <1>6, <1>7 DEF EraseJobs

\* The FRAM is erased by chunks, the last one as long as what is left.
LEMMA FramErases ==
    ASSUME app \in Apps
    PROVE  /\ JobsTo(app, FramErase, Goal(app, {})) /\ Covers(FramErase, Region(app))
           /\ \A i \in 1 .. Len(FramErase) : FramErase[i].kind # "program"
           /\ FramErase # <<>> => FramErase[1].kind # "fram"
<1> DEFINE q == FramErase
           E == EraseChunk
           bytes == app.num * app.page_size
           n == (bytes + E - 1) \div E
           L == Lo(app)
           len(i) == IF bytes - i * E < E THEN bytes - i * E ELSE E
           cells(i) == [k \in 1 .. len(i) |-> Erased]
           data(i) == FramData(RegionLo + i * E, cells(i))
<1>1. /\ L \in Nat /\ Hi(app) \in Nat /\ bytes \in Nat /\ Hi(app) = L + bytes
      /\ FlashStart \in Nat /\ Hi(app) <= FlashStart
  <2>1. Hi(app) = L + bytes /\ app \in App
    BY Geometry
  <2>2. bytes \in Int
    BY <2>1, SMT DEF App
  <2>3. bytes >= 0
    BY <2>1, SMT DEF App
  <2> HIDE DEF bytes
  <2> QED
    BY <2>1, <2>2, <2>3, Geometry
<1>2. E \in Nat \ {0}
  BY SizesAssumption
<1>3. RegionLo = L
  BY DEF RegionLo, Lo
<1>4. q = [j \in 1 .. 2 * n |-> <<FramWriteEnable, data((j - 1) \div 2)>>[1 + ((j - 1) % 2)]]
  BY Zenon DEF FramErase, FramWrite
<1> HIDE DEF q, E, bytes, L
<1>5. /\ n \in Nat
      /\ \A i \in 1 .. n : (i - 1) * E \in Nat /\ (i - 1) * E < bytes
      /\ \A k \in 0 .. bytes - 1 : \E i \in 1 .. n : (i - 1) * E <= k /\ k < (i - 1) * E + E
  BY <1>1, <1>2, WordsForSize
<1> HIDE DEF n
\* Chunk i is at x, and s half-words long.
<1> DEFINE x(i) == L + i * E
<1>6. ASSUME NEW i \in 0 .. n - 1
      PROVE  /\ x(i) \in Nat /\ L <= x(i) /\ len(i) \in Nat /\ x(i) + len(i) <= Hi(app)
             /\ len(i) = E \/ x(i) + len(i) = Hi(app)
             /\ x(i) = L + i * E
             /\ data(i) = [kind |-> "fram", at |-> x(i), cells |-> cells(i)]
             /\ cells(i) \in Seq(Value) /\ Len(cells(i)) = len(i)
             /\ \A k \in 1 .. len(i) : cells(i)[k] = Erased
  <2> DEFINE w == i * E
  <2>1. w \in Nat /\ w < bytes
    <3>1. i + 1 \in 1 .. n /\ (i + 1) - 1 = i
      BY <1>5
    <3> QED
      BY <1>5, <3>1
  <2> HIDE DEF w
  <2>2. len(i) = IF bytes - w < E THEN bytes - w ELSE E
    BY DEF w
  <2>3. x(i) = L + w
    BY DEF w
  <2> HIDE DEF len, x
  <2>4. /\ x(i) \in Nat /\ L <= x(i) /\ len(i) \in Nat /\ x(i) + len(i) <= Hi(app)
        /\ len(i) = E \/ x(i) + len(i) = Hi(app)
        /\ x(i) < FlashStart
    BY <1>1, <1>2, <2>1, <2>2, <2>3
  <2>5. cells(i) \in [1 .. len(i) -> Value]
    BY DEF Value
  <2>6. cells(i) \in Seq(Value) /\ Len(cells(i)) = len(i)
    <3> HIDE DEF cells
    <3> QED
      BY <2>4, <2>5, FunctionIsSequence
  <2>7. data(i) = [kind |-> "fram", at |-> Normalized(x(i)), cells |-> cells(i)]
    BY <1>3, Zenon DEF FramData, x
  <2>8. Normalized(x(i)) = x(i)
    BY <1>1, <2>4 DEF Normalized
  <2>9. \A k \in 1 .. len(i) : cells(i)[k] = Erased
    OBVIOUS
  <2> HIDE DEF data, cells
  <2> QED
    BY <2>4, <2>6, <2>7, <2>8, <2>9 DEF x
<1> HIDE DEF len, cells, data, x
<1>7. ASSUME NEW j \in 1 .. 2 * n
      PROVE  \E i \in 0 .. n - 1 : \/ j = 2 * i + 1 /\ q[j] = FramWriteEnable
                                   \/ j = 2 * i + 2 /\ q[j] = data(i)
  <2> DEFINE i == (j - 1) \div 2
             r == (j - 1) % 2
  <2>1. i \in Int /\ r \in 0 .. 1 /\ j - 1 = 2 * i + r
    BY <1>5
  <2>2. q[j] = <<FramWriteEnable, data(i)>>[1 + r]
    BY <1>4
  <2> HIDE DEF i, r
  <2>3. i \in 0 .. n - 1 /\ (r = 0 => j = 2 * i + 1) /\ (r = 1 => j = 2 * i + 2)
    BY <1>5, <2>1
  <2>4. (r = 0 => q[j] = FramWriteEnable) /\ (r = 1 => q[j] = data(i))
    BY <2>1, <2>2
  <2> QED
    BY <2>1, <2>3, <2>4
<1>8. ASSUME NEW i \in 0 .. n - 1
      PROVE  /\ 2 * i + 1 \in 1 .. 2 * n /\ q[2 * i + 1] = FramWriteEnable
             /\ 2 * i + 2 \in 1 .. 2 * n /\ q[2 * i + 2] = data(i)
  <2>1. /\ 2 * i + 1 \in 1 .. 2 * n /\ 2 * i + 2 \in 1 .. 2 * n
        /\ \A k \in 0 .. n - 1 : 2 * i + 1 # 2 * k + 2 /\ 2 * i + 2 # 2 * k + 1
        /\ \A k \in 0 .. n - 1 : 2 * i + 2 = 2 * k + 2 => k = i
    BY <1>5
  <2> QED
    BY <1>7, <2>1
<1>9. q \in Seq(Job) /\ Len(q) = 2 * n
  <2>1. FramWriteEnable \in Job
    BY DEF FramWriteEnable, Job
  <2>2. \A i \in 0 .. n - 1 : data(i) \in Job
    BY <1>6 DEF Job
  <2>3. \A j \in 1 .. 2 * n : q[j] \in Job
    BY <1>7, <2>1, <2>2
  <2>4. q = [j \in 1 .. 2 * n |-> q[j]]
    BY <1>4
  <2>5. q \in [1 .. 2 * n -> Job] /\ 2 * n \in Nat
    BY <1>5, <2>3, <2>4
  <2> QED
    BY <2>5, FunctionIsSequence
<1>10. ASSUME NEW i \in 0 .. n - 1
       PROVE  /\ data(i).kind = "fram" /\ data(i).at = x(i)
              /\ CellsOf(data(i)) = x(i) .. x(i) + len(i) - 1
              /\ \A c \in x(i) .. x(i) + len(i) - 1 :
                     c \in Region(app) /\ data(i).cells[c - x(i) + 1] = Goal(app, {})[c]
  <2>1. /\ x(i) \in Nat /\ L <= x(i) /\ len(i) \in Nat /\ x(i) + len(i) <= Hi(app)
        /\ data(i) = [kind |-> "fram", at |-> x(i), cells |-> cells(i)]
        /\ Len(cells(i)) = len(i) /\ \A k \in 1 .. len(i) : cells(i)[k] = Erased
    BY <1>6
  <2>2. /\ data(i).kind = "fram" /\ data(i).at = x(i) /\ data(i).cells = cells(i)
        /\ CellsOf(data(i)) = x(i) .. x(i) + len(i) - 1
    BY <2>1 DEF CellsOf
  <2>3. ASSUME NEW c \in x(i) .. x(i) + len(i) - 1
        PROVE  c \in Region(app) /\ data(i).cells[c - x(i) + 1] = Goal(app, {})[c]
    <3>1. c \in Region(app)
      BY <1>1, <2>1 DEF Region, L
    <3>2. cells(i)[c - x(i) + 1] = Erased
      BY <2>1
    <3> QED
      BY <2>2, <3>1, <3>2 DEF Goal
  <2> QED
    BY <2>2, <2>3
<1>11. /\ FramWriteEnable.kind = "wren" /\ CellsOf(FramWriteEnable) = {}
  BY DEF FramWriteEnable, CellsOf
<1>12. JobsTo(app, q, Goal(app, {})) /\ \A j \in 1 .. 2 * n : q[j].kind # "program"
  <2>1. \A j \in 1 .. 2 * n : q[j].kind # "program"
    BY <1>7, <1>10, <1>11
  <2>2. ASSUME NEW j \in 1 .. 2 * n, NEW c \in CellsOf(q[j])
        PROVE  c \in Region(app) /\ q[j].cells[c - q[j].at + 1] = Goal(app, {})[c]
    <3>1. PICK i \in 0 .. n - 1 : q[j] = FramWriteEnable \/ q[j] = data(i)
      BY <1>7
    <3>2. q[j] = data(i)
      BY <1>11, <2>2, <3>1
    <3>3. c \in x(i) .. x(i) + len(i) - 1 /\ q[j].at = x(i)
      BY <1>10, <2>2, <3>2
    <3> QED
      BY <1>10, <3>2, <3>3
  <2>3. ASSUME NEW j \in 2 .. 2 * n, q[j].kind = "fram"
        PROVE  q[j - 1].kind = "wren"
    <3>1. j \in 1 .. 2 * n
      BY <1>5
    <3>2. PICK i \in 0 .. n - 1 : j = 2 * i + 2
      BY <1>7, <1>11, <2>3, <3>1
    <3>3. j - 1 = 2 * i + 1
      BY <3>2
    <3> QED
      BY <1>8, <1>11, <3>3
  <2> QED
    BY <1>9, <2>1, <2>2, <2>3, Zenon DEF JobsTo
<1>13. ASSUME NEW c \in Region(app)
       PROVE  \E j \in 1 .. 2 * n : c \in CellsOf(q[j])
  <2>1. c \in Int /\ L <= c /\ c < Hi(app) /\ c - L \in 0 .. bytes - 1
    BY <1>1 DEF Region, L
  <2>2. PICK k \in 1 .. n : (k - 1) * E <= c - L /\ c - L < (k - 1) * E + E
    BY <1>5, <2>1
  <2> DEFINE i == k - 1
             w == i * E
  <2>3. i \in 0 .. n - 1 /\ w <= c - L /\ c - L < w + E
    BY <1>5, <2>2
  <2> HIDE DEF i
  <2>4. /\ x(i) = L + w /\ x(i) \in Nat /\ len(i) \in Nat
        /\ len(i) = E \/ x(i) + len(i) = Hi(app)
    BY <1>6, <2>3
  <2> HIDE DEF w
  <2>5. w \in Int
    BY <1>5, <2>2 DEF w, i
  <2>6. c \in x(i) .. x(i) + len(i) - 1
    BY <1>1, <1>2, <2>1, <2>3, <2>4, <2>5
  <2>7. 2 * i + 2 \in 1 .. 2 * n /\ q[2 * i + 2] = data(i)
    BY <1>8, <2>3
  <2>8. c \in CellsOf(q[2 * i + 2])
    BY <1>10, <2>3, <2>6, <2>7
  <2> QED
    BY <2>7, <2>8, Zenon
<1>14. q # <<>> => q[1].kind # "fram"
  <2>1. q # <<>> => 0 \in 0 .. n - 1
    BY <1>5, <1>9, EmptySeq
  <2>2. 2 * 0 + 1 = 1
    OBVIOUS
  <2> QED
    BY <1>8, <1>11, <2>1, <2>2
<1> QED
  BY <1>9, <1>12, <1>13, <1>14 DEF q, Covers

\* What an erase hands to the memory.
LEMMA EraseQueue ==
    ASSUME app \in Apps
    PROVE  /\ JobsTo(app, EraseJobs, Goal(app, {})) /\ Covers(EraseJobs, Region(app))
           /\ \A i \in 1 .. Len(EraseJobs) : EraseJobs[i].kind # "program"
           /\ EraseJobs # <<>> => EraseJobs[1].kind # "fram"
<1>1. CASE app.driver = "fram"
  <2>1. EraseJobs = FramErase
    BY <1>1 DEF EraseJobs
  <2> QED
    BY <2>1, FramErases
<1>2. CASE app.driver # "fram"
  <2>1. EraseJobs = F103Erase
    BY <1>2, BankedErases, Geometry DEF App
  <2> DEFINE q == F103Erase
  <2>2. q \in Seq(Job) /\ \A i \in 1 .. Len(q) : q[i].kind = "erase"
    BY PagesErase DEF JobsTo
  <2> HIDE DEF q
  <2>3. q # <<>> => q[1].kind # "fram"
    BY <2>2, EmptySeq
  <2> QED
    BY <2>1, <2>2, <2>3, PagesErase DEF q
<1> QED
  BY <1>1, <1>2

----------------------------------------------------------------------------
(* Programming                                                             *)

\* n words of u half-words from lo on.
Words(g, lo, n, u) ==
    [i \in 1 .. n |-> [kind |-> "program", at |-> lo + (i - 1) * u,
                       cells |-> [k \in 1 .. u |-> g[lo + (i - 1) * u + k - 1]]]]

LEMMA WordJobs ==
    ASSUME NEW a \in Apps, NEW g, \A c \in Region(a) : g[c] \in Value,
           NEW lo \in Int, NEW n \in Nat, Multiple(a.word, lo),
           Lo(a) <= lo, lo + a.word * n <= Hi(a)
    PROVE  LET q == Words(g, lo, n, a.word)
           IN /\ JobsTo(a, q, g)
              /\ \A c \in lo .. lo + a.word * n - 1 : \E i \in 1 .. Len(q) : c \in CellsOf(q[i])
              /\ \A i \in 1 .. Len(q) :
                     q[i].kind = "program" /\ CellsOf(q[i]) \subseteq lo .. lo + a.word * n - 1
<1> DEFINE u == a.word
           q == Words(g, lo, n, u)
<1>1. u \in Nat \ {0} /\ Lo(a) \in Nat /\ Hi(a) \in Nat
  BY Geometry
<1>2. Multiple(u, lo)
  OBVIOUS
<1>3. Lo(a) <= lo /\ lo + u * n <= Hi(a) /\ u * n \in Int
  BY <1>1, ProductOrder
<1> HIDE DEF u
<1>4. ASSUME NEW i \in 1 .. n
      PROVE  /\ (i - 1) * u \in Nat /\ (i - 1) * u + u <= u * n
             /\ Multiple(u, lo + (i - 1) * u)
  <2>1. (i - 1) * u = u * (i - 1) /\ u * (i - 1) \in Nat
    BY <1>1, SMT
  <2>2. u * (i - 1) + u <= u * n
    BY <1>1, ProductOrder
  <2>3. i - 1 \in Int /\ u * (i - 1) \in Int
    BY <2>1
  <2>4. Multiple(u, u * (i - 1))
    BY <2>3, Zenon DEF Multiple
  <2>5. Multiple(u, lo + u * (i - 1))
    BY <1>1, <1>2, <2>3, <2>4, MultiplesAddUp, Zenon
  <2> QED
    BY <2>1, <2>2, <2>5, Zenon
<1>5. ASSUME NEW i \in 1 .. n
      PROVE  /\ q[i].kind = "program" /\ q[i].at = lo + (i - 1) * u
             /\ q[i].cells = [k \in 1 .. u |-> g[lo + (i - 1) * u + k - 1]]
             /\ q[i] = [kind |-> q[i].kind, at |-> q[i].at, cells |-> q[i].cells]
  BY DEF Words
<1>6. DOMAIN q = 1 .. n /\ q = [i \in 1 .. n |-> q[i]]
  BY DEF Words
<1> HIDE DEF q
\* From here on, what matters of a job is where it begins.
<1>7. ASSUME NEW i \in 1 .. n
      PROVE  /\ q[i].at \in Int /\ lo <= q[i].at /\ q[i].at + u <= lo + u * n
             /\ Multiple(u, q[i].at)
             /\ \A k \in 1 .. u : q[i].cells[k] = g[q[i].at + k - 1]
             /\ q[i].cells \in Seq(Value) /\ Len(q[i].cells) = u
             /\ q[i] \in Job
  <2> DEFINE x == q[i].at
             w == (i - 1) * u
  <2>0. w \in Nat /\ w + u <= u * n
    BY <1>4
  <2>1. x = lo + w
    BY <1>5
  <2>9. q[i].cells = [k \in 1 .. u |-> g[x + k - 1]] /\ Multiple(u, x)
    BY <1>4, <1>5, Zenon
  <2> HIDE DEF x, w
  <2>2. x \in Int /\ lo <= x /\ x + u <= lo + u * n
    BY <1>1, <1>3, <2>0, <2>1
  <2>3. \A k \in 1 .. u : x + k - 1 \in Region(a)
    BY <1>1, <1>3, <2>2 DEF Region
  <2>4. q[i].cells \in [1 .. u -> Value]
    BY <2>3, <2>9
  <2>5. q[i].cells \in Seq(Value) /\ Len(q[i].cells) = u
    BY <1>1, <2>4, FunctionIsSequence
  <2>6. \A k \in 1 .. u : q[i].cells[k] = g[x + k - 1]
    BY <2>9
  <2>7. x \in Nat
    BY <1>1, <1>3, <2>2
  <2>8. q[i] \in Job
    <3>1. q[i] = [kind |-> "program", at |-> x, cells |-> q[i].cells]
      BY <1>5, Zenon DEF x
    <3> QED
      BY <2>5, <2>7, <3>1 DEF Job
  <2> QED
    BY <2>2, <2>5, <2>6, <2>8, <2>9 DEF x
<1>8. q \in Seq(Job) /\ Len(q) = n
  <2>1. q \in [1 .. n -> Job]
    BY <1>6, <1>7
  <2> QED
    BY <2>1, FunctionIsSequence
<1>9. ASSUME NEW i \in 1 .. n, NEW c \in CellsOf(q[i])
      PROVE  /\ c \in Region(a) /\ q[i].cells[c - q[i].at + 1] = g[c]
             /\ c \in lo .. lo + u * n - 1
  <2> DEFINE x == q[i].at
  <2>1. /\ x \in Int /\ lo <= x /\ x + u <= lo + u * n /\ Len(q[i].cells) = u
        /\ \A k \in 1 .. u : q[i].cells[k] = g[x + k - 1]
    BY <1>7
  <2>2. c \in Int /\ x <= c /\ c < x + u
    BY <1>1, <2>1 DEF CellsOf
  <2> HIDE DEF x
  <2>3. c \in Region(a) /\ c \in lo .. lo + u * n - 1
    BY <1>1, <1>3, <2>1, <2>2 DEF Region
  <2>4. c - x + 1 \in 1 .. u /\ x + (c - x + 1) - 1 = c
    BY <1>1, <2>1, <2>2, SMTT(30)
  <2>5. q[i].cells[c - x + 1] = g[c]
    BY <2>1, <2>4
  <2> QED
    BY <2>3, <2>5 DEF x
<1>10. \A i, k \in 1 .. n : i < k => q[i].at + u <= q[k].at
  <2> SUFFICES ASSUME NEW i \in 1 .. n, NEW k \in 1 .. n, i < k
               PROVE  q[i].at + u <= q[k].at
    OBVIOUS
  <2>1. u * (i - 1) + u <= u * (k - 1)
    BY <1>1, ProductOrder
  <2>2. (i - 1) * u = u * (i - 1) /\ (k - 1) * u = u * (k - 1)
    BY <1>1, SMT
  <2>3. u * (i - 1) \in Int /\ u * (k - 1) \in Int
    BY <1>1, ProductOrder
  <2>4. q[i].at = lo + u * (i - 1) /\ q[k].at = lo + u * (k - 1)
    BY <1>5, <2>2
  <2> QED
    BY <1>1, <2>1, <2>3, <2>4
<1>11. \A i \in 1 .. n : q[i].at % u = 0
  BY <1>1, <1>7, MultipleIsRemainder, Zenon
<1>12. JobsTo(a, q, g)
  <2>0. \A i \in 1 .. n : q[i].kind = "program"
    BY <1>5, Zenon
  <2>1. \A i \in 2 .. n : q[i].kind # "fram"
    BY <2>0
  <2>2. \A i \in 1 .. n : Len(q[i].cells) = u
    BY <1>7
  <2>3. \A i, k \in 1 .. n : i < k => q[i].at + Len(q[i].cells) <= q[k].at
    BY <1>10, <2>2
  <2> QED
    BY <1>8, <1>9, <1>11, <2>1, <2>2, <2>3, Zenon DEF JobsTo, u
<1>13. ASSUME NEW c \in lo .. lo + u * n - 1
       PROVE  \E i \in 1 .. n : c \in CellsOf(q[i])
  <2> DEFINE p == (c - lo) \div u
             r == (c - lo) % u
  <2>1. c \in Int /\ c - lo \in Int /\ 0 <= c - lo /\ c - lo < u * n
    BY <1>3
  <2>2. p \in Int /\ r \in 0 .. u - 1 /\ c - lo = u * p + r
    BY <1>1, <2>1, Division
  <2> HIDE DEF p, r
  <2>3. u * p \in Int /\ u * p < u * n /\ u * (-1) < u * p
    <3>1. u * p \in Int /\ u * (-1) = -u
      BY <1>1, <2>2, SMT
    <3> QED
      BY <1>1, <1>3, <2>1, <2>2, <3>1
  <2>4. p < n /\ -1 < p
    BY <1>1, <2>2, <2>3, ProductOrder
  <2>5. p + 1 \in 1 .. n /\ ((p + 1) - 1) * u = u * p
    BY <1>1, <2>2, <2>4, SMT
  <2>6. q[p + 1].at = lo + u * p /\ Len(q[p + 1].cells) = u
    BY <1>5, <1>7, <2>5
  <2>7. lo + u * p <= c /\ c < lo + u * p + u
    BY <1>1, <2>1, <2>2, <2>3
  <2>8. c \in CellsOf(q[p + 1])
    BY <1>1, <2>1, <2>3, <2>6, <2>7, SMTT(30) DEF CellsOf
  <2> QED
    BY <2>5, <2>8
<1> QED
  BY <1>5, <1>8, <1>9, <1>12, <1>13 DEF q, u

\* The pools written before a pool, and those written with it.
Before(pool) == IF pool = "ints" THEN {} ELSE {"ints"}
With(pool) == Before(pool) \cup {pool}

PoolCells(pool) == PoolOffset[pool] .. PoolOffset[pool] + PoolSize[pool] - 1

\* Writing a pool is about its own cells.
LEMMA GoalOfPool ==
    ASSUME app \in Apps, NEW pool \in Pools
    PROVE  /\ PoolOffset[pool] \in Nat /\ PoolSize[pool] \in Nat
           /\ Lo(app) <= PoolOffset[pool] /\ PoolOffset[pool] + PoolSize[pool] <= Hi(app)
           /\ \A c \in Region(app) :
                  Goal(app, With(pool))[c] =
                      IF c \in PoolCells(pool) THEN Datum(pool, c - PoolOffset[pool])
                      ELSE Goal(app, Before(pool))[c]
           /\ \A c \in Region(app) :
                  \/ pool = "strs" /\ c < Lo(app) + Ints(app)
                  \/ Goal(app, Before(pool))[c] = Erased
<1>1. /\ Lo(app) \in Nat /\ Hi(app) \in Nat /\ Ints(app) \in Nat /\ Strs(app) \in Nat
      /\ Lo(app) + Ints(app) + Strs(app) <= Hi(app)
  BY Geometry
<1>2. /\ PoolOffset = [ints |-> Lo(app), strs |-> Hi(app) - Strs(app)]
      /\ PoolSize = [ints |-> Ints(app), strs |-> Strs(app)]
  BY DEF PoolOffset, PoolSize, RegionLo, RegionHi, Lo, Hi, Ints, Strs
<1>3. CASE pool = "ints"
  <2>1. Before(pool) = {} /\ With(pool) = {"ints"}
    BY <1>3 DEF Before, With
  <2>2. PoolOffset[pool] = Lo(app) /\ PoolSize[pool] = Ints(app)
    BY <1>2, <1>3
  <2>3. \A c \in Region(app) : Goal(app, Before(pool))[c] = Erased
    BY <2>1 DEF Goal
  <2>4. \A c \in Region(app) :
            Goal(app, With(pool))[c] = IF c \in PoolCells(pool) THEN Datum(pool, c - Lo(app))
                                       ELSE Erased
    BY <1>1, <1>3, <2>1, <2>2 DEF Goal, PoolCells, Region
  <2> QED
    BY <1>1, <2>2, <2>3, <2>4
<1>4. CASE pool = "strs"
  <2>1. Before(pool) = {"ints"} /\ With(pool) = {"ints", "strs"}
    BY <1>4 DEF Before, With
  <2>2. PoolOffset[pool] = Hi(app) - Strs(app) /\ PoolSize[pool] = Strs(app)
    BY <1>2, <1>4
  <2>3. \A c \in Region(app) :
            Goal(app, Before(pool))[c] = IF c < Lo(app) + Ints(app) THEN Datum("ints", c - Lo(app))
                                         ELSE Erased
    BY <2>1 DEF Goal
  <2>4. \A c \in Region(app) :
            Goal(app, With(pool))[c] =
                IF c < Lo(app) + Ints(app) THEN Datum("ints", c - Lo(app))
                ELSE IF c >= Hi(app) - Strs(app) THEN Datum("strs", c - (Hi(app) - Strs(app)))
                ELSE Erased
    BY <2>1 DEF Goal
  <2>5. \A c \in Region(app) :
            /\ c \in PoolCells(pool) <=> c >= Hi(app) - Strs(app)
            /\ c \in PoolCells(pool) => ~(c < Lo(app) + Ints(app))
    BY <1>1, <2>2 DEF PoolCells, Region
  <2> QED
    BY <1>1, <1>4, <2>2, <2>3, <2>4, <2>5
<1> QED
  BY <1>3, <1>4 DEF Pools

\* Where the words of a pool are: from the word its first half-word is in, to
\* the word its last one is in, none of which holds anything of the other pool.
WordShift(pool) == Address(pool) % app.word
WordCount(pool) == (PoolSize[pool] + WordShift(pool) + app.word - 1) \div app.word

LEMMA WordsOfPool ==
    ASSUME app \in Apps, app.driver # "fram", NEW pool \in Pools
    PROVE  LET u == app.word
               lo == PoolOffset[pool] - WordShift(pool)
               n == WordCount(pool)
           IN /\ WordShift(pool) \in Nat /\ n \in Nat /\ Multiple(u, lo) /\ Lo(app) <= lo
              /\ PoolOffset[pool] + PoolSize[pool] <= lo + u * n /\ lo + u * n <= Hi(app)
              /\ pool = "strs" => Lo(app) + Ints(app) <= lo
              /\ app.driver # "h753" => WordShift(pool) = 0
<1> DEFINE u == app.word
           o == PoolOffset[pool]
           s == PoolSize[pool]
           d == WordShift(pool)
           n == WordCount(pool)
           L == Lo(app)
           H == Hi(app)
           I == Ints(app)
           S == Strs(app)
           F == FlashStart
<1>1. /\ u \in Nat \ {0} /\ L \in Nat /\ H \in Nat /\ I \in Nat /\ S \in Nat /\ F \in Nat
      /\ L + I + S <= H /\ Multiple(u, L) /\ Multiple(u, H) /\ Multiple(u, F)
  BY Geometry
<1>2. o \in Nat /\ s \in Nat /\ L <= o /\ o + s <= H
  BY GoalOfPool
<1>3. pool = "strs" => o = H - S /\ s = S
  BY DEF PoolOffset, PoolSize, RegionHi, Hi, Strs
<1>4. pool = "ints" => o = L /\ s = I
  BY DEF PoolOffset, PoolSize, RegionLo, Lo, Ints
<1>5. pool = "strs" => Multiple(u, S) \/ (app.driver = "h753" /\ I + S + u < H - L)
  <2>1. app \in App /\ DriversAssumption(app)
    BY AppsAssumption
  <2>2. app.strs \in Nat /\ StrSize \in Int /\ app.num * app.page_size = H - L
    <3>1. H = L + app.num * app.page_size /\ app.num * app.page_size \in Int
      BY <2>1, Geometry, SMT DEF App
    <3> QED
      BY <1>1, <2>1, <3>1, SizesAssumption DEF App
  <2>3. CASE StrSize % u = 0
    <3>1. Multiple(u, StrSize)
      BY <1>1, <2>2, <2>3, MultipleIsRemainder, Zenon
    <3>2. app.strs \in Int
      BY <2>2
    <3> QED
      BY <1>1, <2>2, <3>1, <3>2, MultipleOfProduct, Zenon DEF Strs
  <2>4. CASE app.driver = "h753" /\ I + S + u < H - L
    BY <2>4
  <2> QED
    BY <2>1, <2>2, <2>3, <2>4 DEF DriversAssumption, Ints, Strs
<1>6. d = (F + o) % u
  BY DEF WordShift, Address
<1>7. n = (s + d + u - 1) \div u
  BY DEF WordCount
<1> HIDE DEF u, o, s, d, n, L, H, I, S, F
<1>8. d \in 0 .. u - 1 /\ Multiple(u, F + o - d)
  <2> DEFINE v == F + o
             p == v \div u
  <2>0. v \in Int /\ d = v % u
    BY <1>1, <1>2, <1>6
  <2> HIDE DEF v
  <2>4. p \in Int /\ v % u \in 0 .. u - 1 /\ v = u * p + (v % u)
    BY <1>1, <2>0, Division
  <2> HIDE DEF p
  <2>1. p \in Int /\ d \in 0 .. u - 1 /\ F + o = u * p + d
    BY <2>0, <2>4, Zenon DEF v
  <2>2. u * p \in Int
    BY <1>1, <2>1, ProductOrder
  <2>3. F + o - d = u * p
    BY <1>1, <1>2, <2>1, <2>2
  <2> QED
    BY <2>1, <2>3, Zenon DEF Multiple
<1>9. Multiple(u, o - d)
  <2>1. F + o - d \in Int /\ F \in Int /\ (F + o - d) - F = o - d
    BY <1>1, <1>2, <1>8
  <2>2. Multiple(u, (F + o - d) - F)
    BY <1>1, <1>8, <2>1, MultiplesAddUp, Zenon
  <2> QED
    BY <2>1, <2>2
<1>10. ASSUME Multiple(u, o)
       PROVE  d = 0
  <2>1. F \in Int /\ o \in Int /\ F + o \in Int
    BY <1>1, <1>2
  <2>2. Multiple(u, F + o)
    BY <1>1, <1>10, <2>1, MultiplesAddUp, Zenon
  <2> QED
    BY <1>1, <1>6, <2>1, <2>2, MultipleIsRemainder, Zenon
<1>11. pool = "strs" /\ Multiple(u, S) => Multiple(u, o)
  <2>1. H \in Int /\ S \in Int
    BY <1>1
  <2> QED
    BY <1>1, <1>3, <2>1, MultiplesAddUp, Zenon
<1>12. /\ L <= o - d
       /\ pool = "strs" => L + I <= o - d
       /\ pool = "ints" \/ Multiple(u, S) => d = 0
  <2>1. pool \in {"ints", "strs"} /\ d \in Int /\ d < u
    BY <1>1, <1>8 DEF Pools
  <2>2. pool = "ints" \/ Multiple(u, S) => d = 0
    BY <1>1, <1>4, <1>10, <1>11, <2>1, Zenon
  <2>3. pool = "strs" /\ I + S + u < H - L => L + I <= o - d
    BY <1>1, <1>3, <2>1
  <2>4. pool = "strs" /\ d = 0 => L + I <= o - d
    BY <1>1, <1>3
  <2> QED
    BY <1>1, <1>2, <1>5, <2>1, <2>2, <2>3, <2>4
<1>13. n \in Nat /\ s + d <= u * n /\ u * n < s + d + u
  <2> DEFINE t == s + d
  <2>1. t \in Nat /\ n = (t + u - 1) \div u
    BY <1>2, <1>7, <1>8
  <2> HIDE DEF t
  <2>2. n \in Nat /\ t <= u * n /\ u * n < t + u
    BY <1>1, <2>1, WordsForSize
  <2> QED
    BY <2>2 DEF t
<1> DEFINE e == u * n
<1>14. e \in Int /\ Multiple(u, e)
  <2>1. n \in Int /\ e \in Int
    BY <1>1, <1>13, ProductOrder
  <2> QED
    BY <2>1, Zenon DEF Multiple
<1>15. s + d <= e /\ e < s + d + u
  BY <1>13
<1> HIDE DEF e
<1>16. (o - d) + e <= H
  <2>1. (o - d) + e \in Int /\ o - d \in Int /\ H \in Int
    BY <1>1, <1>2, <1>8, <1>14
  <2>2. Multiple(u, (o - d) + e)
    BY <1>1, <1>9, <1>14, <2>1, MultiplesAddUp, Zenon
  <2>3. H < (o - d) + e => H + u <= (o - d) + e
    BY <1>1, <2>1, <2>2, NextMultiple, Zenon
  <2> QED
    BY <1>1, <1>2, <1>8, <1>14, <1>15, <2>3
<1>17. o + s <= (o - d) + e /\ d \in Nat
  BY <1>1, <1>2, <1>8, <1>14, <1>15
<1>18. app.driver # "h753" => d = 0
  <2>1. pool \in {"ints", "strs"}
    BY DEF Pools
  <2> QED
    BY <1>5, <1>12, <2>1, Zenon
<1> QED
  BY <1>9, <1>12, <1>13, <1>16, <1>17, <1>18, Zenon DEF u, o, s, d, n, L, H, I, e

LEMMA SameWord ==
    ASSUME NEW x, NEW y, x = y, NEW c, NEW d, c = d
    PROVE  [kind |-> "program", at |-> x, cells |-> c] = [kind |-> "program", at |-> y, cells |-> d]
OBVIOUS

\* The words of each controller hold the pool, and 0xFF around it.
LEMMA ProgramWrites ==
    ASSUME app \in Apps, app.driver # "fram", NEW pool \in Pools
    PROVE  WriteJobs(pool) =
               Words(Goal(app, With(pool)), PoolOffset[pool] - WordShift(pool), WordCount(pool),
                     app.word)
<1> DEFINE u == app.word
           o == PoolOffset[pool]
           s == PoolSize[pool]
           d == WordShift(pool)
           n == WordCount(pool)
           g == Goal(app, With(pool))
           addr == Address(pool)
<1>1. /\ u \in Nat \ {0} /\ FlashStart \in Nat /\ Lo(app) \in Nat /\ Hi(app) \in Nat
      /\ Ints(app) \in Nat /\ app \in App
  BY Geometry
<1>2. o \in Nat /\ s \in Nat /\ Lo(app) <= o /\ o + s <= Hi(app)
  BY GoalOfPool
<1>3. /\ d \in Nat /\ n \in Nat /\ Lo(app) <= o - d /\ o + s <= (o - d) + u * n
      /\ (o - d) + u * n <= Hi(app)
      /\ pool = "strs" => Lo(app) + Ints(app) <= o - d
      /\ app.driver # "h753" => d = 0
  BY WordsOfPool
<1>4. \A c \in o - d .. (o - d) + u * n - 1 :
          /\ c \in Region(app)
          /\ g[c] = IF o <= c /\ c < o + s THEN Datum(pool, c - o) ELSE Erased
  <2> DEFINE e == u * n
  <2>1. e \in Int
    BY <1>1, <1>3, ProductOrder
  <2> HIDE DEF e
  <2> SUFFICES ASSUME NEW c \in o - d .. (o - d) + e - 1
               PROVE  /\ c \in Region(app)
                      /\ g[c] = IF o <= c /\ c < o + s THEN Datum(pool, c - o) ELSE Erased
    BY DEF e
  <2>2. c \in Region(app)
    BY <1>1, <1>2, <1>3, <2>1 DEF Region, e
  <2>3. Goal(app, Before(pool))[c] = Erased
    BY <1>1, <1>2, <1>3, <2>1, <2>2, GoalOfPool
  <2>4. c \in PoolCells(pool) <=> o <= c /\ c < o + s
    BY <1>1, <1>2, <1>3, <2>1 DEF PoolCells
  <2> QED
    BY <2>2, <2>3, <2>4, GoalOfPool
<1>5. n = (s + d + u - 1) \div u /\ addr = FlashStart + o /\ d = addr % u
  BY DEF WordCount, WordShift, Address
<1>6. /\ app.driver = "f103" => WriteJobs(pool) = F103Write(pool, addr, s) /\ u = 1
      /\ app.driver = "g0b1" => WriteJobs(pool) = G0Write(pool, addr, s)
      /\ app.driver = "h753" => WriteJobs(pool) = H7Write(pool, addr, s)
  <2>1. app.driver = "f103" => u = 1
    BY <1>1, AppsAssumption DEF DriversAssumption
  <2> HIDE DEF u
  <2> QED
    BY <2>1 DEF WriteJobs, Address
<1> HIDE DEF o, s, d, n, addr
<1>7. addr \in Nat /\ addr = FlashStart + o
  BY <1>1, <1>2, <1>5
<1> DEFINE x == o - d
           J(i) == [kind |-> "program", at |-> x + (i - 1) * u,
                    cells |-> [k \in 1 .. u |-> g[x + (i - 1) * u + k - 1]]]
<1>8. Words(g, x, n, u) = [i \in 1 .. n |-> J(i)]
  BY DEF Words
<1>9. x \in Int /\ x = o - d
  BY <1>2, <1>3
<1>10. \A c \in x .. x + u * n - 1 :
          g[c] = IF o <= c /\ c < o + s THEN Datum(pool, c - o) ELSE Erased
  BY <1>4
<1> HIDE DEF x, u
<1>11. ASSUME NEW i \in 1 .. n
      PROVE  /\ (i - 1) * u \in Nat
             /\ \A k \in 1 .. u :
                    g[x + (i - 1) * u + k - 1] =
                        IF o <= x + (i - 1) * u + k - 1 /\ x + (i - 1) * u + k - 1 < o + s
                        THEN Datum(pool, (x + (i - 1) * u + k - 1) - o) ELSE Erased
  <2> DEFINE w == (i - 1) * u
             e == u * n
  <2>1. w = u * (i - 1) /\ w \in Nat
    BY <1>1, <1>3, SMT
  <2>2. w + u <= e /\ e \in Int
    BY <1>1, <1>3, <2>1, ProductOrder
  <2> HIDE DEF w
  <2>3. \A k \in 1 .. u : x + w + k - 1 \in x .. x + e - 1
    <3> HIDE DEF e
    <3> QED
      BY <1>1, <1>9, <2>1, <2>2
  <2>4. \A k \in 1 .. u :
            g[x + w + k - 1] = IF o <= x + w + k - 1 /\ x + w + k - 1 < o + s
                               THEN Datum(pool, (x + w + k - 1) - o) ELSE Erased
    <3> SUFFICES ASSUME NEW k \in 1 .. u
                 PROVE  g[x + w + k - 1] = IF o <= x + w + k - 1 /\ x + w + k - 1 < o + s
                                           THEN Datum(pool, (x + w + k - 1) - o) ELSE Erased
      OBVIOUS
    <3> DEFINE c == x + w + k - 1
    <3>1. c \in x .. x + e - 1
      BY <2>3
    <3>2. c \in x .. x + e - 1 =>
              g[c] = IF o <= c /\ c < o + s THEN Datum(pool, c - o) ELSE Erased
      <4> HIDE DEF c, g
      <4> QED
        BY <1>10, Zenon
    <3> HIDE DEF g
    <3> QED
      BY <3>1, <3>2, Zenon
  <2> QED
    BY <2>1, <2>4 DEF w
<1> HIDE DEF g
<1>12. CASE app.driver = "h753"
  <2> DEFINE K(i) ==
                 Program(addr - d + (i - 1) * u,
                         [k \in 1 .. u |->
                             IF /\ addr <= addr - d + (i - 1) * u + k - 1
                                /\ addr - d + (i - 1) * u + k - 1 < addr + s
                             THEN Datum(pool, addr - d + (i - 1) * u + k - 1 - addr)
                             ELSE Erased])
  <2>1. (addr + s) - (addr - d) + u - 1 = s + d + u - 1
    BY <1>1, <1>2, <1>3, <1>7
  <2>2. WriteJobs(pool) = H7Write(pool, addr, s)
    BY <1>6, <1>12
  <2>3. H7Write(pool, addr, s) = [i \in 1 .. n |-> K(i)]
    BY <1>5, <2>1, Zenon DEF H7Write, u
  <2>4. ASSUME NEW i \in 1 .. n
        PROVE  K(i) = J(i)
    <3> DEFINE w == (i - 1) * u
    <3>1. /\ w \in Nat
          /\ \A k \in 1 .. u :
                 g[x + w + k - 1] = IF o <= x + w + k - 1 /\ x + w + k - 1 < o + s
                                    THEN Datum(pool, (x + w + k - 1) - o) ELSE Erased
      BY <1>11
    <3> HIDE DEF w
    <3>2. (addr - d + w) - FlashStart = x + w
      BY <1>1, <1>2, <1>3, <1>9, <1>7, <3>1
    <3>3. \A k \in 1 .. u :
              g[x + w + k - 1] =
                  IF addr <= addr - d + w + k - 1 /\ addr - d + w + k - 1 < addr + s
                  THEN Datum(pool, addr - d + w + k - 1 - addr) ELSE Erased
      <4> SUFFICES ASSUME NEW k \in 1 .. u
                   PROVE  g[x + w + k - 1] =
                              IF /\ addr <= addr - d + w + k - 1
                                 /\ addr - d + w + k - 1 < addr + s
                              THEN Datum(pool, addr - d + w + k - 1 - addr) ELSE Erased
        OBVIOUS
      <4>1. /\ addr - d + w + k - 1 - addr = (x + w + k - 1) - o
            /\ addr <= addr - d + w + k - 1 <=> o <= x + w + k - 1
            /\ addr - d + w + k - 1 < addr + s <=> x + w + k - 1 < o + s
        BY <1>1, <1>2, <1>3, <1>9, <1>7, <3>1
      <4> QED
        BY <3>1, <4>1, Zenon
    <3> DEFINE B == [k \in 1 .. u |-> g[x + w + k - 1]]
               A == [k \in 1 .. u |->
                        IF /\ addr <= addr - d + w + k - 1
                           /\ addr - d + w + k - 1 < addr + s
                        THEN Datum(pool, addr - d + w + k - 1 - addr) ELSE Erased]
    <3>4. A = B
      BY <3>3, Zenon
    <3>5. J(i) = [kind |-> "program", at |-> x + w, cells |-> B]
      BY DEF w
    <3>6. K(i) = [kind |-> "program", at |-> (addr - d + w) - FlashStart, cells |-> A]
      BY DEF Program, w
    <3> HIDE DEF J, K, A, B
    <3> QED
      BY <3>2, <3>4, <3>5, <3>6
  <2> HIDE DEF K, J
  <2>5. [i \in 1 .. n |-> K(i)] = [i \in 1 .. n |-> J(i)]
    BY <2>4, Zenon
  <2> QED
    BY <1>8, <2>2, <2>3, <2>5, Zenon DEF x, o, d, n, u, g
<1>13. CASE app.driver = "g0b1"
  <2> DEFINE K(i) ==
                 Program(addr + (i - 1) * u,
                         [k \in 1 .. u |-> IF (i - 1) * u + k - 1 < s
                                           THEN Datum(pool, (i - 1) * u + k - 1) ELSE Erased])
  <2>1. d = 0 /\ x = o /\ s + d + u - 1 = s + u - 1
    BY <1>1, <1>2, <1>3, <1>13, <1>9
  <2>2. WriteJobs(pool) = G0Write(pool, addr, s)
    BY <1>6, <1>13
  <2>3. G0Write(pool, addr, s) = [i \in 1 .. n |-> K(i)]
    BY <1>5, <2>1, Zenon DEF G0Write, u
  <2>4. ASSUME NEW i \in 1 .. n
        PROVE  K(i) = J(i)
    <3> DEFINE w == (i - 1) * u
    <3>1. /\ w \in Nat
          /\ \A k \in 1 .. u :
                 g[x + w + k - 1] = IF o <= x + w + k - 1 /\ x + w + k - 1 < o + s
                                    THEN Datum(pool, (x + w + k - 1) - o) ELSE Erased
      BY <1>11
    <3> HIDE DEF w
    <3>2. (addr + w) - FlashStart = x + w
      BY <1>1, <1>2, <1>7, <2>1, <3>1
    <3>3. \A k \in 1 .. u :
              g[x + w + k - 1] = IF w + k - 1 < s THEN Datum(pool, w + k - 1) ELSE Erased
      <4> SUFFICES ASSUME NEW k \in 1 .. u
                   PROVE  g[x + w + k - 1] =
                              IF w + k - 1 < s THEN Datum(pool, w + k - 1) ELSE Erased
        OBVIOUS
      <4>1. /\ (x + w + k - 1) - o = w + k - 1 /\ o <= x + w + k - 1
            /\ w + k - 1 < s <=> x + w + k - 1 < o + s
        BY <1>1, <1>2, <2>1, <3>1
      <4> QED
        BY <3>1, <4>1, Zenon
    <3> DEFINE B == [k \in 1 .. u |-> g[x + w + k - 1]]
               A == [k \in 1 .. u |-> IF w + k - 1 < s THEN Datum(pool, w + k - 1) ELSE Erased]
    <3>4. A = B
      BY <3>3, Zenon
    <3>5. J(i) = [kind |-> "program", at |-> x + w, cells |-> B]
      BY DEF w
    <3>6. K(i) = [kind |-> "program", at |-> (addr + w) - FlashStart, cells |-> A]
      BY DEF Program, w
    <3> HIDE DEF J, K, A, B
    <3> QED
      BY <3>2, <3>4, <3>5, <3>6
  <2> HIDE DEF K, J
  <2>5. [i \in 1 .. n |-> K(i)] = [i \in 1 .. n |-> J(i)]
    BY <2>4, Zenon
  <2> QED
    BY <1>8, <2>2, <2>3, <2>5, Zenon DEF x, o, d, n, u, g
<1>14. CASE app.driver = "f103"
  <2> DEFINE K(i) == Program(addr + i - 1, <<Datum(pool, i - 1)>>)
  <2>1. d = 0 /\ x = o /\ u = 1 /\ n = s
    <3>1. d = 0 /\ u = 1 /\ x = o
      BY <1>2, <1>3, <1>14, <1>6, <1>9
    <3>2. n = s \div 1
      BY <1>2, <1>5, <3>1
    <3> QED
      BY <1>2, <3>1, <3>2
  <2>2. WriteJobs(pool) = F103Write(pool, addr, s)
    BY <1>6, <1>14
  <2>3. F103Write(pool, addr, s) = [i \in 1 .. n |-> K(i)]
    BY <2>1, Zenon DEF F103Write
  <2>4. ASSUME NEW i \in 1 .. n
        PROVE  K(i) = J(i)
    <3> DEFINE w == (i - 1) * u
    <3>1. /\ w = i - 1
          /\ \A k \in 1 .. u :
                 g[x + w + k - 1] = IF o <= x + w + k - 1 /\ x + w + k - 1 < o + s
                                    THEN Datum(pool, (x + w + k - 1) - o) ELSE Erased
      BY <1>2, <1>11, <2>1
    <3> HIDE DEF w
    <3>2. (addr + i - 1) - FlashStart = x + w
      BY <1>1, <1>2, <1>7, <2>1, <3>1
    <3>3. \A k \in 1 .. u : g[x + w + k - 1] = Datum(pool, i - 1)
      <4> SUFFICES ASSUME NEW k \in 1 .. u
                   PROVE  g[x + w + k - 1] = Datum(pool, i - 1)
        OBVIOUS
      <4>1. /\ (x + w + k - 1) - o = i - 1 /\ o <= x + w + k - 1
            /\ x + w + k - 1 < o + s
        BY <1>1, <1>2, <2>1, <3>1
      <4> QED
        BY <3>1, <4>1, Zenon
    <3> DEFINE B == [k \in 1 .. u |-> g[x + w + k - 1]]
               A == <<Datum(pool, i - 1)>>
    <3>4. A = B
      <4>1. [k \in 1 .. u |-> g[x + w + k - 1]] = [k \in 1 .. 1 |-> Datum(pool, i - 1)]
        BY <2>1, <3>3, Zenon
      <4> QED
        BY <4>1, SMT
    <3>5. J(i) = [kind |-> "program", at |-> x + w, cells |-> B]
      BY DEF w
    <3>6. K(i) = [kind |-> "program", at |-> (addr + i - 1) - FlashStart, cells |-> A]
      BY DEF Program, w
    <3> HIDE DEF J, K, A, B
    <3> QED
      BY <3>2, <3>4, <3>5, <3>6
  <2> HIDE DEF K, J
  <2>5. [i \in 1 .. n |-> K(i)] = [i \in 1 .. n |-> J(i)]
    BY <2>4, Zenon
  <2> QED
    BY <1>8, <2>2, <2>3, <2>5, Zenon DEF x, o, d, n, u, g
<1> QED
  BY <1>1, <1>12, <1>13, <1>14 DEF App

\* The FRAM gets the cells of the pool in one command.
LEMMA FramWrites ==
    ASSUME app \in Apps, app.driver = "fram", NEW pool \in Pools
    PROVE  LET q == WriteJobs(pool)
           IN /\ JobsTo(app, q, Goal(app, With(pool)))
              /\ Len(q) = 2 /\ CellsOf(q[2]) = PoolCells(pool)
              /\ q[1].kind = "wren" /\ q[2].kind = "fram"
<1> DEFINE o == PoolOffset[pool]
           s == PoolSize[pool]
           g == Goal(app, With(pool))
           v == [k \in 1 .. s |-> Datum(pool, k - 1)]
           q == WriteJobs(pool)
<1>1. /\ o \in Nat /\ s \in Nat /\ Lo(app) <= o /\ o + s <= Hi(app)
      /\ \A c \in Region(app) : c \in PoolCells(pool) => g[c] = Datum(pool, c - o)
  BY GoalOfPool
<1>2. Lo(app) \in Nat /\ Hi(app) \in Nat /\ FlashStart \in Nat
  BY Geometry
<1>3. v \in Seq(Value) /\ Len(v) = s /\ \A k \in 1 .. s : v[k] = Datum(pool, k - 1)
  <2>1. v \in [1 .. s -> Value]
    BY <1>1 DEF Value, Datum
  <2> HIDE DEF s
  <2> QED
    BY <1>1, <2>1, FunctionIsSequence
<1>4. Normalized(FlashStart + o) = o
  BY <1>1, <1>2 DEF Normalized
<1>5. q = <<[kind |-> "wren", at |-> 0, cells |-> <<>>], [kind |-> "fram", at |-> o, cells |-> v]>>
  BY <1>4, Zenon DEF WriteJobs, FramWrite, FramWriteEnable, FramData, Address
<1> HIDE DEF q, v, o, s, g
<1>6. q \in Seq(Job) /\ Len(q) = 2
  BY <1>1, <1>3, <1>5 DEF Job
<1>7. /\ q[1].kind = "wren" /\ q[1].cells = <<>> /\ q[1].at = 0
      /\ q[2].kind = "fram" /\ q[2].cells = v /\ q[2].at = o
  BY <1>5
<1>8. CellsOf(q[1]) = {} /\ CellsOf(q[2]) = o .. o + s - 1
  BY <1>1, <1>3, <1>7, SMTT(30) DEF CellsOf
<1>9. \A c \in o .. o + s - 1 : c \in Region(app) /\ v[c - o + 1] = g[c]
  <2> SUFFICES ASSUME NEW c \in o .. o + s - 1
               PROVE  c \in Region(app) /\ v[c - o + 1] = g[c]
    OBVIOUS
  <2>1. c \in Region(app)
    BY <1>1, <1>2 DEF Region
  <2>2. c \in PoolCells(pool)
    BY DEF PoolCells, o, s
  <2>3. c - o + 1 \in 1 .. s /\ (c - o + 1) - 1 = c - o
    BY <1>1
  <2> QED
    BY <1>1, <1>3, <2>1, <2>2, <2>3
<1>10. JobsTo(app, q, g)
  <2>1. \A i \in 1 .. Len(q) : i = 1 \/ i = 2
    BY <1>6
  <2>2. \A i \in 1 .. Len(q) : \A c \in CellsOf(q[i]) :
            c \in Region(app) /\ q[i].cells[c - q[i].at + 1] = g[c]
    BY <1>7, <1>8, <1>9, <2>1
  <2>3. \A i \in 1 .. Len(q) : q[i].kind # "program"
    BY <1>7, <2>1
  <2>4. \A i \in 2 .. Len(q) : q[i].kind = "fram" => q[i - 1].kind = "wren"
    BY <1>6, <1>7
  <2> QED
    BY <1>6, <2>2, <2>3, <2>4, Zenon DEF JobsTo
<1> QED
  BY <1>6, <1>7, <1>8, <1>10 DEF q, g, PoolCells, o, s

\* What a write of a pool hands to the memory.
LEMMA PoolJobs ==
    ASSUME app \in Apps, NEW pool \in Pools
    PROVE  LET q == WriteJobs(pool)
           IN /\ JobsTo(app, q, Goal(app, With(pool)))
              /\ \A c \in PoolCells(pool) : \E i \in 1 .. Len(q) : c \in CellsOf(q[i])
              /\ \A i \in 1 .. Len(q) :
                     q[i].kind = "program" =>
                         \A c \in CellsOf(q[i]) : Goal(app, Before(pool))[c] = Erased
              /\ q # <<>> => q[1].kind # "fram"
<1> DEFINE q == WriteJobs(pool)
<1>1. CASE app.driver = "fram"
  <2>1. /\ JobsTo(app, q, Goal(app, With(pool)))
        /\ Len(q) = 2 /\ CellsOf(q[2]) = PoolCells(pool)
        /\ q[1].kind = "wren" /\ q[2].kind = "fram"
    BY <1>1, FramWrites
  <2> HIDE DEF q
  <2>2. 2 \in 1 .. Len(q) /\ \A i \in 1 .. Len(q) : i = 1 \/ i = 2
    BY <2>1
  <2>3. \A i \in 1 .. Len(q) : q[i].kind # "program"
    BY <2>1, <2>2
  <2> QED
    BY <2>1, <2>2, <2>3 DEF q
<1>2. CASE app.driver # "fram"
  <2> DEFINE g == Goal(app, With(pool))
             lo == PoolOffset[pool] - WordShift(pool)
             n == WordCount(pool)
             u == app.word
  <2>1. /\ n \in Nat /\ Multiple(u, lo) /\ Lo(app) <= lo /\ WordShift(pool) \in Nat
        /\ PoolOffset[pool] + PoolSize[pool] <= lo + u * n /\ lo + u * n <= Hi(app)
        /\ pool = "strs" => Lo(app) + Ints(app) <= lo
    BY <1>2, WordsOfPool
  <2>2. PoolOffset[pool] \in Nat /\ PoolSize[pool] \in Nat /\ lo \in Int
    BY <2>1, GoalOfPool
  <2>3. /\ Lo(app) \in Nat /\ Ints(app) \in Nat /\ Hi(app) \in Nat /\ u \in Nat \ {0}
    BY Geometry
  <2>4. q = Words(g, lo, n, u)
    BY <1>2, ProgramWrites
  <2>5. \A c \in Region(app) : g[c] \in Value
    BY GoalType
  <2> HIDE DEF q, g
  <2>6. /\ JobsTo(app, q, g)
        /\ \A c \in lo .. lo + u * n - 1 : \E i \in 1 .. Len(q) : c \in CellsOf(q[i])
        /\ \A i \in 1 .. Len(q) :
               q[i].kind = "program" /\ CellsOf(q[i]) \subseteq lo .. lo + u * n - 1
    <3> HIDE DEF lo, n
    <3> QED
      BY <2>1, <2>2, <2>4, <2>5, WordJobs
  <2> DEFINE e == u * n
  <2>7. e \in Int
    BY <2>1, <2>3, ProductOrder
  <2>8. /\ PoolOffset[pool] + PoolSize[pool] <= lo + e /\ lo + e <= Hi(app)
        /\ \A c \in lo .. lo + e - 1 : \E i \in 1 .. Len(q) : c \in CellsOf(q[i])
        /\ \A i \in 1 .. Len(q) :
               q[i].kind = "program" /\ CellsOf(q[i]) \subseteq lo .. lo + e - 1
    BY <2>1, <2>6
  <2> HIDE DEF e
  <2>9. PoolCells(pool) \subseteq lo .. lo + e - 1
    <3> DEFINE o == PoolOffset[pool]
               s == PoolSize[pool]
               d == WordShift(pool)
    <3>1. o \in Nat /\ s \in Nat /\ d \in Nat /\ lo = o - d /\ o + s <= lo + e
      BY <2>1, <2>2, <2>8
    <3> HIDE DEF o, s, d, lo
    <3>2. o .. o + s - 1 \subseteq lo .. lo + e - 1
      BY <2>7, <3>1
    <3> QED
      BY <3>2 DEF PoolCells, o, s
  <2>10. \A c \in lo .. lo + e - 1 : Goal(app, Before(pool))[c] = Erased
    <3> SUFFICES ASSUME NEW c \in lo .. lo + e - 1
                 PROVE  Goal(app, Before(pool))[c] = Erased
      OBVIOUS
    <3>1. c \in Int /\ lo <= c /\ c < lo + e
      BY <2>2, <2>7
    <3> HIDE DEF lo
    <3>2. c \in Region(app)
      BY <2>1, <2>2, <2>3, <2>7, <2>8, <3>1 DEF Region
    <3>3. ~(pool = "strs" /\ c < Lo(app) + Ints(app))
      BY <2>1, <2>2, <2>3, <3>1
    <3> QED
      BY <3>2, <3>3, GoalOfPool
  <2>11. q # <<>> => q[1].kind # "fram"
    <3>1. q \in Seq(Job)
      BY <2>6 DEF JobsTo
    <3>2. q # <<>> => 1 \in 1 .. Len(q)
      BY <3>1, EmptySeq
    <3> QED
      BY <2>8, <3>2
  <2> QED
    BY <2>6, <2>8, <2>9, <2>10, <2>11, Zenon DEF q, g
<1> QED
  BY <1>1, <1>2

----------------------------------------------------------------------------
(* The invariant                                                           *)

\* The pools that the region holds when the queue is done.
Stage(p) ==
    IF p \in {"ints", "call_strs"} THEN {"ints"} ELSE IF p \in {"strs", "end"} THEN Pools ELSE {}

\* A save that has met no error yet, in a region that is, or is being, erased.
Underway == pc = "erase" \/ (~write_protected /\ pc \notin {"idle", "begin"} /\ res = 0)

\* What is not yet as g has it is still to be done, to words that are erased.
Progress(a, m, q, g, l) ==
    /\ \A c \in Region(a) : m[c] = g[c] \/ \E i \in 1 .. Len(q) : c \in CellsOf(q[i])
    /\ \A i \in 1 .. Len(q) : q[i].kind = "program" => \A c \in CellsOf(q[i]) : m[c] = Erased
    /\ q # <<>> /\ q[1].kind = "fram" => l

Control ==
    /\ pc \in {"idle", "begin", "erase"} => write_protected
    /\ pc \in {"ints", "strs"} => ~write_protected
    /\ res # 0 => pc \in {"idle", "end"}
    /\ ~write_protected \/ pc = "erase" => "LOCK" \notin cr
    /\ write_protected /\ res = 0 /\ pc \in {"call_strs", "end"} => PoolSize.ints = 0
    /\ write_protected /\ res = 0 /\ pc = "end" => PoolSize.strs = 0

DInv ==
    /\ TypeOK
    /\ Control
    /\ JobsTo(app, todo, Goal(app, Stage(pc)))
    /\ Underway => Progress(app, mem, todo, Goal(app, Stage(pc)), latch)

\* A job, whether it is completed or not, changes cells of the region only.
LEMMA JobWithin ==
    ASSUME app \in Apps, mem \in [0 .. Size(app) - 1 -> Value], NEW g, JobsTo(app, todo, g),
           todo # <<>>, NEW n \in 0 .. Len(Head(todo).cells)
    PROVE  /\ After(Head(todo), n) \in [0 .. Size(app) - 1 -> Value]
           /\ \A c \in 0 .. Size(app) - 1 :
                  After(Head(todo), n)[c] # mem[c] => c \in Region(app)
<1> DEFINE job == Head(todo)
           m == After(job, n)
<1>1. job \in Job /\ job = todo[1] /\ 1 \in 1 .. Len(todo)
  BY JobsLeft
<1>2. \A c \in CellsOf(job) : c \in Region(app)
  BY <1>1 DEF JobsTo
<1>3. job.at \in Nat /\ job.cells \in Seq(Value) /\ n \in 0 .. Len(job.cells)
  BY <1>1 DEF Job
<1> HIDE DEF job
<1>4. CASE job.kind = "fram" /\ ~latch
  BY <1>4 DEF After, job
<1>5. CASE ~(job.kind = "fram" /\ ~latch)
  <2>1. m = [c \in 0 .. Size(app) - 1 |->
                IF c < job.at \/ c >= job.at + n THEN mem[c]
                ELSE IF job.kind = "program" /\ mem[c] # Erased THEN <<"lost", 0>>
                ELSE job.cells[c - job.at + 1]]
    BY <1>5 DEF After
  <2>2. ASSUME NEW c \in 0 .. Size(app) - 1, ~(c < job.at \/ c >= job.at + n)
        PROVE  c \in CellsOf(job) /\ job.cells[c - job.at + 1] \in Value
    <3>1. Size(app) \in Nat /\ Len(job.cells) \in Nat
      BY <1>3, Geometry
    <3>2. c - job.at + 1 \in 1 .. Len(job.cells) /\ c \in CellsOf(job)
      BY <1>3, <2>2, <3>1, SMTT(30) DEF CellsOf
    <3> QED
      BY <1>3, <3>2, ElementOfSeq
  <2>3. <<"lost", 0>> \in Value
    BY DEF Value
  <2> HIDE DEF m
  <2>4. ASSUME NEW c \in 0 .. Size(app) - 1
        PROVE  m[c] \in Value /\ (m[c] # mem[c] => c \in Region(app))
    <3>1. CASE c < job.at \/ c >= job.at + n
      BY <2>1, <3>1
    <3>2. CASE ~(c < job.at \/ c >= job.at + n)
      <4>1. c \in CellsOf(job) /\ job.cells[c - job.at + 1] \in Value
        BY <2>2, <3>2
      <4> QED
        BY <1>2, <2>1, <2>3, <3>2, <4>1
    <3> QED
      BY <3>1, <3>2
  <2>5. m \in [0 .. Size(app) - 1 -> Value]
    BY <2>1, <2>4
  <2> QED
    BY <2>4, <2>5 DEF m, job
<1> QED
  BY <1>4, <1>5 DEF job

\* A completed job brings the memory closer to what the queue is for.
LEMMA JobProgress ==
    ASSUME app \in Apps, mem \in [0 .. Size(app) - 1 -> Value], NEW g, JobsTo(app, todo, g),
           todo # <<>>, Progress(app, mem, todo, g, latch)
    PROVE  Progress(app, After(Head(todo), Len(Head(todo).cells)), Tail(todo), g,
                    LatchAfter(Head(todo)))
<1> DEFINE job == Head(todo)
           n == Len(job.cells)
           m == After(job, n)
           t == Tail(todo)
<1>1. /\ job \in Job /\ job = todo[1] /\ 1 \in 1 .. Len(todo)
      /\ t \in Seq(Job) /\ Len(t) = Len(todo) - 1
      /\ \A i \in 1 .. Len(t) : i + 1 \in 2 .. Len(todo) /\ t[i] = todo[i + 1]
      /\ JobsTo(app, t, g)
  BY JobsLeft
<1>2. job.at \in Nat /\ n \in Nat /\ Len(todo) \in Nat
  BY <1>1 DEF Job, JobsTo
<1>3. Region(app) \subseteq 0 .. Size(app) - 1 /\ \A c \in Region(app) : c \in Int
  BY Geometry DEF Region
<1>4. job.kind = "fram" => latch
  BY <1>1 DEF Progress
<1>5. m = [c \in 0 .. Size(app) - 1 |->
              IF c < job.at \/ c >= job.at + n THEN mem[c]
              ELSE IF job.kind = "program" /\ mem[c] # Erased THEN <<"lost", 0>>
              ELSE job.cells[c - job.at + 1]]
  BY <1>4 DEF After
<1>6. CellsOf(job) = job.at .. job.at + n - 1
  BY DEF CellsOf
<1>7. /\ \A c \in CellsOf(job) : c \in Region(app) /\ job.cells[c - job.at + 1] = g[c]
      /\ job.kind = "program" => \A c \in CellsOf(job) : mem[c] = Erased
  BY <1>1 DEF JobsTo, Progress
<1> HIDE DEF job, n, m, t
<1>8. ASSUME NEW c \in Region(app)
      PROVE  m[c] = IF c \in CellsOf(job) THEN g[c] ELSE mem[c]
  <2>1. c \in 0 .. Size(app) - 1 /\ c \in Int
    BY <1>3
  <2>2. c \in CellsOf(job) <=> ~(c < job.at \/ c >= job.at + n)
    BY <1>2, <1>6, <2>1
  <2> QED
    BY <1>5, <1>7, <2>1, <2>2
<1>9. ASSUME NEW c \in Region(app)
      PROVE  m[c] = g[c] \/ \E i \in 1 .. Len(t) : c \in CellsOf(t[i])
  <2>1. CASE mem[c] = g[c] \/ c \in CellsOf(job)
    BY <1>8, <2>1
  <2>2. CASE \E i \in 1 .. Len(todo) : c \in CellsOf(todo[i])
    <3>1. PICK i \in 1 .. Len(todo) : c \in CellsOf(todo[i])
      BY <2>2
    <3>2. CASE i = 1
      BY <1>1, <2>1, <3>1, <3>2
    <3>3. CASE i # 1
      <4>1. i - 1 \in 1 .. Len(t) /\ (i - 1) + 1 = i
        BY <1>1, <1>2, <3>3
      <4> QED
        BY <1>1, <3>1, <4>1
    <3> QED
      BY <3>2, <3>3
  <2> QED
    BY <2>1, <2>2 DEF Progress
<1>10. ASSUME NEW i \in 1 .. Len(t), t[i].kind = "program", NEW c \in CellsOf(t[i])
       PROVE  m[c] = Erased
  <2>1. i + 1 \in 1 .. Len(todo) /\ 1 < i + 1 /\ t[i] = todo[i + 1]
    BY <1>1, <1>2
  <2>2. mem[c] = Erased
    BY <1>10, <2>1 DEF Progress
  <2>3. job.at + n <= t[i].at
    <3>1. todo[1].at + Len(todo[1].cells) <= todo[i + 1].at
      BY <1>1, <1>10, <2>1, Zenon DEF JobsTo
    <3> QED
      BY <1>1, <2>1, <3>1 DEF n
  <2>4. c \in Region(app)
    BY <1>1 DEF JobsTo
  <2>5. c \notin CellsOf(job)
    <3>1. t[i] \in Job
      BY <1>1, ElementOfSeq
    <3>2. t[i].at \in Nat /\ t[i].cells \in Seq(Value)
      BY <3>1 DEF Job
    <3>3. Len(t[i].cells) \in Nat
      BY <3>2
    <3>4. t[i].at <= c /\ c \in Int
      BY <3>2, <3>3 DEF CellsOf
    <3> QED
      BY <1>2, <1>6, <2>3, <3>2, <3>4
  <2> QED
    BY <1>8, <2>2, <2>4, <2>5
<1>11. t # <<>> /\ t[1].kind = "fram" => LatchAfter(job)
  <2> SUFFICES ASSUME t # <<>>, t[1].kind = "fram" PROVE job.kind = "wren"
    BY DEF LatchAfter
  <2>1. 1 \in 1 .. Len(t)
    BY <1>1, EmptySeq
  <2>2. 2 \in 2 .. Len(todo) /\ t[1] = todo[2] /\ 2 - 1 = 1
    BY <1>1, <2>1
  <2>3. todo[2 - 1].kind = "wren"
    BY <2>2, Zenon DEF JobsTo
  <2> QED
    BY <1>1, <2>2, <2>3
<1> QED
  BY <1>9, <1>10, <1>11, Zenon DEF Progress, job, n, m, t

LEMMA DInvInit == Init => DInv
<1> SUFFICES ASSUME Init PROVE DInv
  OBVIOUS
<1>1. TypeOK
  BY DEF Init, TypeOK, PCs
<1>2. Control
  BY DEF Init, Control
<1>3. JobsTo(app, todo, Goal(app, Stage(pc)))
  BY NoJobs DEF Init
<1>4. ~Underway
  BY DEF Init, Underway
<1> QED
  BY <1>1, <1>2, <1>3, <1>4 DEF DInv

\* What happens to the memory: nothing, or a part of the job at the head.
LEMMA MemoryStep ==
    ASSUME DInv, Next
    PROVE  \/ mem' = mem
           \/ /\ todo # <<>>
              /\ \E n \in 0 .. Len(Head(todo).cells) : mem' = After(Head(todo), n)
<1>1. todo # <<>> => Len(Head(todo).cells) \in Nat
  BY JobsLeft DEF DInv, Job
<1>2. CASE JobDone
  BY <1>1, <1>2 DEF JobDone
<1>3. CASE JobFails
  <2>1. PICK n \in Stops(Head(todo)) : mem' = After(Head(todo), n)
    BY <1>3 DEF JobFails
  <2>2. n \in 0 .. Len(Head(todo).cells)
    BY <1>1, <1>3 DEF Stops, JobFails
  <2> QED
    BY <1>3, <2>1, <2>2 DEF JobFails
<1>4. CASE PowerLoss
  BY <1>4 DEF PowerLoss
<1>5. CASE ParamsSave \/ BeginWrite \/ CallDone \/ EndWrite \/ \E pool \in Pools : CallWrite(pool)
  BY <1>5 DEF ParamsSave, BeginWrite, CallWrite, CallDone, EndWrite
<1> QED
  BY <1>2, <1>3, <1>4, <1>5 DEF Next

LEMMA TypeStep ==
    ASSUME DInv, Next
    PROVE  TypeOK' /\ app' = app
<1>1. TypeOK
  BY DEF DInv
<1>2. app' = app
  BY DEF Next, ParamsSave, BeginWrite, CallWrite, JobDone, JobFails, CallDone, EndWrite, PowerLoss
<1>3. mem' \in [0 .. Size(app) - 1 -> Value]
  <2>1. mem \in [0 .. Size(app) - 1 -> Value]
    BY <1>1 DEF TypeOK, Value
  <2> QED
    BY <1>1, <2>1, MemoryStep, JobWithin DEF DInv, TypeOK
<1>4. /\ mem' \in [0 .. Size(app') - 1 -> {Erased, Old, <<"lost", 0>>} \cup (Pools \X Nat)]
      /\ app' \in Apps
  BY <1>1, <1>2, <1>3 DEF Value, TypeOK
<1> DEFINE Rest ==
             /\ cr' \subseteq {"LOCK", "PG"} /\ sr' \subseteq {"WRPRTERR", "PGERR"}
             /\ latch' \in BOOLEAN /\ write_protected' \in BOOLEAN /\ erased' \in BOOLEAN
             /\ pc' \in PCs /\ res' \in {0, -1}
             /\ todo' # <<>> => pc' \in {"erase", "ints", "strs"}
<1> DEFINE Now ==
             /\ cr \subseteq {"LOCK", "PG"} /\ sr \subseteq {"WRPRTERR", "PGERR"}
             /\ latch \in BOOLEAN /\ write_protected \in BOOLEAN /\ erased \in BOOLEAN
             /\ pc \in PCs /\ res \in {0, -1}
             /\ todo # <<>> => pc \in {"erase", "ints", "strs"}
<1>5. Now
  BY <1>1 DEF TypeOK
<1>6. ASSUME ParamsSave
      PROVE  Rest
  BY <1>5, <1>6 DEF ParamsSave, PCs, registers, rom
<1>7. ASSUME BeginWrite
      PROVE  Rest
  BY <1>5, <1>7 DEF BeginWrite, PCs, Unlocked
<1>8. ASSUME NEW pool \in Pools, CallWrite(pool)
      PROVE  Rest
  <2>1. pool \in {"ints", "strs"} /\ pc = CallPC(pool)
    BY <1>8 DEF CallWrite, Pools
  <2>2. pc \notin {"erase", "ints", "strs"} /\ todo = <<>>
    BY <1>5, <2>1 DEF CallPC
  <2>3. FollowingPC(pool) \in PCs /\ pool \in PCs /\ "end" \in PCs /\ ErasedAfter(pool) \in BOOLEAN
    BY <1>5, <2>1 DEF FollowingPC, PCs, ErasedAfter
  <2> QED
    BY <1>5, <1>8, <2>1, <2>2, <2>3 DEF CallWrite, registers
<1>9. ASSUME JobDone
      PROVE  Rest
  BY <1>5, <1>9 DEF JobDone, LatchAfter, rom
<1>10. ASSUME JobFails
      PROVE  Rest
  <2>1. latch' \in BOOLEAN
    <3>1. PICK n \in Stops(Head(todo)) : latch' \in LatchesAfterError(Head(todo), n)
      BY <1>10 DEF JobFails
    <3> QED
      BY <1>5, <3>1 DEF LatchesAfterError, LatchAfter
  <2>2. cr' \subseteq {"LOCK", "PG"}
    BY <1>5, <1>10 DEF JobFails, ControlAfterError
  <2>3. sr' \subseteq {"WRPRTERR", "PGERR"}
    <3>1. pc = "erase" \/ pc \in Pools
      BY <1>10 DEF JobFails
    <3>2. sr' \in ErrorFlags
      BY <1>10 DEF JobFails
    <3>3. sr' \in {sr, sr \cup {"WRPRTERR"}, sr \cup {"PGERR"}}
      BY <3>1, <3>2 DEF ErrorFlags
    <3> QED
      BY <1>5, <3>3 DEF TypeOK
  <2> QED
    BY <1>5, <1>10, <2>1, <2>2, <2>3 DEF JobFails, PCs
<1>11. ASSUME CallDone
       PROVE  Rest
  BY <1>5, <1>11 DEF CallDone, PCs, FollowingPC, ErasedAfter, registers
<1>12. ASSUME EndWrite
       PROVE  Rest
  BY <1>5, <1>12 DEF EndWrite, PCs, Locked
<1>13. ASSUME PowerLoss
       PROVE  Rest
  BY <1>5, <1>13 DEF PowerLoss, PCs
<1>14. Rest
  BY <1>6, <1>7, <1>8, <1>9, <1>10, <1>11, <1>12, <1>13 DEF Next
<1> QED
  BY <1>2, <1>4, <1>14 DEF TypeOK

LEMMA ControlStep ==
    ASSUME DInv, Next
    PROVE  Control'
<1>1. /\ Control /\ pc \in PCs /\ res \in {0, -1}
      /\ todo # <<>> => pc \in {"erase", "ints", "strs"}
  BY DEF DInv, TypeOK
<1>2. PoolSize' = PoolSize
  BY TypeStep DEF PoolSize
<1>3. CASE ParamsSave
  BY <1>1, <1>2, <1>3 DEF ParamsSave, Control, registers, rom
<1>4. CASE BeginWrite
  BY <1>1, <1>2, <1>4 DEF BeginWrite, Control, Unlocked
<1>5. ASSUME NEW pool \in Pools, CallWrite(pool)
      PROVE  Control'
  <2>1. /\ pool \in {"ints", "strs"} /\ pc = CallPC(pool)
        /\ UNCHANGED <<cr, write_protected>>
    BY <1>5 DEF CallWrite, Pools, registers
  <2>2. res = 0
    BY <1>1, <2>1 DEF Control, CallPC
  <2>3. CASE PoolSize[pool] = 0 /\ pc' = FollowingPC(pool) /\ res' = res
    BY <1>1, <1>2, <2>1, <2>2, <2>3 DEF Control, CallPC, FollowingPC
  <2>4. CASE ~write_protected /\ pc' = pool /\ res' = res
    BY <1>1, <1>2, <2>1, <2>2, <2>4 DEF Control
  <2>5. CASE pc' = "end" /\ res' = -1
    BY <1>1, <1>2, <2>1, <2>5 DEF Control, CallPC
  <2> QED
    BY <1>5, <2>3, <2>4, <2>5 DEF CallWrite, Accepted
<1>6. CASE JobDone
  BY <1>1, <1>2, <1>6 DEF JobDone, Control, rom
<1>7. CASE JobFails
  <2>1. "LOCK" \in cr' => "LOCK" \in cr
    BY <1>7 DEF JobFails, ControlAfterError
  <2> QED
    BY <1>1, <1>2, <1>7, <2>1 DEF JobFails, Control, Pools
<1>8. CASE CallDone
  BY <1>1, <1>2, <1>8 DEF CallDone, Control, FollowingPC, Pools, registers
<1>9. CASE EndWrite
  BY <1>1, <1>2, <1>9 DEF EndWrite, Control
<1>10. CASE PowerLoss
  BY <1>1, <1>2, <1>10 DEF PowerLoss, Control
<1> QED
  BY <1>3, <1>4, <1>5, <1>6, <1>7, <1>8, <1>9, <1>10 DEF Next

LEMMA QueueStep ==
    ASSUME DInv, Next
    PROVE  /\ JobsTo(app, todo', Goal(app, Stage(pc')))
           /\ Underway' => Progress(app, mem', todo', Goal(app, Stage(pc')), latch')
<1>1. /\ TypeOK /\ Control /\ JobsTo(app, todo, Goal(app, Stage(pc)))
      /\ Underway => Progress(app, mem, todo, Goal(app, Stage(pc)), latch)
      /\ app \in Apps /\ pc \in PCs
      /\ todo # <<>> => pc \in {"erase", "ints", "strs"}
  BY DEF DInv, TypeOK
<1>2. mem \in [0 .. Size(app) - 1 -> Value]
  BY <1>1 DEF TypeOK, Value
<1> DEFINE Goal1 ==
             /\ JobsTo(app, todo', Goal(app, Stage(pc')))
             /\ Underway' => Progress(app, mem', todo', Goal(app, Stage(pc')), latch')
<1>3. ASSUME todo' = <<>>, ~Underway'
      PROVE  Goal1
  BY <1>3, NoJobs
<1>4. ASSUME ParamsSave
      PROVE  Goal1
  <2>1. todo' = <<>> /\ ~Underway'
    BY <1>1, <1>4 DEF ParamsSave, Control, Underway, rom
  <2> QED
    BY <1>3, <2>1
<1>5. ASSUME BeginWrite
      PROVE  Goal1
  <2>1. pc = "begin" /\ write_protected' /\ mem' = mem /\ todo = <<>>
    BY <1>1, <1>5 DEF BeginWrite, Control
  <2>2. CASE pc' = "call_ints" /\ todo' = todo
    <3>1. ~Underway'
      BY <2>1, <2>2 DEF Underway
    <3> QED
      BY <1>3, <2>1, <2>2, <3>1
  <2>3. CASE pc' = "erase" /\ todo' = EraseJobs
    <3>1. Stage(pc') = {}
      BY <2>3 DEF Stage
    <3>2. Progress(app, mem, EraseJobs, Goal(app, {}), latch')
      BY <1>1, EraseQueue DEF Progress, Covers
    <3> QED
      BY <1>1, <2>1, <2>3, <3>1, <3>2, EraseQueue
  <2> QED
    BY <1>5, <2>2, <2>3 DEF BeginWrite
<1>6. ASSUME NEW pool \in Pools, CallWrite(pool)
      PROVE  Goal1
  <2> DEFINE q == WriteJobs(pool)
             g == Goal(app, Before(pool))
             h == Goal(app, With(pool))
  <2>1. /\ pool \in {"ints", "strs"} /\ pc = CallPC(pool) /\ mem' = mem
        /\ write_protected' = write_protected /\ latch' = latch
    BY <1>6 DEF CallWrite, Pools, registers
  <2>2. /\ Stage(pc) = Before(pool) /\ Stage(pool) = With(pool)
        /\ Stage(FollowingPC(pool)) = With(pool)
    BY <2>1 DEF Stage, Before, With, CallPC, FollowingPC, Pools
  <2>3. todo = <<>> /\ res = 0 /\ pc \notin {"idle", "begin", "erase"}
    BY <1>1, <2>1 DEF CallPC, Control
  <2>4. ~write_protected => \A c \in Region(app) : mem[c] = g[c]
    <3>1. ~write_protected => Underway
      BY <2>3 DEF Underway
    <3> QED
      BY <1>1, <2>2, <2>3, <3>1 DEF Progress
  <2>5. /\ \A c \in Region(app) : c \notin PoolCells(pool) => h[c] = g[c]
        /\ PoolSize[pool] = 0 => PoolCells(pool) = {}
    <3>1. /\ PoolOffset[pool] \in Nat
          /\ \A c \in Region(app) : c \notin PoolCells(pool) => h[c] = g[c]
      BY <1>1, GoalOfPool
    <3> QED
      BY <3>1 DEF PoolCells
  <2>6. CASE PoolSize[pool] = 0 /\ pc' = FollowingPC(pool) /\ todo' = todo
    <3>1. Underway' => ~write_protected
      BY <2>1, <2>6 DEF Underway, FollowingPC
    <3>2. ~write_protected => Progress(app, mem, <<>>, h, latch)
      BY <2>4, <2>5, <2>6 DEF Progress
    <3> QED
      BY <2>1, <2>2, <2>3, <2>6, <3>1, <3>2, NoJobs
  <2>7. CASE ~write_protected /\ pc' = pool /\ todo' = q
    <3>1. /\ JobsTo(app, q, h)
          /\ \A c \in PoolCells(pool) : \E i \in 1 .. Len(q) : c \in CellsOf(q[i])
          /\ \A i \in 1 .. Len(q) :
                 q[i].kind = "program" => \A c \in CellsOf(q[i]) : g[c] = Erased
          /\ q # <<>> => q[1].kind # "fram"
      BY <1>1, PoolJobs
    <3> HIDE DEF q, g, h
    <3>2. \A i \in 1 .. Len(q) : \A c \in CellsOf(q[i]) : c \in Region(app)
      BY <3>1 DEF JobsTo
    <3>3. Progress(app, mem, q, h, latch)
      BY <2>4, <2>5, <2>7, <3>1, <3>2 DEF Progress
    <3> QED
      BY <2>1, <2>2, <2>7, <3>1, <3>3 DEF h
  <2>8. CASE pc' = "end" /\ res' = -1 /\ todo' = todo
    <3>1. ~Underway'
      BY <2>8 DEF Underway
    <3> QED
      BY <1>3, <2>3, <2>8, <3>1
  <2> QED
    BY <1>6, <2>6, <2>7, <2>8 DEF CallWrite, Accepted
<1>7. ASSUME JobDone
      PROVE  Goal1
  <2>1. /\ todo # <<>> /\ mem' = After(Head(todo), Len(Head(todo).cells)) /\ todo' = Tail(todo)
        /\ latch' = LatchAfter(Head(todo)) /\ pc' = pc /\ (Underway' <=> Underway)
    BY <1>7 DEF JobDone, rom, Underway
  <2>2. JobsTo(app, Tail(todo), Goal(app, Stage(pc)))
    BY <1>1, <2>1, JobsLeft
  <2>3. Underway => Progress(app, mem', Tail(todo), Goal(app, Stage(pc)), latch')
    BY <1>1, <1>2, <2>1, JobProgress
  <2> QED
    BY <2>1, <2>2, <2>3
<1>8. ASSUME JobFails
      PROVE  Goal1
  <2>1. todo' = <<>> /\ ~Underway'
    BY <1>1, <1>8 DEF JobFails, Control, Underway, Pools
  <2> QED
    BY <1>3, <2>1
<1>9. ASSUME CallDone
      PROVE  Goal1
  <2>1. /\ todo = <<>> /\ todo' = <<>> /\ mem' = mem /\ latch' = latch
        /\ pc \in {"erase", "ints", "strs"} /\ res' = res
    BY <1>9 DEF CallDone, Pools, registers
  <2>2. Stage(pc') = Stage(pc)
    BY <1>9, <2>1 DEF CallDone, Stage, FollowingPC, Pools
  <2>3. Underway
    BY <1>1, <2>1 DEF Control, Underway
  <2> QED
    BY <1>1, <2>1, <2>2, <2>3
<1>10. ASSUME EndWrite \/ PowerLoss
       PROVE  Goal1
  <2>1. todo' = <<>> /\ ~Underway'
    BY <1>1, <1>10 DEF EndWrite, PowerLoss, Underway
  <2> QED
    BY <1>3, <2>1
<1> QED
  BY <1>4, <1>5, <1>6, <1>7, <1>8, <1>9, <1>10 DEF Next

LEMMA DInvStep == DInv /\ [Next]_vars => DInv'
<1>1. ASSUME DInv, Next
      PROVE  DInv'
  <2>1. TypeOK' /\ app' = app /\ Control'
    BY <1>1, TypeStep, ControlStep
  <2>2. /\ JobsTo(app, todo', Goal(app, Stage(pc')))
        /\ Underway' => Progress(app, mem', todo', Goal(app, Stage(pc')), latch')
    BY <1>1, QueueStep
  <2> QED
    BY <2>1, <2>2 DEF DInv
<1>2. ASSUME DInv, UNCHANGED vars
      PROVE  DInv'
  BY <1>2 DEF DInv, vars, registers, rom, TypeOK, Control, Underway, PoolSize
<1> QED
  BY <1>1, <1>2

THEOREM Invariance == Spec => []DInv
BY DInvInit, DInvStep, PTL DEF Spec

----------------------------------------------------------------------------
(* What follows                                                            *)

\* The variables keep their types, and a queue of jobs is only there while a
\* driver call runs.
THEOREM DriversTypeOK == Spec => []TypeOK
<1>1. DInv => TypeOK
  BY DEF DInv
<1> QED
  BY <1>1, Invariance, PTL

\* Nothing outside the region is changed: neither by the erase of pages that
\* are split between banks, nor by words that are padded, nor by a job that
\* fails or is cut by a power loss.
THEOREM TheRestIsKept == Spec => OnlyRegionChanges
<1>1. DInv /\ [Next]_vars =>
          [\A c \in DOMAIN mem : mem'[c] # mem[c] => c \in RegionLo .. RegionHi - 1]_vars
  <2> SUFFICES ASSUME DInv, Next, NEW c \in DOMAIN mem, mem'[c] # mem[c]
               PROVE  c \in RegionLo .. RegionHi - 1
    OBVIOUS
  <2>1. app \in Apps /\ mem \in [0 .. Size(app) - 1 -> Value]
    BY DEF DInv, TypeOK, Value
  <2>2. JobsTo(app, todo, Goal(app, Stage(pc)))
    BY DEF DInv
  <2>3. PICK n \in 0 .. Len(Head(todo).cells) : todo # <<>> /\ mem' = After(Head(todo), n)
    BY MemoryStep
  <2>4. c \in Region(app)
    BY <2>1, <2>2, <2>3, JobWithin
  <2> QED
    BY <2>4 DEF Region, RegionLo, RegionHi, Lo, Hi
<1> QED
  BY <1>1, Invariance, PTL DEF Spec, OnlyRegionChanges

\* Flash is read where it is mapped, and the FRAM below the address from which
\* it is addressed, so that offsets in the region are read as they are.
LEMMA ReadsWhereItIs ==
    ASSUME app \in Apps, NEW m, NEW c \in Region(app)
    PROVE  FlashRead(m, c) = m[c]
<1>1. c \in Int /\ c < FlashStart
  BY Geometry DEF Region
<1> QED
  BY <1>1, Geometry DEF FlashRead, Normalized

\* A region is only writable when every page of it was erased without error.
THEOREM WritableIsErased == Spec => []WritableMeansErased
<1>1. DInv => WritableMeansErased
  <2> SUFFICES ASSUME DInv, ~write_protected, pc = "call_ints",
                      NEW c \in RegionLo .. RegionHi - 1
               PROVE  FlashRead(mem, c) = Erased
    BY DEF WritableMeansErased
  <2>1. c \in Region(app) /\ app \in Apps
    BY DEF DInv, TypeOK, Region, RegionLo, RegionHi, Lo, Hi
  <2>2. todo = <<>> /\ res = 0 /\ Stage(pc) = {}
    BY DEF DInv, TypeOK, Control, Stage
  <2>3. Underway
    BY <2>2 DEF Underway
  <2>4. mem[c] = Goal(app, {})[c]
    <3>1. Progress(app, mem, <<>>, Goal(app, {}), latch)
      BY <2>2, <2>3 DEF DInv
    <3> QED
      BY <2>1, <3>1 DEF Progress
  <2>5. mem[c] = Erased
    BY <2>1, <2>4 DEF Goal
  <2> QED
    BY <2>1, <2>5, ReadsWhereItIs
<1> QED
  BY <1>1, Invariance, PTL

\* A controller is only asked for what its manual permits: whole words at
\* their alignment, unlocked, and erased since they were last programmed.
THEOREM WordsArePermitted == Spec => []WordsAlignedAndErased
<1>1. DInv => WordsAlignedAndErased
  <2> SUFFICES ASSUME DInv, todo # <<>>, Head(todo).kind = "program"
               PROVE  LET job == Head(todo)
                      IN /\ job.at % app.word = 0
                         /\ Len(job.cells) = app.word
                         /\ "LOCK" \notin cr
                         /\ \A c \in job.at .. job.at + app.word - 1 :
                                c \in RegionLo .. RegionHi - 1 /\ mem[c] = Erased
    BY DEF WordsAlignedAndErased
  <2> DEFINE job == Head(todo)
             g == Goal(app, Stage(pc))
  <2>1. JobsTo(app, todo, g) /\ Control /\ pc \in {"erase", "ints", "strs"}
    BY DEF DInv, TypeOK
  <2>2. job = todo[1] /\ 1 \in 1 .. Len(todo)
    BY <2>1, JobsLeft
  <2>3. Underway /\ "LOCK" \notin cr
    BY <2>1 DEF Control, Underway
  <2>4. Progress(app, mem, todo, g, latch)
    BY <2>3 DEF DInv
  <2> HIDE DEF g
  <2>5. job.at % app.word = 0 /\ Len(job.cells) = app.word
    BY <2>1, <2>2, Zenon DEF JobsTo, job
  <2>6. \A c \in CellsOf(job) : c \in Region(app) /\ mem[c] = Erased
    BY <2>1, <2>2, <2>4 DEF JobsTo, Progress
  <2>7. CellsOf(job) = job.at .. job.at + app.word - 1
    BY <2>5 DEF CellsOf
  <2> QED
    BY <2>3, <2>5, <2>6, <2>7 DEF Region, RegionLo, RegionHi, Lo, Hi
<1> QED
  BY <1>1, Invariance, PTL

\* After a save without an error, both pools are read back as they were, from
\* the offsets of paramsLoad.
THEOREM SavedIsReadBack == Spec => []SavedReadsBack
<1>1. DInv => SavedReadsBack
  <2> SUFFICES ASSUME DInv, pc = "end", res = 0, NEW pool \in Pools,
                      NEW i \in 0 .. PoolSize[pool] - 1
               PROVE  FlashRead(mem, PoolOffset[pool] + i) = Datum(pool, i)
    BY DEF SavedReadsBack
  <2> DEFINE c == PoolOffset[pool] + i
             o == PoolOffset[pool]
             s == PoolSize[pool]
  <2>1. app \in Apps /\ Control /\ todo = <<>> /\ Stage(pc) = Pools
    BY DEF DInv, TypeOK, Stage
  <2>2. /\ o \in Nat /\ s \in Nat /\ Lo(app) <= o /\ o + s <= Hi(app)
        /\ Lo(app) \in Nat /\ Hi(app) \in Nat
    BY <2>1, GoalOfPool, Geometry
  <2>3. ~write_protected
    BY <2>1, <2>2 DEF Control, Pools
  <2>4. c \in PoolCells(pool) /\ c \in Region(app) /\ c - o = i
    <3> HIDE DEF o, s
    <3>1. c = o + i /\ i \in 0 .. s - 1
      BY DEF o, s
    <3> HIDE DEF c
    <3>2. c \in o .. o + s - 1 /\ c \in Lo(app) .. Hi(app) - 1 /\ c - o = i
      BY <2>2, <3>1
    <3> QED
      BY <3>2 DEF PoolCells, Region, o, s
  <2>5. mem[c] = Goal(app, Pools)[c]
    BY <2>1, <2>3, <2>4 DEF DInv, Underway, Progress
  <2> HIDE DEF c
  <2>6. Goal(app, Pools)[c] = Datum(pool, i)
    <3>1. Goal(app, With("strs")) = Goal(app, Pools)
      <4>1. With("strs") = Pools
        BY DEF With, Before, Pools
      <4> QED
        BY <4>1
    <3>2. CASE pool = "strs"
      BY <2>1, <2>4, <3>1, <3>2, GoalOfPool
    <3>3. CASE pool = "ints"
      <4>1. o = Lo(app) /\ s = Ints(app)
        BY <3>3 DEF PoolOffset, PoolSize, RegionLo, Lo, Ints
      <4>2. c \in Int /\ c < Lo(app) + Ints(app)
        BY <2>2, <2>4, <4>1 DEF PoolCells
      <4> QED
        BY <2>4, <3>3, <4>1, <4>2 DEF Goal, Pools
    <3> QED
      BY <3>2, <3>3 DEF Pools
  <2>7. FlashRead(mem, c) = mem[c]
    BY <2>1, <2>4, ReadsWhereItIs
  <2> QED
    BY <2>5, <2>6, <2>7 DEF c
<1> QED
  BY <1>1, Invariance, PTL
====
