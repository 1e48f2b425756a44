---- MODULE SitlStore ----
(***************************************************************************)
(* The store on Linux (SITL): platform_specific/ubuntu/flash_driver.cpp    *)
(* keeps both regions in memory and YamlParameters.cpp mirrors the region  *)
(* that is written to one YAML file per page.  Only the files outlive the  *)
(* process; a start reads them back into the primary region.               *)
(*                                                                         *)
(* A page file holds the integers and the strings printed on it.  paramsSave *)
(* is a sequence of steps, one for every file of every flashWrite, because *)
(* the process may be killed with a file half written.  Between two        *)
(* processes the program may be replaced by another version of it, with    *)
(* other parameters.  The CRC is left out: storage.c computes it over      *)
(* erased bytes 0xFF, this driver erases to 0 (module Storage), and a      *)
(* region of zeros never matches it.                                       *)
(***************************************************************************)
EXTENDS Integers, Sequences, SequencesExt

CONSTANTS
    PageSize,    \* PAGE_SIZE_BYTES
    IntSize,     \* sizeof(IntegerParamValue_t)
    StrSize,     \* MAX_STRING_LENGTH
    Apps,        \* programs: their parameters, inputs and environment
    Updates,     \* pairs of programs, a version and one that may replace it
    SetInts,     \* values passed to paramsSetIntegerValue
    QuotedStr,   \* a string with a quotation mark inside, or a line break and
                 \* no colon after it
    NumberedStr, \* a string with a line break, and a second line like "x: 5"
    LineInt,     \* the number on that line
    NamedStr,    \* a string with a line break, and a second line like "x: y"
    NoFile       \* a page file that does not exist

VARIABLES
    app,         \* the program
    nvm,         \* nvm_params_<page>.yaml
    memory,      \* flash_memory: the primary and the redundant region
    pools,       \* integer_values_pool and string_values_pool
    active_rom,
    running,     \* is there a process?
    pc, page,    \* where paramsSave is, and the page it writes
    res          \* what the last paramsSave returned, "OK" after a start

vars == <<app, nvm, memory, pools, active_rom, running, pc, page, res>>

NumInts == Len(app.desc)
NumStrs == Len(app.strs)

Size(a) == IntSize * Len(a.desc) + StrSize * Len(a.strs)

\* region_pages of updateRegionPages.
PagesOf(a) == IF Size(a) = 0 THEN 1 ELSE (Size(a) + PageSize - 1) \div PageSize
RegionPages == PagesOf(app)

AllPages == UNION {0 .. PagesOf(a) - 1 : a \in Apps}

Strings == {"", "torn", NamedStr} \cup UNION {a.set_strs \cup {a.strs[j] : j \in DOMAIN a.strs} : a \in Apps}

\* What a page file or a region holds.
Content == [ints : Seq(Int), strs : Seq(Strings)]

\* paramsInit refuses more than 512 integers, which fill one page, and all
\* sizes are multiples of an integer.  A default has no quotation mark and no
\* line break, the generator puts it between two marks.  set_strs: the values
\* the program passes to paramsSetStringValue.  dir: what it passes to
\* paramsSetDir.  named: do its last integer and its last string have names?
\* defaults: are there default_params files?  faulty: may opening or writing
\* a page file fail?
ASSUME SitlAssumption ==
    /\ {IntSize, StrSize, PageSize} \subseteq Nat \ {0}
    /\ StrSize >= IntSize /\ PageSize >= StrSize
    /\ StrSize % IntSize = 0 /\ PageSize % IntSize = 0
    /\ SetInts \subseteq Int
    /\ QuotedStr \notin {"", "torn", NumberedStr, NamedStr} /\ NumberedStr # NamedStr
    /\ {NumberedStr, NamedStr} \cap {"", "torn"} = {} /\ LineInt \in Int
    /\ NoFile \notin Content
    /\ \A a \in Apps : /\ a.desc \in Seq([min : Int, max : Int, def : Int])
                       /\ a.strs \in Seq(Strings \ {QuotedStr, NumberedStr, NamedStr})
                       /\ IntSize * Len(a.desc) <= PageSize
                       /\ Len(a.desc) + Len(a.strs) > 0
                       /\ a.dir \in {"NULL", "empty", "too_long", "dir"}
                       /\ {a.named, a.redundant, a.defaults, a.faulty} \subseteq BOOLEAN
                       /\ \A i \in DOMAIN a.desc : a.desc[i].def \in a.desc[i].min .. a.desc[i].max
    /\ Updates \subseteq Apps \X Apps

Roms == {"primary", "redundant"}
Other(r) == IF r = "primary" THEN "redundant" ELSE "primary"

\* Every parameter has its value.
IsContent(c) == c \in Content /\ Len(c.ints) = NumInts /\ Len(c.strs) = NumStrs

TypeOK ==
    /\ app \in Apps
    /\ nvm \in [AllPages -> Content \cup {NoFile}]
    /\ memory \in [Roms -> Content] /\ \A r \in Roms : IsContent(memory[r])
    /\ IsContent(pools)
    /\ active_rom \in Roms
    /\ running \in BOOLEAN
    /\ pc \in {"idle", "ints", "int_files", "strs", "str_files", "end"}
    /\ page \in 0 .. RegionPages - 1
    /\ res \in {"OK", "UNKNOWN_ERROR"}

Blank == [ints |-> [i \in 1 .. NumInts |-> 0], strs |-> [j \in 1 .. NumStrs |-> ""]]
Defaults == [ints |-> [i \in 1 .. NumInts |-> app.desc[i].def],
             strs |-> app.strs]

----------------------------------------------------------------------------
(* Pages                                                                   *)

Smaller(a, b) == IF a < b THEN a ELSE b

\* Mutant: one integer fewer fits a page.
IntsOnPageButOne(i) == Smaller(NumInts - i, PageSize \div IntSize - 1)

\* __write_page after i integers and s strings: how many more it prints.
IntsOnPage(i) == Smaller(NumInts - i, PageSize \div IntSize)

StrsOnPage(i, s) == Smaller(NumStrs - s, (PageSize - IntSize * IntsOnPage(i)) \div StrSize)

\* The integers and strings printed before page p.
Written ==
    LET w[p \in 0 .. RegionPages] ==
            IF p = 0 THEN <<0, 0>>
            ELSE LET i == w[p - 1][1]
                     s == w[p - 1][2]
                 IN <<i + IntsOnPage(i), s + StrsOnPage(i, s)>>
    IN w

Slice(c, from, to) == [ints |-> SubSeq(c.ints, from[1] + 1, to[1]),
                       strs |-> SubSeq(c.strs, from[2] + 1, to[2])]

\* The reader takes a string up to the second quotation mark or the end of its
\* line, and skips a line without a colon.  A string of several lines with a
\* colon stays as it is in the file (see TakeStrs).
AsRead(s) == IF s = QuotedStr THEN "torn" ELSE s

PageOf(c, p) == Slice([c EXCEPT !.strs = [j \in DOMAIN @ |-> AsRead(@[j])]],
                      Written[p], Written[p + 1])

\* The last check of write_to_dir.
Complete == Written[RegionPages] = <<NumInts, NumStrs>>

\* Mutant: a page is never filled to its last byte.
FittingStrictly(used, size, left) ==
    CHOOSE k \in 0 .. left :
        /\ k = 0 \/ used + size * k < PageSize
        /\ k = left \/ used + size * (k + 1) >= PageSize

\* A while loop of render_default_params: it takes an item as long as one is
\* left and it fits after the used bytes.
Fitting(used, size, left) ==
    CHOOSE k \in 0 .. left :
        /\ k = 0 \/ used + size * k <= PageSize
        /\ k = left \/ used + size * (k + 1) > PageSize

\* The items render_default_params has put on the pages before p.
Generated ==
    LET g[p \in 0 .. RegionPages] ==
            IF p = 0 THEN <<0, 0>>
            ELSE LET i == g[p - 1][1]
                     s == g[p - 1][2]
                     k == Fitting(0, IntSize, NumInts - i)
                 IN <<i + k, s + (IF i + k = NumInts
                                  THEN Fitting(IntSize * k, StrSize, NumStrs - s) ELSE 0)>>
    IN g

DefaultPage(p) == Slice(Defaults, Generated[p], Generated[p + 1])

----------------------------------------------------------------------------
(* Reading                                                                 *)

\* The file read_from_dir opens for page p.
PageFile(files, p) ==
    IF files[p] # NoFile THEN files[p] ELSE IF app.defaults THEN DefaultPage(p) ELSE NoFile

\* read_from_dir stops at the first page it cannot open.
PagesRead(files) ==
    LET opened == {n \in 0 .. RegionPages : \A p \in 0 .. n - 1 : PageFile(files, p) # NoFile}
        n == CHOOSE k \in opened : \A l \in opened : l <= k
    IN [k \in 1 .. n |-> PageFile(files, k - 1)]

\* Mutant: the cells that were not reached are dropped.
TakeRead(old, new) == new

\* The items read replace the first cells, whatever names they have; the
\* reader stops at an item too many and keeps the cells it did not reach.
Overwrite(old, new) == [k \in DOMAIN old |-> IF k <= Len(new) THEN new[k] ELSE old[k]]

\* The reader only minds an integer too many on the line after it.  It has
\* put it behind the last one, which is into the first string if the region
\* is full.
SpilledStrs(strs, v) ==
    IF NumStrs > 0 /\ Size(app) = RegionPages * PageSize
    THEN [strs EXCEPT ![1] = IF v \in {-1, 0} THEN "" ELSE "torn"] ELSE strs

\* Mutant: the reader stops before the integers are stored.
KeepsInts(old, new) == IF Len(new) = NumInts THEN new ELSE old

\* What the reader stores of the integers of all pages.
ReadInts(old, new) == Overwrite(old, new)

\* The strings and the integers that the reader makes of a string: a second
\* line with a number is an integer, with anything else a string, which is
\* empty as it starts behind the quotation mark that ended the first one.
StrLines(s) == IF s = NamedStr THEN <<"torn", "">> ELSE IF s = NumberedStr THEN <<"torn">> ELSE <<s>>
IntLines(s) == IF s = NumberedStr THEN <<LineInt>> ELSE <<>>

\* The reader takes nothing after an integer or a string too many.
Stopped(taken) == Len(taken.ints) > NumInts \/ Len(taken.strs) >= NumStrs

\* What the reader has taken after a string.
TakeStr(s) ==
    [past \in Content |->
        IF Stopped(past) THEN past
        ELSE [ints |-> past.ints \o IntLines(s), strs |-> past.strs \o StrLines(s)]]

\* What the reader takes of these integers and the strings after them.  All
\* integers are on page 0, which prints them before its strings.
TakeStrs(ints, strs) ==
    LET taken[n \in 0 .. Len(strs)] ==
            IF n = 0 THEN [ints |-> ints, strs |-> <<>>] ELSE TakeStr(strs[n])[taken[n - 1]]
    IN taken[Len(strs)]

\* paramsSetDir refuses the other arguments, and paramsGetDir is empty then.
DirIsSet == app.dir = "dir"

\* validate_layout refuses parameters whose last one has no name, and flashInit
\* and flashWrite go on without the files then.
FilesUsed == app.named /\ DirIsSet

ReadFiles(files, old) ==
    LET pages == PagesRead(files)
        taken == TakeStrs(FlattenSeq([k \in DOMAIN pages |-> pages[k].ints]),
                          FlattenSeq([k \in DOMAIN pages |-> pages[k].strs]))
        strs == Overwrite(old.strs, taken.strs)
    IN IF ~FilesUsed THEN old
       ELSE [ints |-> ReadInts(old.ints, taken.ints),
             strs |-> IF Len(taken.ints) > NumInts
                      THEN SpilledStrs(strs, taken.ints[NumInts + 1]) ELSE strs]

InRange(i, v) == app.desc[i].min <= v /\ v <= app.desc[i].max
LoadedInt(i, v) == IF InRange(i, v) THEN v ELSE app.desc[i].def

\* paramsLoad
Loaded(c) == [ints |-> [i \in DOMAIN c.ints |-> LoadedInt(i, c.ints[i])],
              strs |-> [j \in DOMAIN c.strs |-> IF c.strs[j] = "" THEN app.strs[j] ELSE c.strs[j]]]

\* paramsLoadRom
LooksErased(c) == \E i \in DOMAIN c.ints : ~InRange(i, c.ints[i])

\* Mutant: the files are read into the first region.
FirstRegion == "redundant"

\* flashInit fills the region at region_pages, the primary one.
FilledRegion == "primary"

----------------------------------------------------------------------------
Init ==
    /\ app \in Apps
    /\ nvm = [p \in AllPages |-> NoFile]
    /\ memory = [r \in Roms |-> Blank]
    /\ pools = Blank
    /\ active_rom = "primary"
    /\ running = FALSE
    /\ pc = "idle"
    /\ page = 0
    /\ res = "OK"

Idle == running /\ pc = "idle"

\* A process starts, or starts over: paramsSetDir, paramsInit and
\* paramsInitRedundantPage (both reach flashInit), then paramsLoad.  They
\* write no file, so that a kill among them is the same as one before them.
Boot ==
    LET filled == [memory EXCEPT ![FilledRegion] = ReadFiles(nvm, @)]
        redundant == /\ app.redundant
                     /\ LooksErased(filled["primary"])
                     /\ ~LooksErased(filled["redundant"])
    IN /\ ~running \/ Idle
       /\ running' = TRUE
       /\ memory' = filled
       /\ active_rom' = IF redundant THEN "redundant" ELSE "primary"
       /\ pools' = Loaded(memory'[active_rom'])
       /\ UNCHANGED <<app, nvm, pc, page, res>>

\* paramsLoad again, while the process runs.
Reload ==
    /\ Idle
    /\ pools' = Loaded(memory[active_rom])
    /\ UNCHANGED <<app, nvm, memory, active_rom, running, pc, page, res>>

\* The setters and paramsResetToDefault.
Edit ==
    /\ Idle
    /\ \/ \E i \in 1 .. NumInts, v \in SetInts :
             InRange(i, v) /\ pools' = [pools EXCEPT !.ints[i] = v]
       \/ \E j \in 1 .. NumStrs, v \in app.set_strs : pools' = [pools EXCEPT !.strs[j] = v]
       \/ pools' = Defaults
    /\ UNCHANGED <<app, nvm, memory, active_rom, running, pc, page, res>>

----------------------------------------------------------------------------
(* paramsSave                                                              *)

Target == IF app.redundant THEN Other(active_rom) ELSE active_rom

\* flashErase zeroes the region in memory; no file changes.
ParamsSave ==
    /\ Idle
    /\ memory' = [memory EXCEPT ![Target] = Blank]
    /\ pc' = "ints"
    /\ res' = "OK"
    /\ UNCHANGED <<app, nvm, pools, active_rom, running, page>>

\* flashWrite: after the copy, __save_to_files needs the directory.
SaveToFiles(label) ==
    IF DirIsSet THEN pc' = label /\ UNCHANGED res
                ELSE pc' = "end" /\ res' = "UNKNOWN_ERROR"

\* romWrite of the integer pool, if there is one.
WriteInts ==
    /\ pc = "ints"
    /\ memory' = [memory EXCEPT ![Target].ints = pools.ints]
    /\ IF NumInts = 0 \/ ~app.named THEN pc' = "strs" /\ UNCHANGED res
                                    ELSE SaveToFiles("int_files")
    /\ UNCHANGED <<app, nvm, pools, active_rom, running, page>>

\* Mutant: the files are not written again for the string pool.
SkipStrFiles == "end"

\* Where a flashWrite of the strings goes on.
StrFiles == "str_files"

WriteStrs ==
    /\ pc = "strs"
    /\ memory' = [memory EXCEPT ![Target].strs = pools.strs]
    /\ IF NumStrs = 0 \/ ~app.named THEN pc' = "end" /\ UNCHANGED res
                                    ELSE SaveToFiles(StrFiles)
    /\ UNCHANGED <<app, nvm, pools, active_rom, running, page>>

\* Mutant: write_to_dir does not advance its page.
SamePage == page

NextPage == page + 1

\* What a number leaves of its line when it is cut: nothing, or first digits.
FirstDigits(v) == IF v < 0 THEN v .. 0 ELSE 0 .. v

\* What a string leaves of its line or its lines.
CutStrs(s) == {"", "torn"} \cup (IF s \in {NumberedStr, NamedStr} THEN {NamedStr} ELSE {})

\* What may be left of a page: the file is emptied when it is opened and
\* filled line by line, the last line may be cut.  A number cut before its
\* first digit reads as a string, and so does a second line of a string.
Cuts(c) ==
    LET BeforeInt == 0 .. Len(c.ints) - 1
        BeforeStr == 0 .. Len(c.strs) - 1
    IN (UNION {{[ints |-> SubSeq(c.ints, 1, k), strs |-> s] :
                   s \in {<<>>, <<"">>, <<"torn">>}} : k \in BeforeInt})
       \cup (UNION {{[ints |-> Append(SubSeq(c.ints, 1, k), z), strs |-> <<>>] :
                        z \in FirstDigits(c.ints[k + 1])} : k \in BeforeInt})
       \cup {[ints |-> c.ints, strs |-> SubSeq(c.strs, 1, k)] : k \in BeforeStr}
       \cup (UNION {{[ints |-> c.ints, strs |-> Append(SubSeq(c.strs, 1, k), t)] :
                        t \in CutStrs(c.strs[k + 1])} : k \in BeforeStr})

\* One page of write_to_dir.  The stream is not looked at: where a file may
\* not be opened the old one stays, where the disk is full the page is cut.
\* The next page, or the check that all parameters were printed.
WriteFile ==
    /\ pc \in {"int_files", "str_files"}
    /\ LET c == PageOf(memory[Target], page)
       IN \/ nvm' = [nvm EXCEPT ![page] = c]
          \/ /\ app.faulty
             /\ \E left \in Cuts(c) \cup {nvm[page]} : nvm' = [nvm EXCEPT ![page] = left]
    /\ \/ /\ page < RegionPages - 1
          /\ page' = NextPage
          /\ UNCHANGED <<pc, res>>
       \/ /\ page = RegionPages - 1
          /\ page' = 0
          /\ pc' = IF Complete /\ pc = "int_files" THEN "strs" ELSE "end"
          /\ res' = IF Complete THEN res ELSE "UNKNOWN_ERROR"
    /\ UNCHANGED <<app, memory, pools, active_rom, running>>

\* Mutant: the regions are not switched.
StaysActive == active_rom

\* The region that is active after a save that succeeded.
SavedRom == Target

\* After a save that succeeded the other region is erased, in memory only.
EndSave ==
    /\ pc = "end"
    /\ \/ /\ res = "OK" /\ app.redundant
          /\ active_rom' = SavedRom
          /\ memory' = [memory EXCEPT ![Other(SavedRom)] = Blank]
       \/ /\ res # "OK" \/ ~app.redundant
          /\ UNCHANGED <<active_rom, memory>>
    /\ pc' = "idle"
    /\ UNCHANGED <<app, nvm, pools, running, page, res>>

SaveStep == WriteInts \/ WriteStrs \/ WriteFile \/ EndSave

----------------------------------------------------------------------------
(* The process is killed, or the program is replaced.                      *)

Kill ==
    /\ running
    /\ \/ UNCHANGED nvm
       \/ /\ pc \in {"int_files", "str_files"}
          /\ \E c \in Cuts(PageOf(memory[Target], page)) : nvm' = [nvm EXCEPT ![page] = c]
    /\ running' = FALSE
    /\ memory' = [r \in Roms |-> Blank]
    /\ pools' = Blank
    /\ active_rom' = "primary"
    /\ pc' = "idle"
    /\ page' = 0
    /\ res' = "OK"
    /\ UNCHANGED app

Update ==
    /\ ~running
    /\ \E next \in Apps : <<app, next>> \in Updates /\ app' = next
    /\ memory' = [r \in Roms |-> Blank']
    /\ pools' = Blank'
    /\ UNCHANGED <<nvm, active_rom, running, pc, page, res>>

Next == Boot \/ Reload \/ Edit \/ ParamsSave \/ SaveStep \/ Kill \/ Update

\* The thread that called paramsSave keeps running until it returns or the
\* process is killed.
Spec == Init /\ [][Next]_vars /\ WF_vars(SaveStep)

----------------------------------------------------------------------------
(* Properties                                                              *)

\* What a process started from these files loads.
Recovered(files) == Loaded(ReadFiles(files, Blank))

\* Pools as they come back from a file, if every string is on one line.
Printed(c) == [c EXCEPT !.strs = [j \in DOMAIN @ |-> AsRead(@[j])]]

SaveReturns == pc = "end" /\ pc' = "idle" /\ running'

\* The reader takes one parameter from each line of the nvm files: no string in
\* them has a second line with a colon.
PlainFiles(files) ==
    \A p \in 0 .. RegionPages - 1 :
        files[p] # NoFile =>
            \A j \in DOMAIN files[p].strs : files[p].strs[j] \notin {NumberedStr, NamedStr}

\* paramsSave returns LIBPARAMS_OK, and its files could be written.
SaveAcknowledged == SaveReturns /\ res' = "OK" /\ ~app.faulty /\ app.named

\* When paramsSave returns LIBPARAMS_OK and the files could be written, the
\* next process loads all integers that were saved, whatever the strings are,
\* and all strings if each of them is on one line: the two rounds of files,
\* their page split and the reader agree, and a quotation mark in a string
\* spoils no other parameter.
AcknowledgedIsInFiles ==
    [][SaveAcknowledged =>
          /\ Recovered(nvm').ints = Loaded(pools').ints
          /\ PlainFiles(nvm') => Recovered(nvm') = Loaded(Printed(pools'))]_vars

\* After a save that succeeded, loading again and starting again give the
\* same parameters, although the files are read into the primary region only
\* and paramsSave switches the regions.
ReloadAgreesWithRestart ==
    Idle /\ res = "OK" /\ ~app.faulty /\ app.named /\ PlainFiles(nvm) =>
        Printed(Loaded(memory[active_rom])) = Recovered(nvm)

\* The versions that may follow a program, itself among them.
Versions(a) == {b \in Apps : \A S \in SUBSET Apps :
                   a \in S /\ (\A u \in Updates : u[1] \in S => u[2] \in S) => b \in S}

\* No version with a redundant region takes values from the range an integer
\* had in a version before, or zero is outside of one of its ranges.  Needed
\* by ReloadAgreesWithRestart and BootLoadsFiles.
RangesOnlyWiden ==
    \A a \in Apps : \A b \in Versions(a) :
        b.redundant /\ (\A i \in DOMAIN b.desc : b.desc[i].min <= 0 /\ 0 <= b.desc[i].max) =>
            \A i \in DOMAIN a.desc \cap DOMAIN b.desc :
                b.desc[i].min <= a.desc[i].min /\ a.desc[i].max <= b.desc[i].max

\* A start never prefers the blank redundant region to what the files hold,
\* even after a kill or a full disk that left numbers and pages cut; nor does
\* a process that starts over prefer the region of its last save to them.
BootLoadsFiles ==
    [][Boot /\ PlainFiles(nvm) /\ (~running \/ (res = "OK" /\ ~app.faulty /\ app.named)) =>
          Printed(pools') = Recovered(nvm)]_vars

\* Whatever is killed and whichever file cannot be written, an integer is the
\* old one, the new one, or what is left of the new one by a cut file; it
\* never takes the place of another, as long as every string is on one line.
IntegersStayInPlace ==
    [][PlainFiles(nvm) /\ PlainFiles(nvm') =>
          LET old == Recovered(nvm)
              new == Recovered(nvm')
          IN \A i \in 1 .. NumInts :
                new.ints[i] \in {old.ints[i]}
                    \cup {LoadedInt(i, v) : v \in FirstDigits(pools.ints[i])}]_vars

\* The nvm files hold every parameter of the program.
FilesComplete ==
    LET pages == [k \in 1 .. RegionPages |-> nvm[k - 1]]
    IN /\ \A k \in DOMAIN pages : pages[k] # NoFile
       /\ Len(FlattenSeq([k \in DOMAIN pages |-> pages[k].ints])) = NumInts
       /\ Len(FlattenSeq([k \in DOMAIN pages |-> pages[k].strs])) = NumStrs

\* Both versions read the same files, each parameter on a line.
UpdateOfFiles ==
    /\ Update /\ FilesUsed /\ FilesUsed'
    /\ FilesComplete /\ PlainFiles(nvm) /\ PlainFiles(nvm)'

\* A version that appends parameters reads the old ones from the files of the
\* version before, although it splits its pages elsewhere and some of its
\* pages come from the default files; one that drops the last integers still
\* reads the integers it kept.
UpdateKeepsParameters ==
    [][UpdateOfFiles =>
          LET old == Recovered(nvm)
              new == Recovered(nvm)'
          IN /\ \A i \in 1 .. Smaller(NumInts, NumInts') :
                    app'.desc[i] = app.desc[i] => new.ints[i] = old.ints[i]
             /\ NumInts' >= NumInts /\ NumStrs' >= NumStrs =>
                    \A j \in 1 .. NumStrs :
                        app'.strs[j] = app.strs[j] => new.strs[j] = old.strs[j]]_vars

\* The generated default files are "split the way the SITL driver writes its
\* nvm files" (generate_params.py): a missing nvm page and the default page
\* that replaces it hold the same parameters.
DefaultsSplitAsWritten == Generated = Written

\* paramsSave ends, or the process is killed.
SaveTerminates == pc # "idle" ~> pc = "idle"

\* "paramsInit() accepts up to 512 integers and 512 strings"
\* (flash_driver.cpp), as many pages as they need, and paramsSave writes
\* them: a save with the directory set succeeds.
SaveSucceeds == [][SaveReturns /\ DirIsSet => res' = "OK"]_vars
====
