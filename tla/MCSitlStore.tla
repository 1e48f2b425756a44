---- MODULE MCSitlStore ----
(***************************************************************************)
(* Programs on a page of six bytes, with integers of two bytes and strings *)
(* of four: one page and two, filled and not, and new versions of them.    *)
(***************************************************************************)
EXTENDS SitlStore

Desc(min, max, def) == [min |-> min, max |-> max, def |-> def]

App(desc, strs, redundant, dir, defaults, faulty) ==
    [desc |-> desc, strs |-> strs, set_strs |-> {"other"}, named |-> TRUE,
     redundant |-> redundant, dir |-> dir, defaults |-> defaults, faulty |-> faulty]

\* Zero is in the range of Level and of Trim, and not in the range of Rate.
Level == Desc(0, 2, 2)
Trim == Desc(-1, 1, 0)
Rate == Desc(1, 2, 1)

\* A region full to its last byte, the same program with an integer more,
\* which moves its string to page 1, and with an integer and a string more.
OnePage == App(<<Trim>>, <<"first">>, FALSE, "dir", TRUE, FALSE)
IntegerMore == App(<<Trim, Rate>>, <<"first">>, FALSE, "dir", TRUE, FALSE)
StringMore == App(<<Trim>>, <<"first", "second">>, FALSE, "dir", TRUE, FALSE)

\* Three integers fill page 0, the string is on page 1.
FullOfInts == App(<<Rate, Rate, Trim>>, <<"first">>, TRUE, "dir", TRUE, FALSE)

TwoPages == App(<<Level>>, <<"first", "second">>, TRUE, "dir", TRUE, FALSE)
OnlyStrings == App(<<>>, <<"first", "second">>, TRUE, "dir", FALSE, FALSE)

\* No room for a third string: two pages are enough bytes, but none holds it.
OneTooMany == App(<<>>, <<"first", "second", "third">>, FALSE, "dir", FALSE, FALSE)

\* The strings that are set hold a quotation mark, or several lines.
Quoting == [StringMore EXCEPT !.set_strs = {"quoted"}]
SeveralLines == [StringMore EXCEPT !.set_strs = {"numbered", "named"}]

\* The last string has no name.
Nameless == [TwoPages EXCEPT !.named = FALSE]

\* Files that cannot be written, and no directory for them.
FaultyFiles == App(<<Rate, Trim>>, <<"first">>, FALSE, "dir", TRUE, TRUE)
NoDirectory == {App(<<Level>>, <<"first">>, TRUE, dir, TRUE, FALSE) :
                   dir \in {"NULL", "empty", "too_long"}}

SomeApps == {OnePage, IntegerMore, StringMore, FullOfInts, TwoPages, OnlyStrings, OneTooMany,
             Quoting, SeveralLines, Nameless, FaultyFiles} \cup NoDirectory

SomeUpdates == {<<OnePage, IntegerMore>>, <<IntegerMore, OnePage>>, <<OnePage, StringMore>>}

\* A version that takes the largest value from a range.
WideRange == App(<<Level, Trim>>, <<"first">>, TRUE, "dir", TRUE, FALSE)
NarrowRange == App(<<Desc(0, 1, 1), Trim>>, <<"first">>, TRUE, "dir", TRUE, FALSE)

RangeApps == {WideRange, NarrowRange}
RangeUpdates == {<<WideRange, NarrowRange>>}

SomeInts == {-1, 0, 2}

\* The versions of NarrowRange do not keep to it.
ASSUME Apps = SomeApps => RangesOnlyWiden
====
