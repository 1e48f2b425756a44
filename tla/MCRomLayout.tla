---- MODULE MCRomLayout ----
(***************************************************************************)
(* RomLayout and ParamLookup for TLC: a device of 4 pages of 8 bytes,      *)
(* integers of 1 byte and strings of 3, so that a page holds pools of      *)
(* several shapes; names that are prefixes of each other.                  *)
(***************************************************************************)
EXTENDS ParamLookup

\* No parameter, pools that fit a page, and pools (even one alone) that need more.
FewAmounts == {0, 4, 9} \X {0, 2, 5}

\* Every page range, the ones romInit refuses included.
AnyRange == (-5 .. 4) \X (0 .. 5)

\* The last two pages, and calls that fail for their page index or amount.
LastPages == {<<-2, 2>>, <<-2, 0>>, <<4, 2>>, <<-5, 2>>}

\* A region of two pages, then one of a single page.
TwoThenOne == {<<-2, 2>>, <<-1, 1>>}

Applications == {AnyRange, LastPages}
ShrinkingApplication == {TwoThenOne}

Letters == {"a", "b"}

NineNames == <<<<"a">>, <<"a", "a">>, <<"a", "b">>, <<"b", "a">>, <<"b">>, <<"b", "b">>,
               <<"a", "b", "a">>, <<"b", "b", "a">>, NULL>>
FiveNames == <<<<"a", "a", "b">>, <<"b">>, <<"b", "a", "b">>, <<>>, NULL>>

\* Buffers of three bytes, names that end at a NUL or at the length.
Buffers == [1 .. 3 -> Letters \cup {NUL}]
SomeQueries == {[bytes |-> b, len |-> n] : b \in Buffers, n \in 0 .. 3} \cup {NULL}
====
