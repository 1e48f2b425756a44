---- MODULE MCFlashDrivers ----
(***************************************************************************)
(* DriverSession for TLC: four pages in two banks, an integer of two       *)
(* half-words and double words of two integers, strings of two double      *)
(* words or a flash word and a third, and an FRAM of two pages erased in   *)
(* chunks that end inside integers and strings.                            *)
(***************************************************************************)
EXTENDS DriverSession

Device(driver, pages, bank, page_size, word) ==
    [driver |-> driver, pages |-> pages, bank |-> bank, page_size |-> page_size, word |-> word]

\* Pages that hold the largest pools exactly; the H753 has room between them.
TwoBanks == {Device("f103", 4, 4, 12, 1), Device("g0b1", 4, 2, 12, 4),
             Device("h753", 4, 2, 24, 6), Device("h753", 4, 4, 24, 6)}
Fram == {Device("fram", 2, 2, 12, 1)}

\* Up to the end of the first bank, across both, and at the end of the second.
Regions == {<<0, 2>>, <<1, 2>>, <<3, 1>>}

\* No string, no integer, both, and an integer pool that ends inside a word.
Amounts == {<<1, 0>>, <<0, 1>>, <<1, 1>>, <<2, 1>>}

Use(devices, regions) ==
    {[driver |-> d.driver, pages |-> d.pages, bank |-> d.bank, page_size |-> d.page_size,
      word |-> d.word, first |-> r[1], num |-> r[2], ints |-> a[1], strs |-> a[2]] :
        d \in devices, r \in regions, a \in Amounts}

AllApps == Use(TwoBanks, Regions) \cup Use(Fram, {<<0, 1>>, <<1, 1>>})
====
