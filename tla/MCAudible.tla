---------------------------- MODULE MCAudible ----------------------------
(* Bytes of two bits; formats of one to four ints in a frame; two orders of the arrays in memory. *)
EXTENDS Audible, Bitwise
MCXor(a, b) == a ^^ b
Word(c, len, num, dig) == [length |-> len, dash |-> TRUE, second |-> c, number |-> num, digits |-> dig]
Switch(c) == Word(c, 2, -1, -1)
Given(len, num, dig) == [length |-> len, dash |-> FALSE, second |-> "other", number |-> num, digits |-> dig]
MCCommandLines ==
  { <<>>, <<Switch("h")>>, <<Switch("u")>>, <<Switch("c")>>, <<Switch("d"), Switch("p")>>,
    <<Switch("u"), Switch("f"), Given(1, 2, 2)>>, <<Switch("u"), Switch("f"), Given(4, 1025, 37)>>,
    <<Switch("u"), Switch("p"), Switch("f"), Given(1, 3, 3)>>,
    <<Switch("d"), Switch("f"), Given(1, 2, 2)>>, <<Switch("d"), Switch("f"), Given(1, 3, 3), Switch("p")>>,
    <<Switch("c"), Switch("k"), Given(1, 5, 5)>>, <<Switch("c"), Switch("k"), Given(1, 5, 5), Switch("p")>>,
    <<Switch("c"), Switch("p"), Switch("k"), Given(1, 5, 5)>> }
Head1(channels, encoding, size, offset) ==
  [data_offset |-> offset, data_size |-> size, encoding |-> encoding, channels |-> channels]
MCHeaders ==
  { Head1(1, 2, 2, 32), Head1(1, 3, 6, 24), Head1(2, 2, 4, 32), Head1(2, 3, 8, 24), Head1(1, 4, 255, 32),
    Head1(1, 5, 4, 56), Head1(1, 1, 4, 24), Head1(1, 2, 2, 16) }
MCRandom(key, i) == [j \in 1..4 |-> (key + i * j + (i \div 2)) % Base]
MCLayouts == { [output |-> 0, hp |-> 4, input |-> 10, previous |-> 12],
               [previous |-> 0, input |-> 2, output |-> 4, hp |-> 6] }
=============================================================================
