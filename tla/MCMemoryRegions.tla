-------------------------- MODULE MCMemoryRegions --------------------------
(***************************************************************************)
(* A small hasher for TLC: blocks of four bytes in lanes of two, inputs of *)
(* every length from empty to more than two blocks, made of bytes that     *)
(* padding itself writes (0, 6, 128, 134) and of one that it never does;   *)
(* regions that are empty, of one block, at and past the size limit; lists *)
(* of them in which the first, the last, the middle, all and none are left *)
(* out, for being empty, too large or unreadable.                          *)
(***************************************************************************)
EXTENDS KernelExample

Pattern == <<1, 134, 6, 0, 128, 6, 1, 0, 134, 0, 6>>

MCData == {SubSeq(Pattern, 1, n) : n \in {0, 1, 3, 4, 5, 9}} \cup {<<6, 128>>}

MCMemory == [a \in 1..9 |-> Pattern[10 - a]]

MCRegions == {[base |-> b, size |-> n] : b \in {1, 2}, n \in {0, 4, 7, 8}}
                 \cup {[base |-> 9, size |-> 0], [base |-> 100, size |-> 8]}

Region(b, n, r) == [base |-> b, size |-> n, is_readable |-> r]

Short == Region(1, 4, TRUE)
Long  == Region(2, 7, TRUE)
Empty == Region(9, 0, TRUE)
Large == Region(100, 8, TRUE)
Other == Region(50, 4, FALSE)

(* Three lanes, each mixed with another.  The sets of one element are there *)
(* to have TLC evaluate the lanes once.                                     *)
Mixed(l) == [i \in 0..2 |-> SymDiff({(b + i + 1) % 16 : b \in l[(i + 1) % 3]}, {i})]

MCPermute(l) == CHOOSE mixed \in {Mixed(x) : x \in {l}} : TRUE

MCRegionLists == {<<Empty, Large>>, <<Other, Long>>, <<Short, Long, Empty, Long>>}
=============================================================================
