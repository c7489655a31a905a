------------------------------ MODULE MCBuddy ------------------------------
(* Three orders, blocks of one, two and four pages, over ranges that start   *)
(* at an odd page: the blocks of an order are not aligned to their size.     *)
EXTENDS Buddy

MCOrders == 3
MCBlockNpages == [k \in 0 .. MCOrders |-> 2 ^ k]
MCEnds == {PageBase + n : n \in {4, 5, 7, 13}}
=============================================================================
