------------------------------ MODULE MCReceiving ------------------------------
(* Instances of Receiving for TLC. *)
EXTENDS Receiving, TLC, FiniteSets

\* No action tells receipts, serials or cases apart.
Symmetry == Permutations(Serial) \union Permutations(Receipt) \union Permutations(Unit)
            \union Permutations(RtvCase) \union Permutations(ScrapCase)

\* Bound: two cases at a time, scrap requests under way included.
TwoAtATime ==
    Cardinality({c \in RtvCase : rtv[c].at # "NONE"}) +
    Cardinality({c \in ScrapCase : OpenScrap(c)}) +
    Cardinality({h \in Call : call[h].unit # NoUnit}) <= 2

================================================================================
