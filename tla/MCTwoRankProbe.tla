--------------------------- MODULE MCTwoRankProbe ---------------------------
EXTENDS TwoRankProbe

\* Every two-process probe of the repository.
AllNames == DOMAIN Parent
====
