------------------------------ MODULE MCBurninHub ------------------------------
EXTENDS BurninHub

CONSTANTS a1, j1, j2

OneAgent == [j \in Jobs |-> a1]
=============================================================================
