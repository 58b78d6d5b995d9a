--------------------------- MODULE MCDirectDriver ---------------------------
EXTENDS DirectDriver

TwoRuns == 1..2
NoLeftoverOrOne == {0, 1}
==============================================================================
