--------------------------- MODULE MCImageBuilds ---------------------------
EXTENDS ImageBuilds, TLC

CONSTANTS w1, w2

=============================================================================
