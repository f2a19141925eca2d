------------------------ MODULE MCSessionRegistry ------------------------
EXTENDS SessionRegistry, TLC

CONSTANTS a, b, c1, c2

=============================================================================
