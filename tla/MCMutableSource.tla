--------------------------- MODULE MCMutableSource ---------------------------
EXTENDS MutableSource

CONSTANTS a, b

MCSources == {a, b}

=============================================================================
