------------------------- MODULE MCClassErrorBoundary -------------------------
EXTENDS ClassErrorBoundary

CONSTANTS r1, r2

MCRefs == {r1, r2}

=============================================================================
