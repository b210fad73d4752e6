---------------------------- MODULE MCErrorCodes ----------------------------
EXTENDS ErrorCodes

CONSTANTS m1, m2

MCMessages == {m1, m2}

=============================================================================
