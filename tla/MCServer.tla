------------------------------ MODULE MCServer ------------------------------
EXTENDS Server

CONSTANTS c1, c2

MCConns == {c1, c2}

=============================================================================
