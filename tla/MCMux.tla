------------------------------- MODULE MCMux -------------------------------
EXTENDS Mux

CONSTANTS c1, c2

MCConns == {c1, c2}

\* '1', '2' and a byte of neither version.
MCFirstBytes == {49, 50, 51}

\* Two batches in flight: a second handler's send can wait on a full sink.
MCSinkCap == 2

=============================================================================
