----------------------------- MODULE MCHandler -----------------------------
(* Model-checking instance of Handler: three windows of one or two events, *)
(* a sink channel of one slot, keep-alive enabled with one keep-alive      *)
(* frame per waiting batch.                                                *)
EXTENDS Handler

MCMaxBatches == 3
MCEventCounts == {1, 2}
MCSinkCap == 1
MCMaxKeepalive == 1
=============================================================================
