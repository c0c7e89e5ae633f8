--------------------------- MODULE MCReaderMixed ---------------------------
(* Inputs for Reader whose windows follow the grammar of event frames but  *)
(* put a compressed frame before another frame of the same window.         *)
EXTENDS MCReader

MCMixedStreams ==
    {Header(2) \o C(300) \o J(101),
     Header(3) \o C(300) \o C(301),
     Header(2) \o J(100) \o C(300)}
=============================================================================
