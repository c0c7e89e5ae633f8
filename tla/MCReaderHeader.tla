--------------------------- MODULE MCReaderHeader ---------------------------
(* Inputs for Reader whose window header carries a wrong version byte      *)
(* ('1') or a wrong frame type ('J' where 'W' belongs), alone or after a   *)
(* window that announced one event fewer than it carried.                  *)
EXTENDS MCReader

BadHeaders == {<<v, t>> : v \in {49, CodeVersion}, t \in {CodeJSONDataFrame, CodeWindowSize}}
              \ {<<CodeVersion, CodeWindowSize>>}

MCHeaderStreams ==
    {h \o <<1>> \o J(100) : h \in BadHeaders}
    \cup {Header(1) \o J(100) \o J(101)}
=============================================================================
