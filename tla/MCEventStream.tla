--------------------------- MODULE MCEventStream ---------------------------
(* Small instance of EventStream for TLC.                                  *)
EXTENDS EventStream

MCSha256 == [m \in Message |-> <<"sha256", m>>]
=============================================================================
