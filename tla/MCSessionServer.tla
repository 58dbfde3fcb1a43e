--------------------------- MODULE MCSessionServer ---------------------------
(* SessionServer for TLC. Liveness is checked with safety, which is why the *)
(* connections are not declared symmetric.                                  *)
EXTENDS SessionServer
=============================================================================
