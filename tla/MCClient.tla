------------------------------ MODULE MCClient ------------------------------
(* Client with a window that can be minimised and be moved to a display    *)
(* of another scale.                                                       *)
EXTENDS Client

MinimisedOrNot == {0, 8}
TwoScales == {1, 2}
=============================================================================
