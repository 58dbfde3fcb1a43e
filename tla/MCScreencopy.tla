----------------------------- MODULE MCScreencopy -----------------------------
(* Screencopy for TLC: two shapes the backend can use and one it cannot. *)
EXTENDS Screencopy

CONSTANTS small, large, dmabuf

AllShapes == {small, large, dmabuf}

ShmShapes == {small, large}
=============================================================================
