----------------------------- MODULE MCInjection -----------------------------
(* Injection for TLC: a modifier, a key that repeats, and a button. *)
EXTENDS Injection

CONSTANTS shift, a, left

TwoKeys == {shift, a}
=============================================================================
