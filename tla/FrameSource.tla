----------------------------- MODULE FrameSource -----------------------------
(***************************************************************************)
(* What the trait FrameSource (dragonvnc-capture/src/lib.rs) promises who  *)
(* awaits next_frame(): each frame is the output as it was when the frame  *)
(* was taken in hand, one frame is in hand at a time, a newer frame        *)
(* replaces one not yet seen, and a source that is over makes no more,     *)
(* though the last one may still be taken. A frame is its shape.           *)
(***************************************************************************)

CONSTANTS
  Shapes,     \* shapes the output may have
  None        \* no frame

VARIABLES
  mode,       \* the output's shape
  shot,       \* the frame in hand, or None
  latest,     \* the newest frame, unless somebody took it, or None
  over        \* the source is done

source == <<mode, shot, latest, over>>

Init ==
  /\ mode \in Shapes
  /\ shot = None
  /\ latest = None
  /\ over = FALSE

ResizeTo(shape) == mode' = shape /\ UNCHANGED <<shot, latest, over>>

Resize == \E shape \in Shapes : ResizeTo(shape)

Shoot ==
  /\ ~over
  /\ shot = None
  /\ shot' = mode
  /\ UNCHANGED <<mode, latest, over>>

Publish ==
  /\ ~over
  /\ shot # None
  /\ latest' = shot
  /\ shot' = None
  /\ UNCHANGED <<mode, over>>

Drop ==
  /\ shot' = None
  /\ UNCHANGED <<mode, latest, over>>

Take ==
  /\ latest' = None
  /\ UNCHANGED <<mode, shot, over>>

End ==
  /\ over' = TRUE
  /\ shot' = None
  /\ UNCHANGED <<mode, latest>>

Next == Resize \/ Shoot \/ Publish \/ Drop \/ Take \/ End

Spec == Init /\ [][Next]_source
=============================================================================
