------------------------------ MODULE Screencopy ------------------------------
(***************************************************************************)
(* The capture backend (dragonvnc-capture/src/screencopy.rs): the thread   *)
(* run_capture_thread() that owns the Wayland connection, the compositor   *)
(* it talks zwlr_screencopy_v1 with, the shm buffer both map, and the      *)
(* watch channel to ScreencopySource::next_frame().                        *)
(*                                                                         *)
(* A shape is all that `matches` compares: format, width, height, stride.  *)
(* Events are dispatched one at a time; as blocking_dispatch() handles     *)
(* whatever has arrived before the loop around it looks at `pending`, the  *)
(* thread may or may not go on while others are queued. The events of a    *)
(* destroyed frame are skipped by wayland-client. Timing (fps_cap) and     *)
(* statistics are left out.                                                *)
(***************************************************************************)
EXTENDS Naturals, Sequences

CONSTANTS
  Shapes,     \* shapes the output may have
  Supported,  \* those whose format map_shm_format() knows
  None,       \* no frame, no buffer; no wl_shm buffer offered
  Garbage     \* pixels that are not the frame their FrameInfo states

ASSUME ScreencopyAssumption ==
  /\ Supported \subseteq Shapes
  /\ None \notin Shapes /\ Garbage \notin Shapes /\ None # Garbage

VARIABLES
  comp,       \* the compositor: "up", "dead", or it raised a protocol "error"
  output,     \* the shape of its output
  frame,      \* its zwlr_screencopy_frame_v1: how far it is, what it announced
  events,     \* events of that frame not yet dispatched, oldest first
  mem,        \* what the shm buffer holds of that frame, and which way up
  pc,         \* where the capture thread stands
  pending,    \* PendingFrame
  buffer,     \* the shape of current_buffer, or None
  latest,     \* the unseen frame in the watch channel, or None
  consumer,   \* who awaits next_frame(): "waiting", "ended", or it "dropped" us
  seen        \* the frame it got last, or None

compVars == <<comp, output, frame, events, mem>>
threadVars == <<pc, pending, buffer>>
watchVars == <<latest, consumer, seen>>
vars == <<compVars, threadVars, watchVars>>

Stages == {"none", "requested", "announced", "tocopy", "writing", "done"}

Kinds == {"buffer", "buffer_done", "upright", "inverted", "ready", "failed"}

FrameEvent == [kind : Kinds, shape : Shapes \cup {None}]

Event(kind) == [kind |-> kind, shape |-> None]

BufferEvent(shape) == [kind |-> "buffer", shape |-> shape]

FlagsEvent(inverted) == Event(IF inverted THEN "inverted" ELSE "upright")

PendingFrame == [shape : Shapes \cup {None}, buffer_done : BOOLEAN, y_invert : BOOLEAN,
                 ready : BOOLEAN, failed : BOOLEAN]

TypeOK ==
  /\ comp \in {"up", "dead", "error"}
  /\ output \in Shapes
  /\ frame \in [stage : Stages, shape : Shapes \cup {None}]
  /\ events \in Seq(FrameEvent)
  /\ mem \in [holds : {"stale", "torn", "whole"}, inverted : BOOLEAN]
  /\ pc \in {"binding", "idle", "asked", "copying", "ended"}
  /\ pending \in PendingFrame
  /\ buffer \in Shapes \cup {None}
  /\ latest \in Shapes \cup {None, Garbage}
  /\ consumer \in {"waiting", "ended", "dropped"}
  /\ seen \in Shapes \cup {None, Garbage}

NoFrame == [stage |-> "none", shape |-> None]

Default == [shape |-> None, buffer_done |-> FALSE, y_invert |-> FALSE,
            ready |-> FALSE, failed |-> FALSE]

Init ==
  /\ comp = "up" /\ output \in Shapes /\ frame = NoFrame /\ events = <<>>
  /\ mem = [holds |-> "stale", inverted |-> FALSE]
  /\ pc = "binding" /\ pending = Default /\ buffer = None
  /\ latest = None /\ consumer = "waiting" /\ seen = None

-----------------------------------------------------------------------------
(* The compositor.                                                         *)

Advances(from, to) ==
  /\ comp = "up" /\ pc # "ended"
  /\ frame.stage = from
  /\ frame' = [frame EXCEPT !.stage = to]
  /\ UNCHANGED <<comp, output, threadVars, watchVars>>

\* A resize, from whoever may ask for one.
OutputChanges ==
  /\ comp = "up"
  /\ output' \in Shapes \ {output}
  /\ UNCHANGED <<comp, frame, events, mem, threadVars, watchVars>>

\* capture_output: which wl_shm buffer the frame wants, if any kind will do.
Announce(offer) ==
  /\ comp = "up" /\ pc # "ended"
  /\ frame.stage = "requested"
  /\ frame' = [stage |-> "announced", shape |-> offer]
  /\ events' = IF offer = None THEN <<Event("buffer_done")>>
               ELSE <<BufferEvent(offer), Event("buffer_done")>>
  /\ UNCHANGED <<comp, output, mem, threadVars, watchVars>>

\* The output changed, was disabled, or cannot be read.
Fail(from) ==
  /\ Advances(from, "done")
  /\ events' = Append(events, Event("failed"))
  /\ UNCHANGED mem

Fails == \E from \in {"requested", "announced", "tocopy", "writing"} : Fail(from)

\* The buffer must have the announced shape: another one is a protocol error,
\* which ends the client's connection.
BeginCopy ==
  /\ comp = "up" /\ pc # "ended"
  /\ frame.stage = "tocopy"
  /\ comp' = IF buffer = frame.shape THEN "up" ELSE "error"
  /\ frame' = [frame EXCEPT !.stage = "writing"]
  /\ mem' = [mem EXCEPT !.holds = "torn"]
  /\ UNCHANGED <<output, events, threadVars, watchVars>>

FinishCopy(inverted) ==
  /\ Advances("writing", "done")
  /\ mem' = [holds |-> "whole", inverted |-> inverted]
  /\ events' = <<FlagsEvent(inverted), Event("ready")>>

CompositorDies ==
  /\ comp = "up"
  /\ comp' = "dead"
  /\ UNCHANGED <<output, frame, events, mem, threadVars, watchVars>>

-----------------------------------------------------------------------------
(* The capture thread.                                                     *)

\* The registry round trip finds wl_shm, an output and the manager.
Bind ==
  /\ pc = "binding"
  /\ comp = "up"
  /\ pc' = "idle"
  /\ UNCHANGED <<compVars, pending, buffer, watchVars>>

\* The thread returns; with it go the sender and the connection.
ThreadEnds ==
  /\ pc' = "ended"
  /\ frame' = NoFrame
  /\ events' = <<>>
  /\ UNCHANGED <<comp, output, mem, pending, buffer, watchVars>>

BindFails == pc = "binding" /\ ThreadEnds

CaptureOutputUnreset ==      \* Mutant: pending keeps what the last frame left
  /\ pc = "idle"
  /\ pc' = "asked"
  /\ frame' = [stage |-> "requested", shape |-> None]
  /\ UNCHANGED <<comp, output, events, mem, pending, buffer, watchVars>>

CaptureOutput ==
  /\ pc = "idle"
  /\ pc' = "asked"
  /\ pending' = Default
  /\ frame' = [stage |-> "requested", shape |-> None]
  /\ UNCHANGED <<comp, output, events, mem, buffer, watchVars>>

\* Dispatch<ZwlrScreencopyFrameV1>: what event e makes of pending.
Handled(e) ==
  CASE e.kind = "buffer"      -> [pending EXCEPT !.shape = e.shape]
    [] e.kind = "buffer_done" -> [pending EXCEPT !.buffer_done = TRUE]
    [] e.kind = "upright"     -> [pending EXCEPT !.y_invert = FALSE]
    [] e.kind = "inverted"    -> [pending EXCEPT !.y_invert = TRUE]
    [] e.kind = "ready"       -> [pending EXCEPT !.ready = TRUE]
    [] e.kind = "failed"      -> [pending EXCEPT !.failed = TRUE]

Dispatch ==
  /\ pc \in {"asked", "copying"}
  /\ events # <<>>
  /\ pending' = Handled(Head(events))
  /\ events' = Tail(events)
  /\ UNCHANGED <<comp, output, frame, mem, pc, buffer, watchVars>>

DispatchErrorIgnored ==      \* Mutant: the loop goes round without the `?`
  /\ pc \in {"asked", "copying"}
  /\ comp # "up"
  /\ UNCHANGED vars

\* blocking_dispatch() cannot write to or read from the connection.
DispatchFails ==
  /\ pc \in {"asked", "copying"}
  /\ comp # "up"
  /\ ThreadEnds

\* frame_obj.destroy() and on to the next request.
NextRequest ==
  /\ pc' = "idle"
  /\ frame' = NoFrame
  /\ events' = <<>>
  /\ UNCHANGED <<comp, output, mem, pending, buffer>>

AnyBuffer == buffer # None   \* Mutant: the buffer there is will do

Matches == buffer = pending.shape

\* Before a copy: failed, no wl_shm buffer, a format nobody maps, or the
\* allocation of a buffer that would match failed.
DropUncopied ==
  /\ pc = "asked"
  /\ \/ pending.failed
     \/ pending.buffer_done /\ pending.shape \notin Supported
     \/ pending.buffer_done /\ ~Matches
  /\ NextRequest
  /\ UNCHANGED watchVars

CopyUnlessResized ==         \* Mutant: a buffer is never allocated anew
  /\ pc = "asked"
  /\ pending.buffer_done /\ ~pending.failed
  /\ pending.shape \in Supported
  /\ Matches \/ buffer = None
  /\ buffer' = pending.shape
  /\ mem' = [mem EXCEPT !.holds = "stale"]
  /\ frame' = [frame EXCEPT !.stage = IF @ = "announced" THEN "tocopy" ELSE @]
  /\ pc' = "copying"
  /\ UNCHANGED <<comp, output, events, pending, watchVars>>

\* Into the buffer there is if it matches, else into a new one. A frame that
\* failed in the meantime takes no notice.
Copy ==
  /\ pc = "asked"
  /\ pending.buffer_done /\ ~pending.failed
  /\ pending.shape \in Supported
  /\ buffer' = IF Matches THEN buffer ELSE pending.shape
  /\ mem' = [mem EXCEPT !.holds = "stale"]
  /\ frame' = [frame EXCEPT !.stage = IF @ = "announced" THEN "tocopy" ELSE @]
  /\ pc' = "copying"
  /\ UNCHANGED <<comp, output, events, pending, watchVars>>

DropFailed ==
  /\ pc = "copying"
  /\ pending.failed
  /\ NextRequest
  /\ UNCHANGED watchVars

PictureOfOutput ==           \* Mutant: FrameInfo states the output's size
  IF mem.holds = "whole" THEN output ELSE Garbage

\* What the pixels are when read as FrameInfo says: rows are turned over
\* (invert_rows) where y_invert was reported.
Picture ==
  IF mem.holds = "whole" /\ buffer = pending.shape /\ mem.inverted = pending.y_invert
  THEN pending.shape ELSE Garbage

PublishUnready ==            \* Mutant: the copy is not waited for
  /\ pc = "copying"
  /\ ~pending.failed
  /\ NextRequest
  /\ latest' = IF consumer = "dropped" THEN latest ELSE Picture
  /\ UNCHANGED <<consumer, seen>>

\* tx.send() replaces an unseen frame; without a receiver it does nothing,
\* and the thread goes on.
Publish ==
  /\ pc = "copying"
  /\ pending.ready /\ ~pending.failed
  /\ NextRequest
  /\ latest' = IF consumer = "dropped" THEN latest ELSE Picture
  /\ UNCHANGED <<consumer, seen>>

-----------------------------------------------------------------------------
(* The consumer.                                                           *)

NextFrame ==
  /\ consumer = "waiting"
  /\ latest # None
  /\ seen' = latest
  /\ latest' = None
  /\ UNCHANGED <<compVars, threadVars, consumer>>

\* changed() reports an unseen frame before it reports a closed channel.
SourceEnds ==
  /\ consumer = "waiting"
  /\ latest = None /\ pc = "ended"
  /\ consumer' = "ended"
  /\ UNCHANGED <<compVars, threadVars, latest, seen>>

DropSource ==
  /\ consumer = "waiting"
  /\ consumer' = "dropped"
  /\ latest' = None
  /\ UNCHANGED <<compVars, threadVars, seen>>

-----------------------------------------------------------------------------
Next ==
  \/ OutputChanges
  \/ \E offer \in {output, None} : Announce(offer)
  \/ Fails
  \/ BeginCopy
  \/ \E inverted \in BOOLEAN : FinishCopy(inverted)
  \/ CompositorDies
  \/ Bind \/ BindFails \/ CaptureOutput \/ Dispatch \/ DispatchFails
  \/ DropUncopied \/ Copy \/ DropFailed \/ Publish
  \/ NextFrame \/ SourceEnds \/ DropSource

Spec == Init /\ [][Next]_vars

\* The thread and its consumer run, and a live compositor answers, one way or
\* the other. Asked again and again, it offers an shm buffer in the end, and
\* memory for one is to be had in the end.
Fairness ==
  /\ WF_vars(Bind \/ BindFails) /\ WF_vars(CaptureOutput)
  /\ WF_vars(Dispatch) /\ WF_vars(DispatchFails)
  /\ WF_vars(DropUncopied \/ Copy) /\ WF_vars(DropFailed) /\ WF_vars(Publish)
  /\ WF_vars(NextFrame) /\ WF_vars(SourceEnds)
  /\ SF_vars(Announce(output)) /\ SF_vars(Copy) /\ WF_vars(BeginCopy)
  /\ WF_vars(\E inverted \in BOOLEAN : FinishCopy(inverted))

FairSpec == Spec /\ Fairness

-----------------------------------------------------------------------------
(* Safety.                                                                 *)

\* The compositor is never handed a buffer of another shape than it asked
\* for, however often the output changes between request, announcement and
\* copy: that would be a protocol error, and the end of the capture.
BufferFits ==
  /\ comp # "error"
  /\ frame.stage \in {"tocopy", "writing"} => buffer = frame.shape

\* Nobody gets a frame that is torn, left over from an earlier copy, upside
\* down, or of another shape than its FrameInfo states.
FrameWhole == Garbage \notin {latest, seen}

\* How much of the frame's announcement the thread has heard.
Untold == pending.shape = None /\ ~pending.buffer_done
Shaped == pending.shape = frame.shape /\ ~pending.buffer_done
Told   == pending.shape = frame.shape /\ pending.buffer_done

\* What is still to be dispatched of a frame that is over: the rest of the
\* announcement and the failure, or the rest of the success.
LeftOfFailure ==
  \/ ~pending.failed /\ Untold /\ events = <<BufferEvent(frame.shape), Event("buffer_done"), Event("failed")>>
  \/ ~pending.failed /\ Shaped /\ events = <<Event("buffer_done"), Event("failed")>>
  \/ ~pending.failed /\ (Told \/ Untold) /\ events = <<Event("failed")>>
  \/ pending.failed /\ events = <<>>

LeftOfSuccess ==
  /\ ~pending.failed /\ Told /\ mem.holds = "whole"
  /\ \/ ~pending.ready /\ events = <<FlagsEvent(mem.inverted), Event("ready")>>
     \/ pending.y_invert = mem.inverted /\ (IF pending.ready THEN events = <<>> ELSE events = <<Event("ready")>>)

\* What is still to be dispatched is known from how far the frame is and how
\* much of it the thread has heard.
Heard ==
  /\ frame.stage = "none" => frame.shape = None /\ events = <<>>
  /\ frame.stage = "requested" => frame.shape = None /\ pending = Default /\ events = <<>>
  /\ frame.stage \in {"announced", "tocopy", "writing"} => ~pending.failed /\ ~pending.ready
  /\ frame.stage = "announced" =>
       \/ Untold /\ frame.shape # None /\ events = <<BufferEvent(frame.shape), Event("buffer_done")>>
       \/ Shaped /\ events = <<Event("buffer_done")>>
       \/ Told /\ events = <<>>
  /\ frame.stage \in {"tocopy", "writing"} => Told /\ events = <<>>
  /\ frame.stage = "done" => (LeftOfFailure /\ ~pending.ready) \/ LeftOfSuccess

\* Where the thread stands and how far the frame is.
InStep ==
  /\ pc \in {"binding", "idle", "ended"} <=> frame.stage = "none"
  /\ pc = "asked" =>
       \/ frame.stage \in {"requested", "announced"}
       \/ frame.stage = "done" /\ LeftOfFailure /\ ~pending.ready
  /\ pc = "copying" =>
       /\ frame.stage \in {"tocopy", "writing", "done"}
       /\ frame.shape \in Supported
       /\ pending.buffer_done /\ pending.shape = frame.shape /\ buffer = frame.shape

IInv ==
  /\ TypeOK
  /\ BufferFits
  /\ FrameWhole
  /\ Heard
  /\ InStep

\* The thread blocks in dispatch until `pending` lets it go on, and nothing but
\* the frame's own events sets `pending`. With a live compositor it never has
\* handled them all and still waits: the compositor owes it the next one, or
\* what it was told is enough to copy, publish or give up the frame.
NeverStuck ==
  comp = "up" /\ pc \in {"asked", "copying"} /\ events = <<>> =>
    \/ frame.stage \in {"requested", "tocopy", "writing"}
    \/ pending.failed
    \/ IF pc = "asked" THEN pending.buffer_done ELSE pending.ready

-----------------------------------------------------------------------------
(* Liveness, under Fairness.                                               *)

Over == comp # "up" \/ pc = "ended" \/ consumer # "waiting"

\* Once the output keeps a shape the backend supports and the compositor fails
\* no more frames, the consumer gets one of that shape (its first, if it had
\* none), and none of another shape again.
NewestShapeSeen ==
  \A s \in Supported :
    <>[](output = s) /\ <>[][~Fails]_vars => <>[](seen = s \/ Over)

\* When the compositor is gone the thread ends, whatever it was waiting for
\* and whether or not anybody still listens, and a consumer learns of it.
EndReachesConsumer ==
  comp # "up" ~> (pc = "ended" /\ consumer # "waiting")

-----------------------------------------------------------------------------
(* The frame source the consumer sees.                                     *)

Source == INSTANCE FrameSource WITH
  mode   <- output,
  shot   <- frame.shape,
  over   <- pc = "ended"

\* The thread, the compositor and the buffer they share are a FrameSource.
ImplementsFrameSource == Source!Spec
=============================================================================
