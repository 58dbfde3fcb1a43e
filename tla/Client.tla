-------------------------------- MODULE Client --------------------------------
(***************************************************************************)
(* The client with a window: the winit event loop and App                  *)
(* (dragonvnc-client/src/render.rs), the network thread with its task,     *)
(* input task and Ctrl+C task (network.rs), and the three channels between *)
(* them that main.rs makes: viewport sizes (watch) and input events        *)
(* (unbounded) to the network, user events (EventLoopProxy) back.          *)
(*                                                                         *)
(* A window's size is one number, 0 when it is minimised. A decoded frame  *)
(* is its ordinal. What the server does with messages is VideoPipeline's.  *)
(***************************************************************************)
EXTENDS Naturals, Sequences

CONSTANTS
  Sizes,       \* sizes the window may have
  OpeningSize, \* the size it is created with
  Scales,      \* scale factors of the displays it may be on
  OpeningScale,\* that of the display it opens on
  MaxChanges,  \* bound on changes of size or scale
  MaxFrames,   \* bound on frames decoded
  MaxInputs    \* bound on input events queued

ASSUME ClientAssumption ==
  /\ Sizes \subseteq Nat /\ OpeningSize \in Sizes \ {0}
  /\ Scales \subseteq Nat \ {0} /\ OpeningScale \in Scales
  /\ {MaxChanges, MaxFrames, MaxInputs} \subseteq Nat

VARIABLES
  \* the window system
  view,        \* the window's size and scale factor
  wevents,     \* Resized and ScaleFactorChanged events not yet handled
  surface,     \* "ok", or "lost" until configured again (Lost, Outdated)
  interrupted, \* a SIGINT was sent
  link,        \* the QUIC connection: "none", "up" or "down"
  \* the event loop
  app,         \* "new", "open" with its window, "closing" past run_app, "exited"
  texture,     \* newest frame uploaded, 0 for none
  drawn,       \* frame presented last, 0 for black
  redraw,      \* a redraw is requested
  skipped,     \* the last redraw was given up
  title,       \* the title says "disconnected"
  \* the channels
  viewport,    \* value of the viewport channel
  version,     \* how often it was sent
  inputs,      \* input events queued
  uevents,     \* user events queued: frames, and Failure
  \* the network thread
  net,         \* where run_windowed() is, see NetState
  seen,        \* version of the viewport the receiver has seen
  told,        \* the viewport of Hello, then of the last RequestMode
  itask,       \* the input task: "none", "running" or "ended"
  frames,      \* frames decoded so far
  sig          \* who handles SIGINT: "default", "spawned", "task", "orphan"

screenVars == <<view, wevents>>
drawVars == <<texture, drawn, redraw, skipped>>
sizeVars == <<viewport, version>>
toldVars == <<seen, told>>
netVars == <<net, itask, frames>>
vars == <<screenVars, surface, interrupted, link, app, drawVars, title,
          inputs, sizeVars, uevents, toldVars, netVars, sig>>

Failure == 0                     \* RenderEvent::NetworkError; frames count from 1
Viewport == [size : Sizes, scale : Scales]
NoViewport == [size |-> 0, scale |-> 0]      \* the channel's initial None
WindowEvent == [kind : {"resized"}, to : Sizes] \cup [kind : {"scaled"}, to : Scales]

\* "starting" the runtime, "waiting" for the first viewport, "dialing" in
\* connect_and_handshake(), "connected", "accepting" the video stream,
\* "streaming", "ending" past its last event, "ended" with the runtime
\* dropped; "never" had no runtime.
NetState == {"starting", "waiting", "dialing", "connected", "accepting",
             "streaming", "ending", "ended", "never"}

TypeOK ==
  /\ view \in Viewport /\ wevents \in Seq(WindowEvent)
  /\ surface \in {"ok", "lost"}
  /\ interrupted \in BOOLEAN /\ link \in {"none", "up", "down"}
  /\ app \in {"new", "open", "closing", "exited"}
  /\ texture \in 0..MaxFrames /\ drawn \in 0..MaxFrames
  /\ redraw \in BOOLEAN /\ skipped \in BOOLEAN /\ title \in BOOLEAN
  /\ inputs \in 0..MaxInputs
  /\ viewport \in Viewport \cup {NoViewport} /\ version \in Nat
  /\ uevents \in Seq(0..MaxFrames)
  /\ net \in NetState
  /\ seen \in Nat /\ told \in Viewport \cup {NoViewport}
  /\ itask \in {"none", "running", "ended"} /\ frames \in 0..MaxFrames
  /\ sig \in {"default", "spawned", "task", "orphan"}

Init ==
  /\ view = [size |-> OpeningSize, scale |-> OpeningScale]
  /\ interrupted = FALSE /\ app = "new"
  /\ wevents = <<>>
  /\ surface = "ok" /\ link = "none"
  /\ texture = 0 /\ drawn = 0 /\ redraw = FALSE /\ skipped = FALSE /\ title = FALSE
  /\ inputs = 0
  /\ viewport = NoViewport /\ version = 0 /\ uevents = <<>>
  /\ net = "starting" /\ seen = 0 /\ told = NoViewport
  /\ itask = "none" /\ frames = 0
  /\ sig = "default"

\* The process ends, with every thread and its memory.
Exit ==
  /\ UNCHANGED view /\ app' = "exited"
  /\ wevents' = <<>>
  /\ surface' = "ok" /\ link' = "none"
  /\ texture' = 0 /\ drawn' = 0 /\ redraw' = FALSE /\ skipped' = FALSE /\ title' = FALSE
  /\ inputs' = 0
  /\ viewport' = NoViewport /\ version' = 0 /\ uevents' = <<>>
  /\ net' = "starting" /\ seen' = 0 /\ told' = NoViewport
  /\ itask' = "none" /\ frames' = 0
  /\ sig' = "default"

-----------------------------------------------------------------------------
(* The window system, the network and the person at the keyboard.          *)

Change(v, event) ==
  /\ app = "open"
  /\ version + Len(wevents) <= MaxChanges
  /\ v # view /\ view' = v
  /\ wevents' = Append(wevents, event)
  /\ UNCHANGED <<surface, interrupted, link, app, drawVars, title, inputs,
                 sizeVars, uevents, toldVars, netVars, sig>>

WindowResizes(s) == Change([view EXCEPT !.size = s], [kind |-> "resized", to |-> s])
DisplayChanges(c) == Change([view EXCEPT !.scale = c], [kind |-> "scaled", to |-> c])

\* Occlusion, a Spaces switch, a resize: the surface needs a configure().
SurfaceBreaks ==
  /\ app = "open" /\ surface = "ok"
  /\ surface' = "lost"
  /\ UNCHANGED <<screenVars, interrupted, link, app, drawVars, title, inputs,
                 sizeVars, uevents, toldVars, netVars, sig>>

Lose ==
  /\ link = "up" /\ link' = "down"
  /\ UNCHANGED <<screenVars, surface, interrupted, app, drawVars, title, inputs,
                 sizeVars, uevents, toldVars, netVars, sig>>

\* SIGINT. Until the Ctrl+C task has run it ends the process; from then on
\* the process ignores it, and it is the task's to act upon.
Interrupt ==
  /\ app \in {"new", "open"} /\ ~interrupted
  /\ interrupted' = TRUE
  /\ IF sig \in {"default", "spawned"}
       THEN Exit
       ELSE UNCHANGED <<screenVars, surface, link, app, drawVars, title, inputs,
                        sizeVars, uevents, toldVars, netVars, sig>>

-----------------------------------------------------------------------------
(* The event loop: App.                                                    *)

\* viewport_tx.send() replaces the value; nobody waits.
SendViewport(size, scale) ==
  /\ viewport' = [size |-> size, scale |-> scale]
  /\ version' = version + 1

Resumed ==
  /\ app = "new"
  /\ app' = "open"
  /\ SendViewport(view.size, view.scale)
  /\ UNCHANGED <<screenVars, surface, interrupted, link, drawVars, title, inputs,
                 uevents, toldVars, netVars, sig>>

ResizedUnlessMinimised ==    \* Mutant: a size of zero is not worth telling
  /\ app = "open"
  /\ wevents # <<>> /\ Head(wevents).kind = "resized"
  /\ wevents' = Tail(wevents)
  /\ surface' = "ok"
  /\ IF Head(wevents).to = 0 THEN UNCHANGED sizeVars ELSE SendViewport(Head(wevents).to, view.scale)
  /\ UNCHANGED <<view, interrupted, link, app, drawVars, title, inputs,
                 uevents, toldVars, netVars, sig>>

\* The event states the size; the scale factor is the window's by now.
Resized ==
  /\ app = "open"
  /\ wevents # <<>> /\ Head(wevents).kind = "resized"
  /\ wevents' = Tail(wevents)
  /\ surface' = "ok"
  /\ SendViewport(Head(wevents).to, view.scale)
  /\ UNCHANGED <<view, interrupted, link, app, drawVars, title, inputs,
                 uevents, toldVars, netVars, sig>>

\* And the other way round.
ScaleFactorChanged ==
  /\ app = "open"
  /\ wevents # <<>> /\ Head(wevents).kind = "scaled"
  /\ wevents' = Tail(wevents)
  /\ SendViewport(view.size, Head(wevents).to)
  /\ UNCHANGED <<view, surface, interrupted, link, app, drawVars, title,
                 inputs, uevents, toldVars, netVars, sig>>

UserFrameNewestFirst ==      \* Mutant: the newest frame overtakes those before it
  /\ app \in {"new", "open"}
  /\ uevents # <<>> /\ uevents[Len(uevents)] # Failure
  /\ uevents' = SubSeq(uevents, 1, Len(uevents) - 1)
  /\ IF app = "open"
       THEN texture' = uevents[Len(uevents)] /\ redraw' = TRUE /\ skipped' = FALSE
       ELSE UNCHANGED <<texture, redraw, skipped>>
  /\ UNCHANGED <<screenVars, surface, interrupted, link, app, drawn, title, inputs,
                 sizeVars, toldVars, netVars, sig>>

\* Without a window a user event leaves no trace in it.
UserFrame ==
  /\ app \in {"new", "open"}
  /\ uevents # <<>> /\ Head(uevents) # Failure
  /\ uevents' = Tail(uevents)
  /\ IF app = "open"
       THEN texture' = Head(uevents) /\ redraw' = TRUE /\ skipped' = FALSE
       ELSE UNCHANGED <<texture, redraw, skipped>>
  /\ UNCHANGED <<screenVars, surface, interrupted, link, app, drawn, title, inputs,
                 sizeVars, toldVars, netVars, sig>>

UserNetworkError ==
  /\ app \in {"new", "open"}
  /\ uevents # <<>> /\ Head(uevents) = Failure
  /\ uevents' = Tail(uevents)
  /\ IF app = "open"
       THEN title' = TRUE /\ redraw' = TRUE /\ skipped' = FALSE
       ELSE UNCHANGED <<title, redraw, skipped>>
  /\ UNCHANGED <<screenVars, surface, interrupted, link, app, texture, drawn, inputs,
                 sizeVars, toldVars, netVars, sig>>

RedrawRequested ==
  /\ app = "open" /\ redraw
  /\ UNCHANGED <<screenVars, interrupted, link, app, texture, title, inputs,
                 sizeVars, uevents, toldVars, netVars, sig>>

Present ==
  /\ RedrawRequested
  /\ surface = "ok"
  /\ drawn' = texture
  /\ redraw' = FALSE
  /\ UNCHANGED <<surface, skipped>>

DropLost ==                  \* Mutant: a lost surface loses the redraw, and stays lost
  /\ RedrawRequested
  /\ surface = "lost"
  /\ redraw' = FALSE
  /\ UNCHANGED <<surface, drawn, skipped>>

\* Lost or Outdated: configure the surface and ask for another redraw.
Reconfigure ==
  /\ RedrawRequested
  /\ surface = "lost"
  /\ surface' = "ok"
  /\ UNCHANGED <<drawn, redraw, skipped>>

\* Timeout and the rest: this redraw is skipped.
SkipRedraw ==
  /\ RedrawRequested
  /\ redraw' = FALSE
  /\ skipped' = TRUE
  /\ UNCHANGED <<surface, drawn>>

\* input_rx is dropped with the input task, or with run_windowed() when it
\* ends before it has one.
InputReceiver == itask = "running" \/ net \in {"starting", "waiting", "dialing", "connected"}

SendInput ==
  /\ app = "open"
  /\ inputs < MaxInputs
  /\ inputs' = IF InputReceiver THEN inputs + 1 ELSE inputs
  /\ UNCHANGED <<screenVars, surface, interrupted, link, app, drawVars, title, sizeVars,
                 uevents, toldVars, netVars, sig>>

\* A pointer position needs a frame to be scaled to and a window that has one.
CursorMoved == texture # 0 /\ view.size # 0 /\ SendInput
ButtonOrKey == SendInput

CloseRequested ==
  /\ app = "open"
  /\ app' = "closing"
  /\ UNCHANGED <<screenVars, surface, interrupted, link, drawVars, title, inputs,
                 sizeVars, uevents, toldVars, netVars, sig>>

\* main() returns, and every thread ends with it.
MainReturns ==
  /\ app = "closing"
  /\ Exit
  /\ UNCHANGED interrupted

-----------------------------------------------------------------------------
(* The network thread. It runs until the process exits.                    *)

Alive == app # "exited"

\* proxy.send_event() fails once the event loop is gone.
SendEvent(event) == uevents' = IF app = "closing" THEN uevents ELSE Append(uevents, event)

\* run_windowed() returns having sent an error to the window.
EndWith(event) ==
  /\ SendEvent(event)
  /\ net' = "ending"
  /\ UNCHANGED <<screenVars, surface, interrupted, link, app, drawVars, title, inputs,
                 sizeVars, toldVars, frames, sig>>

Step(from, to) ==
  /\ Alive /\ net = from /\ net' = to
  /\ UNCHANGED <<screenVars, surface, interrupted, app, drawVars, title, inputs,
                 sizeVars, uevents, frames>>

RuntimeStarts == Step("starting", "waiting") /\ UNCHANGED <<link, toldVars, itask, sig>>

\* Runtime::new() failed: the thread logs it and returns.
RuntimeFails == Step("starting", "never") /\ UNCHANGED <<link, toldVars, itask, sig>>

StartsAnyway ==              \* Mutant: dials without waiting for the first viewport
  /\ Step("waiting", "dialing")
  /\ told' = viewport /\ seen' = version
  /\ UNCHANGED <<link, itask, sig>>

\* The viewport that Hello is going to tell.
FirstViewport ==
  /\ Step("waiting", "dialing")
  /\ viewport # NoViewport
  /\ told' = viewport /\ seen' = version
  /\ UNCHANGED <<link, itask, sig>>

\* connect_and_handshake() came back with the Welcome to its Hello.
Connected ==
  /\ Step("dialing", "connected")
  /\ link' = "up"
  /\ sig' = "spawned"
  /\ UNCHANGED <<toldVars, itask>>

ListensAnew ==               \* Mutant: the input task starts from the value of that moment
  /\ Step("connected", "accepting")
  /\ itask' = "running"
  /\ seen' = version
  /\ UNCHANGED <<link, told, sig>>

\* The clicks of --move-to are written and the input task is spawned.
StartInputTask ==
  /\ Step("connected", "accepting")
  /\ itask' = "running"
  /\ UNCHANGED <<link, toldVars, sig>>

AcceptVideo == link = "up" /\ Step("accepting", "streaming") /\ UNCHANGED <<link, toldVars, itask, sig>>

\* `?` before or within the loop: the handshake or the clicks fail, no video
\* stream comes, a payload breaks off, the decoder cannot be built or fails.
\* The input task is not aborted.
Fails ==
  /\ Alive
  /\ \/ net \in {"dialing", "streaming"}
     \/ net \in {"connected", "accepting"} /\ link = "down"
  /\ EndWith(Failure)
  /\ UNCHANGED itask

EndsSilently ==              \* Mutant: the loop just breaks when the stream ends
  /\ Alive /\ net = "streaming"
  /\ net' = "ending" /\ itask' = "ended"
  /\ UNCHANGED <<screenVars, surface, interrupted, link, app, drawVars, title, inputs,
                 sizeVars, uevents, toldVars, frames, sig>>

\* recv_frame_header() fails: the connection is lost, the stream finished, or
\* the header makes no sense.
VideoEnds ==
  /\ Alive /\ net = "streaming"
  /\ EndWith(Failure)
  /\ itask' = "ended"

Decode ==
  /\ Alive /\ net = "streaming" /\ link = "up" /\ app # "closing"
  /\ frames < MaxFrames /\ frames' = frames + 1
  /\ uevents' = Append(uevents, frames + 1)
  /\ UNCHANGED <<screenVars, surface, interrupted, link, app, drawVars, title, inputs,
                 sizeVars, toldVars, net, itask, sig>>

\* A frame finds the event loop gone.
WindowGone ==
  /\ app = "closing" /\ link = "up"
  /\ Step("streaming", "ending")
  /\ itask' = "ended"
  /\ UNCHANGED <<link, toldVars, sig>>

\* The runtime is dropped with every task it still has. The disposition of
\* SIGINT stays as the Ctrl+C task left it.
RuntimeDrops ==
  /\ Step("ending", "ended")
  /\ itask' = "ended"
  /\ sig' = CASE sig = "task" -> "orphan" [] sig = "spawned" -> "default" [] OTHER -> sig
  /\ UNCHANGED <<link, toldVars>>

-----------------------------------------------------------------------------
(* The input task: a biased select, input before sizes.                    *)

InputTask(rest) ==
  /\ Alive /\ itask = "running"
  /\ IF link = "up" THEN rest /\ UNCHANGED itask ELSE itask' = "ended" /\ UNCHANGED told
  /\ UNCHANGED <<screenVars, surface, interrupted, link, app, drawVars, title,
                 sizeVars, uevents, net, frames, sig>>

ForwardInput ==
  /\ inputs > 0 /\ inputs' = inputs - 1
  /\ InputTask(UNCHANGED told)
  /\ UNCHANGED seen

TellViewport ==
  /\ inputs = 0
  /\ seen # version /\ seen' = version
  /\ InputTask(told' = viewport)
  /\ UNCHANGED inputs

-----------------------------------------------------------------------------
(* The Ctrl+C task.                                                        *)

CtrlCRegisters ==
  /\ Alive /\ sig = "spawned"
  /\ sig' = "task"
  /\ UNCHANGED <<screenVars, surface, interrupted, link, app, drawVars, title, inputs,
                 sizeVars, uevents, toldVars, netVars>>

\* close() makes closed() ready at once, so that nothing comes between the
\* two and exit().
CtrlCExits ==
  /\ Alive /\ interrupted /\ sig = "task"
  /\ Exit
  /\ UNCHANGED interrupted

-----------------------------------------------------------------------------
User == (\E s \in Sizes : WindowResizes(s)) \/ (\E c \in Scales : DisplayChanges(c))
        \/ CursorMoved \/ ButtonOrKey \/ CloseRequested \/ Interrupt

Window == Resumed \/ Resized \/ ScaleFactorChanged \/ UserFrame \/ UserNetworkError
          \/ Present \/ Reconfigure \/ SkipRedraw \/ MainReturns

Network == RuntimeStarts \/ RuntimeFails \/ FirstViewport \/ Connected \/ StartInputTask
           \/ AcceptVideo \/ Fails \/ VideoEnds \/ Decode \/ WindowGone \/ RuntimeDrops

Next ==
  \/ User \/ SurfaceBreaks \/ Lose
  \/ Window \/ Network
  \/ ForwardInput \/ TellViewport \/ CtrlCRegisters \/ CtrlCExits

Spec == Init /\ [][Next]_vars

\* Both threads run, and the runtime's tasks with them. What the person, the
\* window system and the server do is open, but a lost connection is noticed
\* in the end.
Fairness ==
  /\ WF_vars(Resumed) /\ WF_vars(Resized \/ ScaleFactorChanged)
  /\ WF_vars(UserFrame \/ UserNetworkError)
  /\ WF_vars(Present \/ Reconfigure \/ SkipRedraw) /\ SF_vars(Present) /\ WF_vars(MainReturns)
  /\ WF_vars(RuntimeStarts \/ RuntimeFails) /\ WF_vars(FirstViewport)
  /\ WF_vars(StartInputTask) /\ WF_vars(RuntimeDrops)
  /\ WF_vars(link = "down" /\ (Fails \/ VideoEnds))
  /\ WF_vars(ForwardInput) /\ SF_vars(TellViewport)
  /\ WF_vars(CtrlCRegisters) /\ WF_vars(CtrlCExits)

FairSpec == Spec /\ Fairness

-----------------------------------------------------------------------------
(* Safety.                                                                 *)

\* No frame and no error is ever sent to an event loop that has no window to
\* show it in: two threads start at the same time, and run_windowed() waits
\* for the size the window reports (network.rs:205-215).
EventsFindWindow == uevents # <<>> => app # "new"

\* A size the receiver has marked as seen is the size the server was told,
\* or is being told in Hello: no change is coalesced away, whenever it falls
\* between the first size, the handshake and the input task's start.
SeenIsTold ==
  /\ seen <= version
  /\ net \in {"starting", "waiting", "dialing", "connected", "never"} => itask = "none"
  /\ net \notin {"starting", "waiting", "never"} /\ itask # "ended" =>
       (seen = version => told = viewport)

\* Each window event states one half of the geometry and App reads the other
\* from the window, which may be ahead of its events. Nothing is lost between
\* them: once the events are handled, the viewport is the window's geometry.
ViewportIsView == app = "open" /\ wevents = <<>> => viewport = view

\* A half no event is pending for is right; for the other, the last event is.
HalfIsCurrent(kind, sent, half) ==
  /\ (\A i \in 1..Len(wevents) : wevents[i].kind # kind) => sent = half
  /\ \A i \in 1..Len(wevents) :
       wevents[i].kind = kind /\ (\A j \in i+1..Len(wevents) : wevents[j].kind # kind)
         => wevents[i].to = half

HalvesAreCurrent ==
  app = "open" => /\ HalfIsCurrent("resized", viewport.size, view.size)
                  /\ HalfIsCurrent("scaled", viewport.scale, view.scale)

\* The first viewport is sent as the window opens, and nothing before it.
WindowHasViewport ==
  /\ app = "new" => wevents = <<>> /\ viewport = NoViewport /\ net \in {"starting", "waiting", "never"}
  /\ app = "exited" => uevents = <<>>

\* What is said of sizes is inductive by itself.
SizeInv ==
  /\ TypeOK
  /\ EventsFindWindow
  /\ SeenIsTold
  /\ HalvesAreCurrent
  /\ WindowHasViewport

\* Frames come to the window in the order they were decoded, the newest is
\* uploaded or queued, and what is uploaded is drawn unless a redraw for it is
\* pending or was given up.
FramesInOrder ==
  /\ app = "new" => frames = 0 /\ texture = 0 /\ drawn = 0
  /\ app = "open" =>
    /\ drawn <= texture /\ texture <= frames
    /\ \A i \in 1..Len(uevents) : uevents[i] # Failure => texture < uevents[i] /\ uevents[i] <= frames
    /\ \A i, j \in 1..Len(uevents) :
         i < j /\ uevents[i] # Failure /\ uevents[j] # Failure => uevents[i] < uevents[j]
    /\ texture = frames \/ \E i \in 1..Len(uevents) : uevents[i] = frames
    /\ redraw \/ drawn = texture \/ skipped

\* However run_windowed() ends, the window was told or is going to be.
EndTravels ==
  app = "open" /\ net \in {"ending", "ended"} =>
    title \/ \E i \in 1..Len(uevents) : uevents[i] = Failure

IInv == SizeInv /\ FramesInOrder /\ EndTravels

\* Whenever no event is waiting for it the window is up to date, whatever the
\* two threads did at the same time: the size it sent is its size, and what the
\* server was told if the input task has seen it; the newest frame is on the
\* screen or about to be, unless its redraw was given up; and a network side
\* that has ended is shown.
IdleIsCurrent ==
  app = "open" /\ wevents = <<>> /\ uevents = <<>> =>
    /\ viewport = view
    /\ itask = "running" /\ seen = version => told = view
    /\ redraw \/ drawn = frames \/ skipped
    /\ net \in {"ending", "ended"} => title

\* The window never shows an older frame after a newer one, nor one that was
\* not decoded, through queued events, lost surfaces and skipped redraws.
NeverBackwards ==
  [][app' = "open" => drawn <= drawn' /\ drawn' <= frames']_vars

-----------------------------------------------------------------------------
(* Liveness, under Fairness.                                               *)

\* While the connection serves it, the server is told the window's last size
\* and scale, wherever in the start-up, the handshake or a burst of input the
\* window changed.
LastViewportTold == <>[](itask = "running" /\ app = "open" => told = view)

\* The window ends up showing the newest frame decoded, unless the redraw for
\* it timed out: a lost surface is configured again and redrawn.
NewestFrameShown == <>[](app = "open" => drawn = frames \/ skipped)

\* The network side never stops behind the back of an open window: however
\* run_windowed() ends, the title says so.
NetworkEndShown == net = "ended" ~> title \/ app # "open"

\* The comment at network.rs:67-69 says of the Ctrl+C task that it "*is* what
\* makes the process exit from here on". It dies with the runtime, and SIGINT
\* stays ignored.
InterruptEnds == interrupted ~> app = "exited"
=============================================================================
