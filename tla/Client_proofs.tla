---------------------------- MODULE Client_proofs ----------------------------
(***************************************************************************)
(* Proof of what the window owes its two queues, IdleIsCurrent, and of     *)
(* NeverBackwards, for any sizes and scale factors and any number of       *)
(* changes, frames and input events.                                       *)
(***************************************************************************)
EXTENDS Client, TLAPS

-----------------------------------------------------------------------------
(* One half of the geometry and the events that are about it.              *)

\* Current(q, kind, sent, half): HalfIsCurrent of the queue q.
Current(q, kind, sent, half) ==
  /\ (\A i \in 1..Len(q) : q[i].kind # kind) => sent = half
  /\ \A i \in 1..Len(q) :
       q[i].kind = kind /\ (\A j \in i+1..Len(q) : q[j].kind # kind) => q[i].to = half

\* An event at the end of the queue tells the new half.
LEMMA CurrentAfterOwnChange ==
  ASSUME NEW q \in Seq(WindowEvent), NEW e \in WindowEvent, NEW sent
  PROVE  Current(Append(q, e), e.kind, sent, e.to)
<1>. DEFINE r == Append(q, e)
<1>1. Len(r) = Len(q) + 1 /\ r[Len(q) + 1] = e /\ \A i \in 1..Len(q) : r[i] = q[i]
  OBVIOUS
<1>2. ASSUME NEW i \in 1..Len(r), \A j \in i+1..Len(r) : r[j].kind # e.kind
      PROVE  r[i].to = e.to
  <2>1. i = Len(q) + 1
    BY <1>1, <1>2
  <2>. QED BY <1>1, <2>1
<1>3. ~\A i \in 1..Len(r) : r[i].kind # e.kind
  BY <1>1
<1>. QED BY <1>2, <1>3 DEF Current

\* It says nothing of the other half.
LEMMA CurrentAfterOtherChange ==
  ASSUME NEW q \in Seq(WindowEvent), NEW e \in WindowEvent, NEW kind, NEW sent, NEW half,
         e.kind # kind, Current(q, kind, sent, half)
  PROVE  Current(Append(q, e), kind, sent, half)
<1>. DEFINE r == Append(q, e)
<1>1. Len(r) = Len(q) + 1 /\ r[Len(q) + 1] = e /\ \A i \in 1..Len(q) : r[i] = q[i]
  OBVIOUS
<1>2. ASSUME \A i \in 1..Len(r) : r[i].kind # kind
      PROVE  sent = half
  <2>1. \A i \in 1..Len(q) : q[i].kind # kind
    BY <1>1, <1>2
  <2>. QED BY <2>1 DEF Current
<1>3. ASSUME NEW i \in 1..Len(r), r[i].kind = kind, \A j \in i+1..Len(r) : r[j].kind # kind
      PROVE  r[i].to = half
  <2>1. i \in 1..Len(q)
    BY <1>1, <1>3
  <2>2. \A j \in i+1..Len(q) : q[j].kind # kind
    BY <1>1, <1>3, <2>1
  <2>. QED BY <1>1, <1>3, <2>1, <2>2 DEF Current
<1>. QED BY <1>2, <1>3 DEF Current

\* Handling an event of its kind sends the half the event states.
LEMMA CurrentAfterOwnEvent ==
  ASSUME NEW q \in Seq(WindowEvent), q # <<>>, NEW sent, NEW half,
         Current(q, Head(q).kind, sent, half)
  PROVE  Current(Tail(q), Head(q).kind, Head(q).to, half)
<1>. DEFINE r == Tail(q)
            kind == Head(q).kind
<1>1. Len(r) = Len(q) - 1 /\ Len(q) >= 1 /\ Head(q) = q[1] /\ \A i \in 1..Len(r) : r[i] = q[i + 1]
  OBVIOUS
<1>2. ASSUME \A i \in 1..Len(r) : r[i].kind # kind
      PROVE  Head(q).to = half
  <2>1. \A j \in 2..Len(q) : q[j].kind # kind
    <3>. TAKE j \in 2..Len(q)
    <3>1. j - 1 \in 1..Len(r) /\ r[j - 1] = q[j]
      BY <1>1
    <3>. QED BY <1>2, <3>1
  <2>. QED BY <1>1, <2>1 DEF Current
<1>3. ASSUME NEW i \in 1..Len(r), r[i].kind = kind, \A j \in i+1..Len(r) : r[j].kind # kind
      PROVE  r[i].to = half
  <2>1. \A j \in i+2..Len(q) : q[j].kind # kind
    <3>. TAKE j \in i+2..Len(q)
    <3>1. j - 1 \in i+1..Len(r) /\ r[j - 1] = q[j]
      BY <1>1
    <3>. QED BY <1>3, <3>1
  <2>2. i + 1 \in 1..Len(q) /\ q[i + 1] = r[i]
    BY <1>1
  <2>. QED BY <1>3, <2>1, <2>2 DEF Current
<1>. QED BY <1>2, <1>3 DEF Current

\* Handling an event of the other kind sends the half the window has.
LEMMA CurrentAfterOtherEvent ==
  ASSUME NEW q \in Seq(WindowEvent), q # <<>>, NEW kind, NEW sent, NEW half,
         Current(q, kind, sent, half)
  PROVE  Current(Tail(q), kind, half, half)
<1>. DEFINE r == Tail(q)
<1>1. Len(r) = Len(q) - 1 /\ \A i \in 1..Len(r) : r[i] = q[i + 1]
  OBVIOUS
<1>2. ASSUME NEW i \in 1..Len(r), r[i].kind = kind, \A j \in i+1..Len(r) : r[j].kind # kind
      PROVE  r[i].to = half
  <2>1. \A j \in i+2..Len(q) : q[j].kind # kind
    <3>. TAKE j \in i+2..Len(q)
    <3>1. j - 1 \in i+1..Len(r) /\ r[j - 1] = q[j]
      BY <1>1
    <3>. QED BY <1>2, <3>1
  <2>2. i + 1 \in 1..Len(q) /\ q[i + 1] = r[i]
    BY <1>1
  <2>. QED BY <1>2, <2>1, <2>2 DEF Current
<1>. QED BY <1>2 DEF Current

\* The queue's first event is one of the two kinds.
LEMMA HeadTyped ==
  ASSUME NEW q \in Seq(WindowEvent), q # <<>>
  PROVE  /\ Tail(q) \in Seq(WindowEvent)
         /\ Head(q).kind = "resized" => Head(q).to \in Sizes
         /\ Head(q).kind = "scaled" => Head(q).to \in Scales
<1>1. Head(q) \in WindowEvent /\ Tail(q) \in Seq(WindowEvent)
  OBVIOUS
<1>. QED BY <1>1 DEF WindowEvent

-----------------------------------------------------------------------------
(* The invariant.                                                          *)

\* The initial values have their types, by the assumption on the constants.
LEMMA Constants ==
  /\ MaxFrames \in Nat /\ MaxInputs \in Nat
  /\ 0 \in 0..MaxFrames /\ 0 \in 0..MaxInputs
  /\ <<>> \in Seq(WindowEvent) /\ <<>> \in Seq(0..MaxFrames)
  /\ [size |-> OpeningSize, scale |-> OpeningScale] \in Viewport
<1>1. MaxFrames \in Nat /\ MaxInputs \in Nat
  BY ClientAssumption
<1>2. OpeningSize \in Sizes /\ OpeningScale \in Scales
  BY ClientAssumption
<1>. QED BY <1>1, <1>2 DEF Viewport

\* The client starts in the invariant: no window, no viewport, no thread past its start.
LEMMA InitSizeInv == Init => SizeInv
<1>1. SUFFICES ASSUME Init PROVE SizeInv
  OBVIOUS
<1>2. TypeOK
  BY <1>1, Constants DEF Init, TypeOK, NetState
<1>3. EventsFindWindow /\ SeenIsTold /\ HalvesAreCurrent /\ WindowHasViewport
  BY <1>1 DEF Init, EventsFindWindow, SeenIsTold, HalvesAreCurrent, WindowHasViewport
<1>. QED BY <1>2, <1>3 DEF SizeInv

\* Once the process has exited there is nothing left to go wrong.
LEMMA ExitSizeInv ==
  ASSUME SizeInv, Exit, interrupted' \in BOOLEAN
  PROVE  SizeInv'
<1>1. TypeOK'
  BY Constants DEF Exit, SizeInv, TypeOK, NetState
<1>2. EventsFindWindow' /\ SeenIsTold' /\ HalvesAreCurrent' /\ WindowHasViewport'
  BY DEF Exit, EventsFindWindow, SeenIsTold, HalvesAreCurrent, WindowHasViewport
<1>. QED BY <1>1, <1>2 DEF SizeInv

\* The window changes, and says so with an event about what changed.
LEMMA ChangeSizeInv ==
  ASSUME SizeInv,
         \/ \E s \in Sizes : WindowResizes(s)
         \/ \E c \in Scales : DisplayChanges(c)
  PROVE  SizeInv'
<1>. USE DEF SizeInv, Change, drawVars, sizeVars, toldVars, netVars
<1>1. TypeOK'
  <2>1. view \in Viewport /\ wevents \in Seq(WindowEvent)
    BY DEF TypeOK
  <2>2. view' \in Viewport
    BY <2>1 DEF WindowResizes, DisplayChanges, Viewport
  <2>3. PICK e \in WindowEvent : wevents' = Append(wevents, e)
    BY DEF WindowResizes, DisplayChanges, WindowEvent
  <2>4. wevents' \in Seq(WindowEvent)
    BY <2>1, <2>3
  <2>5. UNCHANGED <<surface, interrupted, link, app, drawVars, title, inputs, sizeVars, uevents,
                    toldVars, netVars, sig>>
    BY DEF WindowResizes, DisplayChanges
  <2>. QED BY <2>2, <2>4, <2>5 DEF TypeOK
<1>2. EventsFindWindow' /\ SeenIsTold' /\ WindowHasViewport'
  BY DEF EventsFindWindow, SeenIsTold, WindowHasViewport, WindowResizes, DisplayChanges
<1>3. ASSUME NEW s \in Sizes, WindowResizes(s)
      PROVE  HalvesAreCurrent'
  <2>. DEFINE e == [kind |-> "resized", to |-> s]
  <2>1. e \in WindowEvent /\ e.kind = "resized" /\ e.to = s /\ wevents \in Seq(WindowEvent)
    BY DEF WindowEvent, TypeOK
  <2>2. wevents' = Append(wevents, e) /\ view'.size = s /\ view'.scale = view.scale /\ viewport' = viewport
    BY <1>3 DEF WindowResizes, TypeOK, Viewport
  <2>3. Current(wevents', "resized", viewport.size, s)
    BY <2>1, <2>2, CurrentAfterOwnChange
  <2>4. Current(wevents, "scaled", viewport.scale, view.scale)
    BY <1>3 DEF WindowResizes, HalvesAreCurrent, HalfIsCurrent, Current
  <2>5. Current(wevents', "scaled", viewport.scale, view.scale)
    BY <2>1, <2>2, <2>4, CurrentAfterOtherChange
  <2>. QED BY <2>2, <2>3, <2>5 DEF HalvesAreCurrent, HalfIsCurrent, Current
<1>4. ASSUME NEW c \in Scales, DisplayChanges(c)
      PROVE  HalvesAreCurrent'
  <2>. DEFINE e == [kind |-> "scaled", to |-> c]
  <2>1. e \in WindowEvent /\ e.kind = "scaled" /\ e.to = c /\ wevents \in Seq(WindowEvent)
    BY DEF WindowEvent, TypeOK
  <2>2. wevents' = Append(wevents, e) /\ view'.scale = c /\ view'.size = view.size /\ viewport' = viewport
    BY <1>4 DEF DisplayChanges, TypeOK, Viewport
  <2>3. Current(wevents', "scaled", viewport.scale, c)
    BY <2>1, <2>2, CurrentAfterOwnChange
  <2>4. Current(wevents, "resized", viewport.size, view.size)
    BY <1>4 DEF DisplayChanges, HalvesAreCurrent, HalfIsCurrent, Current
  <2>5. Current(wevents', "resized", viewport.size, view.size)
    BY <2>1, <2>2, <2>4, CurrentAfterOtherChange
  <2>. QED BY <2>2, <2>3, <2>5 DEF HalvesAreCurrent, HalfIsCurrent, Current
<1>. QED BY <1>1, <1>2, <1>3, <1>4

\* App sends the half an event states with the window's other half.
LEMMA WindowEventSizeInv ==
  ASSUME SizeInv, Resized \/ ScaleFactorChanged
  PROVE  SizeInv'
<1>. USE DEF SizeInv, drawVars, sizeVars, toldVars, netVars, SendViewport
<1>0. wevents \in Seq(WindowEvent) /\ wevents # <<>> /\ app = "open" /\ wevents' = Tail(wevents)
  BY DEF TypeOK, Resized, ScaleFactorChanged
<1>1. TypeOK'
  BY <1>0, HeadTyped DEF TypeOK, Resized, ScaleFactorChanged, Viewport
<1>2. EventsFindWindow' /\ SeenIsTold' /\ WindowHasViewport'
  BY DEF TypeOK, EventsFindWindow, SeenIsTold, WindowHasViewport, Resized, ScaleFactorChanged
<1>3. /\ Current(wevents, "resized", viewport.size, view.size)
      /\ Current(wevents, "scaled", viewport.scale, view.scale)
  BY <1>0 DEF HalvesAreCurrent, HalfIsCurrent, Current
<1>4. CASE Resized
  <2>1. Head(wevents).kind = "resized" /\ viewport'.size = Head(wevents).to
        /\ viewport'.scale = view.scale /\ view' = view
    BY <1>4 DEF Resized
  <2>2. Current(wevents', "resized", viewport'.size, view.size)
    BY <1>0, <1>3, <2>1, CurrentAfterOwnEvent
  <2>3. Current(wevents', "scaled", viewport'.scale, view.scale)
    BY <1>0, <1>3, <2>1, CurrentAfterOtherEvent
  <2>4. HalvesAreCurrent'
    BY <2>1, <2>2, <2>3 DEF HalvesAreCurrent, HalfIsCurrent, Current
  <2>. QED BY <1>1, <1>2, <2>4
<1>5. CASE ScaleFactorChanged
  <2>1. Head(wevents).kind = "scaled" /\ viewport'.scale = Head(wevents).to
        /\ viewport'.size = view.size /\ view' = view
    BY <1>5 DEF ScaleFactorChanged
  <2>2. Current(wevents', "scaled", viewport'.scale, view.scale)
    BY <1>0, <1>3, <2>1, CurrentAfterOwnEvent
  <2>3. Current(wevents', "resized", viewport'.size, view.size)
    BY <1>0, <1>3, <2>1, CurrentAfterOtherEvent
  <2>4. HalvesAreCurrent'
    BY <2>1, <2>2, <2>3 DEF HalvesAreCurrent, HalfIsCurrent, Current
  <2>. QED BY <1>1, <1>2, <2>4
<1>. QED BY <1>4, <1>5

\* The window opens and sends what the network waits for.
LEMMA ResumedSizeInv ==
  ASSUME SizeInv, Resumed
  PROVE  SizeInv'
BY DEF Resumed, SendViewport, SizeInv, TypeOK, EventsFindWindow, SeenIsTold, HalvesAreCurrent,
       HalfIsCurrent, WindowHasViewport, Viewport, screenVars, drawVars, toldVars, netVars

\* What App does with frames, errors, redraws and input is not the sizes' business.
LEMMA AppSizeInv ==
  ASSUME SizeInv,
         \/ UserFrame \/ UserNetworkError \/ Present \/ Reconfigure \/ SkipRedraw
         \/ CursorMoved \/ ButtonOrKey \/ CloseRequested \/ SurfaceBreaks \/ Lose \/ CtrlCRegisters
  PROVE  SizeInv'
<1>. USE Constants DEF SizeInv, screenVars, drawVars, sizeVars, toldVars, netVars, RedrawRequested
<1>1. TypeOK'
  <2>1. CASE UserFrame \/ UserNetworkError
    <3>1. uevents # <<>> /\ uevents \in Seq(0..MaxFrames)
      BY <2>1 DEF TypeOK, UserFrame, UserNetworkError
    <3>2. Head(uevents) \in 0..MaxFrames /\ Tail(uevents) \in Seq(0..MaxFrames)
      BY <3>1
    <3>3. /\ texture' \in 0..MaxFrames /\ uevents' \in Seq(0..MaxFrames)
          /\ redraw' \in BOOLEAN /\ skipped' \in BOOLEAN /\ title' \in BOOLEAN
      BY <2>1, <3>2 DEF TypeOK, UserFrame, UserNetworkError
    <3>4. UNCHANGED <<screenVars, surface, interrupted, link, app, drawn, inputs, sizeVars, toldVars,
                      netVars, sig>>
      BY <2>1 DEF UserFrame, UserNetworkError
    <3>. QED BY <3>3, <3>4 DEF TypeOK
  <2>2. CASE Present \/ Reconfigure \/ SkipRedraw
    <3>1. /\ drawn' \in 0..MaxFrames /\ surface' \in {"ok", "lost"}
          /\ redraw' \in BOOLEAN /\ skipped' \in BOOLEAN
      BY <2>2 DEF TypeOK, Present, Reconfigure, SkipRedraw
    <3>2. UNCHANGED <<screenVars, interrupted, link, app, texture, title, inputs, sizeVars, uevents,
                      toldVars, netVars, sig>>
      BY <2>2 DEF Present, Reconfigure, SkipRedraw
    <3>. QED BY <3>1, <3>2 DEF TypeOK
  <2>3. CASE CursorMoved \/ ButtonOrKey
    <3>1. inputs' \in 0..MaxInputs
      BY <2>3 DEF TypeOK, CursorMoved, ButtonOrKey, SendInput
    <3>. QED BY <2>3, <3>1 DEF TypeOK, CursorMoved, ButtonOrKey, SendInput
  <2>4. CASE CloseRequested \/ SurfaceBreaks \/ Lose \/ CtrlCRegisters
    BY <2>4 DEF TypeOK, CloseRequested, SurfaceBreaks, Lose, CtrlCRegisters
  <2>. QED BY <2>1, <2>2, <2>3, <2>4
<1>2. /\ EventsFindWindow' /\ WindowHasViewport'
      /\ UNCHANGED <<view, wevents, viewport, version, seen, told, net, itask>>
      /\ app' = "open" => app = "open"
  BY DEF TypeOK, EventsFindWindow, WindowHasViewport, UserFrame, UserNetworkError, Present, Reconfigure,
         SkipRedraw, CursorMoved, ButtonOrKey, SendInput, CloseRequested, SurfaceBreaks, Lose,
         CtrlCRegisters
<1>3. SeenIsTold' /\ HalvesAreCurrent'
  BY <1>2 DEF SeenIsTold, HalvesAreCurrent, HalfIsCurrent
<1>. QED BY <1>1, <1>2, <1>3

\* run_windowed() gets past its first wait only with a viewport, so that
\* whatever it sends later finds the window.
LEMMA NetworkSizeInv ==
  ASSUME SizeInv, Network
  PROVE  SizeInv'
<1>. USE Constants
     DEF SizeInv, Step, EndWith, SendEvent, Alive, screenVars, drawVars, sizeVars, toldVars, netVars
<1>1. /\ UNCHANGED <<view, wevents, viewport, version, app>>
      /\ HalvesAreCurrent'
  <2>1. UNCHANGED <<view, wevents, viewport, version, app>>
    BY DEF Network, RuntimeStarts, RuntimeFails, FirstViewport, Connected, StartInputTask,
           AcceptVideo, Fails, VideoEnds, Decode, WindowGone, RuntimeDrops
  <2>. QED BY <2>1 DEF HalvesAreCurrent, HalfIsCurrent
<1>2. CASE RuntimeStarts \/ RuntimeFails \/ FirstViewport \/ Connected \/ StartInputTask
           \/ AcceptVideo \/ WindowGone \/ RuntimeDrops
  <2>1. TypeOK'
    BY <1>2 DEF TypeOK, NetState, RuntimeStarts, RuntimeFails, FirstViewport, Connected,
                StartInputTask, AcceptVideo, WindowGone, RuntimeDrops
  <2>2. EventsFindWindow' /\ WindowHasViewport'
    BY <1>2 DEF EventsFindWindow, WindowHasViewport, RuntimeStarts, RuntimeFails,
                FirstViewport, Connected, StartInputTask, AcceptVideo, WindowGone, RuntimeDrops
  <2>3. ASSUME FirstViewport PROVE SeenIsTold'
    BY <1>1, <2>3 DEF TypeOK, SeenIsTold, FirstViewport
  <2>4. ASSUME ~FirstViewport PROVE SeenIsTold'
    BY <1>1, <1>2, <2>4
       DEF SeenIsTold, RuntimeStarts, RuntimeFails, Connected, StartInputTask, AcceptVideo,
           WindowGone, RuntimeDrops
  <2>. QED BY <1>1, <2>1, <2>2, <2>3, <2>4
<1>3. CASE Fails \/ VideoEnds
  <2>1. TypeOK'
    <3>1. uevents' \in Seq(0..MaxFrames)
      <4>1. uevents \in Seq(0..MaxFrames) /\ Failure \in 0..MaxFrames
        BY DEF TypeOK, Failure
      <4>2. Append(uevents, Failure) \in Seq(0..MaxFrames)
        BY <4>1
      <4>. QED BY <1>3, <4>1, <4>2 DEF Fails, VideoEnds
    <3>. QED BY <1>3, <3>1 DEF TypeOK, NetState, Fails, VideoEnds
  <2>2. EventsFindWindow' /\ SeenIsTold' /\ WindowHasViewport'
    BY <1>3 DEF EventsFindWindow, SeenIsTold, WindowHasViewport, Fails, VideoEnds
  <2>. QED BY <1>1, <2>1, <2>2
<1>4. CASE Decode
  <2>1. TypeOK'
    <3>1. frames' \in 0..MaxFrames /\ frames + 1 \in 0..MaxFrames
      BY <1>4 DEF TypeOK, Decode
    <3>2. uevents' \in Seq(0..MaxFrames)
      BY <1>4, <3>1 DEF TypeOK, Decode
    <3>. QED BY <1>4, <3>1, <3>2 DEF TypeOK, Decode
  <2>2. EventsFindWindow' /\ SeenIsTold' /\ WindowHasViewport'
    BY <1>4 DEF EventsFindWindow, SeenIsTold, WindowHasViewport, Decode
  <2>. QED BY <1>1, <2>1, <2>2
<1>. QED BY <1>2, <1>3, <1>4 DEF Network

\* The input task marks a size as seen and tells it in the same step.
LEMMA InputTaskSizeInv ==
  ASSUME SizeInv, ForwardInput \/ TellViewport
  PROVE  SizeInv'
<1>. USE DEF SizeInv, screenVars, drawVars, sizeVars, InputTask
<1>1. inputs' \in 0..MaxInputs /\ told' \in Viewport \cup {NoViewport} /\ seen' \in Nat
  BY Constants DEF TypeOK, ForwardInput, TellViewport, toldVars
<1>2. TypeOK'
  BY <1>1 DEF TypeOK, ForwardInput, TellViewport
<1>3. SeenIsTold'
  BY DEF TypeOK, SeenIsTold, ForwardInput, TellViewport
<1>4. EventsFindWindow' /\ HalvesAreCurrent' /\ WindowHasViewport'
  BY DEF EventsFindWindow, HalvesAreCurrent, HalfIsCurrent, WindowHasViewport, ForwardInput, TellViewport
<1>. QED BY <1>2, <1>3, <1>4

\* A signal either ends the process or waits for the Ctrl+C task.
LEMMA InterruptSizeInv ==
  ASSUME SizeInv, Interrupt \/ CtrlCExits \/ MainReturns
  PROVE  SizeInv'
<1>1. CASE Exit
  <2>1. interrupted' \in BOOLEAN
    BY DEF Interrupt, CtrlCExits, MainReturns, SizeInv, TypeOK
  <2>. QED BY <1>1, <2>1, ExitSizeInv
<1>2. CASE Interrupt /\ sig \notin {"default", "spawned"}
  BY <1>2
     DEF Interrupt, SizeInv, TypeOK, EventsFindWindow, SeenIsTold, HalvesAreCurrent, HalfIsCurrent,
         WindowHasViewport, screenVars, drawVars, sizeVars, toldVars, netVars
<1>3. Exit \/ (Interrupt /\ sig \notin {"default", "spawned"})
  BY DEF Interrupt, CtrlCExits, MainReturns
<1>. QED BY <1>1, <1>2, <1>3

\* Steps that change no variable preserve it.
LEMMA StutterSizeInv ==
  ASSUME SizeInv, UNCHANGED vars
  PROVE  SizeInv'
BY DEF vars, screenVars, drawVars, sizeVars, toldVars, netVars, SizeInv, TypeOK, EventsFindWindow,
       SeenIsTold, HalvesAreCurrent, HalfIsCurrent, WindowHasViewport

-----------------------------------------------------------------------------
(* Frames, and the end of the network side.                                *)

\* Relayed(q, shown, made): what FramesInOrder says of a queue of user events
\* between the newest frame uploaded and the newest one decoded.
Relayed(q, shown, made) ==
  /\ shown <= made
  /\ \A i \in 1..Len(q) : q[i] # Failure => shown < q[i] /\ q[i] <= made
  /\ \A i, j \in 1..Len(q) : i < j /\ q[i] # Failure /\ q[j] # Failure => q[i] < q[j]
  /\ shown = made \/ \E i \in 1..Len(q) : q[i] = made

\* A frame just decoded goes to the end of the queue, behind every other.
LEMMA RelayedAfterDecode ==
  ASSUME NEW q \in Seq(0..MaxFrames), NEW shown \in Nat, NEW made \in Nat,
         Relayed(q, shown, made)
  PROVE  Relayed(Append(q, made + 1), shown, made + 1)
<1>. DEFINE r == Append(q, made + 1)
<1>0. MaxFrames \in Nat /\ \A i \in 1..Len(q) : q[i] \in Nat
  BY Constants
<1>1. Len(r) = Len(q) + 1 /\ r[Len(q) + 1] = made + 1 /\ \A i \in 1..Len(q) : r[i] = q[i]
  BY <1>0
<1>2. \A i \in 1..Len(r) : i \in 1..Len(q) \/ i = Len(q) + 1
  BY <1>1
<1>3. \A i \in 1..Len(r) : r[i] # Failure => shown < r[i] /\ r[i] <= made + 1
  BY <1>0, <1>1, <1>2 DEF Relayed
<1>4. ASSUME NEW i \in 1..Len(r), NEW j \in 1..Len(r), i < j, r[i] # Failure, r[j] # Failure
      PROVE  r[i] < r[j]
  <2>1. i \in 1..Len(q) /\ r[i] = q[i]
    BY <1>1, <1>2, <1>4
  <2>2. CASE j = Len(q) + 1
    BY <1>0, <1>1, <1>4, <2>1, <2>2 DEF Relayed
  <2>3. CASE j \in 1..Len(q)
    BY <1>1, <1>4, <2>1, <2>3 DEF Relayed
  <2>. QED BY <1>2, <2>2, <2>3
<1>5. Len(r) \in 1..Len(r) /\ r[Len(r)] = made + 1
  BY <1>1
<1>6. shown <= made + 1
  BY DEF Relayed
<1>. QED BY <1>3, <1>4, <1>5, <1>6 DEF Relayed

\* An error at the end of the queue changes nothing for the frames.
LEMMA RelayedAfterFailure ==
  ASSUME NEW q \in Seq(0..MaxFrames), NEW shown \in Nat, NEW made \in Nat,
         Relayed(q, shown, made)
  PROVE  Relayed(Append(q, Failure), shown, made)
<1>. DEFINE r == Append(q, Failure)
<1>1. Len(r) = Len(q) + 1 /\ r[Len(q) + 1] = Failure /\ \A i \in 1..Len(q) : r[i] = q[i]
  OBVIOUS
<1>2. \A i \in 1..Len(r) : r[i] # Failure => i \in 1..Len(q) /\ r[i] = q[i]
  BY <1>1
<1>3. \A i \in 1..Len(r) : r[i] # Failure => shown < r[i] /\ r[i] <= made
  BY <1>2 DEF Relayed
<1>4. \A i, j \in 1..Len(r) : i < j /\ r[i] # Failure /\ r[j] # Failure => r[i] < r[j]
  BY <1>2 DEF Relayed
<1>5. (\E i \in 1..Len(q) : q[i] = made) => \E i \in 1..Len(r) : r[i] = made
  BY <1>1
<1>. QED BY <1>3, <1>4, <1>5 DEF Relayed

\* The frame at the head of the queue becomes the one shown.
LEMMA RelayedAfterFrame ==
  ASSUME NEW q \in Seq(0..MaxFrames), q # <<>>, Head(q) # Failure,
         NEW shown \in Nat, NEW made \in Nat, Relayed(q, shown, made)
  PROVE  shown < Head(q) /\ Relayed(Tail(q), Head(q), made)
<1>. DEFINE r == Tail(q)
<1>1. /\ Len(r) = Len(q) - 1 /\ Len(q) >= 1 /\ Head(q) = q[1] /\ 1 \in 1..Len(q)
      /\ \A i \in 1..Len(r) : r[i] = q[i + 1] /\ i + 1 \in 1..Len(q)
  OBVIOUS
<1>2. shown < Head(q) /\ Head(q) <= made
  BY <1>1 DEF Relayed
<1>3. \A i \in 1..Len(r) : r[i] # Failure => Head(q) < r[i] /\ r[i] <= made
  BY <1>1 DEF Relayed
<1>4. \A i, j \in 1..Len(r) : i < j /\ r[i] # Failure /\ r[j] # Failure => r[i] < r[j]
  BY <1>1 DEF Relayed
<1>5. Head(q) = made \/ \E i \in 1..Len(r) : r[i] = made
  <2>1. shown # made
    BY <1>1, <1>2, Constants
  <2>2. PICK i \in 1..Len(q) : q[i] = made
    BY <2>1 DEF Relayed
  <2>3. i = 1 \/ (i - 1 \in 1..Len(r) /\ r[i - 1] = q[i])
    BY <1>1
  <2>. QED BY <1>1, <2>2, <2>3
<1>. QED BY <1>2, <1>3, <1>4, <1>5 DEF Relayed

\* An error at the head of the queue leaves the frames behind it in order.
LEMMA RelayedAfterError ==
  ASSUME NEW q \in Seq(0..MaxFrames), q # <<>>, Head(q) = Failure,
         NEW shown \in Nat, NEW made \in Nat, Relayed(q, shown, made)
  PROVE  Relayed(Tail(q), shown, made)
<1>. DEFINE r == Tail(q)
<1>1. /\ Len(r) = Len(q) - 1 /\ Len(q) >= 1 /\ Head(q) = q[1]
      /\ \A i \in 1..Len(r) : r[i] = q[i + 1] /\ i + 1 \in 1..Len(q)
  OBVIOUS
<1>2. \A i \in 1..Len(r) : r[i] # Failure => shown < r[i] /\ r[i] <= made
  BY <1>1 DEF Relayed
<1>3. \A i, j \in 1..Len(r) : i < j /\ r[i] # Failure /\ r[j] # Failure => r[i] < r[j]
  BY <1>1 DEF Relayed
<1>4. shown = made \/ \E i \in 1..Len(r) : r[i] = made
  <2>1. CASE \E i \in 1..Len(q) : q[i] = made
    <3>1. PICK i \in 1..Len(q) : q[i] = made
      BY <2>1
    <3>2. i = 1 \/ (i - 1 \in 1..Len(r) /\ r[i - 1] = q[i])
      BY <1>1
    <3>3. i = 1 => shown = made
      BY <1>1, <3>1 DEF Relayed, Failure
    <3>. QED BY <3>1, <3>2, <3>3
  <2>. QED BY <2>1 DEF Relayed
<1>. QED BY <1>2, <1>3, <1>4 DEF Relayed

\* FramesInOrder of an open window, in terms of Relayed.
LEMMA OpenFrames ==
  ASSUME app = "open"
  PROVE  FramesInOrder <=>
           /\ drawn <= texture /\ Relayed(uevents, texture, frames)
           /\ redraw \/ drawn = texture \/ skipped
BY DEF FramesInOrder, Relayed

\* The steps that touch neither the frames, their queue, nor the screen.
Unshown ==
  \/ (\E s \in Sizes : WindowResizes(s)) \/ (\E c \in Scales : DisplayChanges(c))
  \/ CursorMoved \/ ButtonOrKey \/ SurfaceBreaks \/ Lose
  \/ Resized \/ ScaleFactorChanged
  \/ RuntimeStarts \/ RuntimeFails \/ FirstViewport \/ Connected \/ StartInputTask
  \/ AcceptVideo \/ RuntimeDrops
  \/ ForwardInput \/ TellViewport \/ CtrlCRegisters

\* What such a step leaves as it was.
LEMMA UnshownFrame ==
  ASSUME Unshown
  PROVE  /\ UNCHANGED <<app, drawVars, title, uevents, frames>>
         /\ net' = net \/ net' \notin {"ending", "ended"} \/ (net = "ending" /\ net' = "ended")
<1>. USE DEF drawVars, netVars, Change, SendInput, Step, InputTask
<1>1. CASE (\E s \in Sizes : WindowResizes(s)) \/ (\E c \in Scales : DisplayChanges(c))
  BY <1>1 DEF WindowResizes, DisplayChanges
<1>2. CASE CursorMoved \/ ButtonOrKey \/ SurfaceBreaks \/ Lose \/ Resized \/ ScaleFactorChanged
           \/ ForwardInput \/ TellViewport \/ CtrlCRegisters
  BY <1>2 DEF CursorMoved, ButtonOrKey, SurfaceBreaks, Lose, Resized, ScaleFactorChanged,
              ForwardInput, TellViewport, CtrlCRegisters
<1>3. CASE RuntimeStarts \/ RuntimeFails \/ FirstViewport \/ Connected \/ StartInputTask
           \/ AcceptVideo \/ RuntimeDrops
  BY <1>3 DEF RuntimeStarts, RuntimeFails, FirstViewport, Connected, StartInputTask, AcceptVideo,
              RuntimeDrops
<1>. QED BY <1>1, <1>2, <1>3 DEF Unshown

\* Every step either touches none of it or is one of those that follow.
LEMMA NextShown ==
  ASSUME [Next]_vars
  PROVE  \/ Unshown \/ UNCHANGED vars
         \/ Resumed \/ UserFrame \/ UserNetworkError \/ Present \/ Reconfigure \/ SkipRedraw
         \/ Decode \/ Fails \/ VideoEnds
         \/ WindowGone \/ CloseRequested \/ Interrupt \/ MainReturns \/ CtrlCExits
BY DEF Next, User, Window, Network, Unshown

\* The steps that end the event loop, or find it ended.
LEMMA ClosingFrame ==
  ASSUME WindowGone \/ CloseRequested \/ Interrupt \/ MainReturns \/ CtrlCExits, app' # "exited"
  PROVE  \/ app' = "closing"
         \/ UNCHANGED <<app, drawVars, title, uevents, frames, net>>
BY DEF WindowGone, Step, CloseRequested, Interrupt, MainReturns, CtrlCExits, Exit, netVars

\* Frames stay in order and the newest is never lost.
LEMMA NextFrames ==
  ASSUME IInv, [Next]_vars
  PROVE  FramesInOrder'
<1>. USE DEF IInv, SizeInv
<1>0. /\ uevents \in Seq(0..MaxFrames) /\ Failure \in 0..MaxFrames
      /\ texture \in Nat /\ drawn \in Nat /\ frames \in Nat
  BY Constants DEF TypeOK, Failure
<1>1. CASE Unshown \/ UNCHANGED vars
  <2>1. UNCHANGED <<app, drawVars, uevents, frames>>
    BY <1>1, UnshownFrame DEF vars, netVars
  <2>. QED BY <2>1 DEF FramesInOrder, drawVars
<1>2. CASE Resumed
  BY <1>2 DEF Resumed, FramesInOrder, EventsFindWindow, drawVars, netVars
<1>3. CASE UserFrame
  <2>1. uevents # <<>> /\ Head(uevents) # Failure /\ app' = app /\ app = "open"
    BY <1>3 DEF UserFrame, EventsFindWindow
  <2>2. /\ texture' = Head(uevents) /\ uevents' = Tail(uevents) /\ redraw'
        /\ UNCHANGED <<drawn, frames>>
    BY <1>3, <2>1 DEF UserFrame, netVars
  <2>3. drawn <= texture /\ Relayed(uevents, texture, frames)
    BY <2>1, OpenFrames
  <2>4. texture < Head(uevents) /\ Relayed(Tail(uevents), Head(uevents), frames)
    BY <1>0, <2>1, <2>3, RelayedAfterFrame
  <2>5. Head(uevents) \in Nat
    BY <1>0, <2>1, Constants
  <2>6. drawn' <= texture' /\ Relayed(uevents', texture', frames')
    BY <1>0, <2>2, <2>3, <2>4, <2>5
  <2>. QED BY <2>1, <2>2, <2>6 DEF FramesInOrder, Relayed
<1>4. CASE UserNetworkError
  <2>1. uevents # <<>> /\ Head(uevents) = Failure /\ app' = app /\ app = "open"
    BY <1>4 DEF UserNetworkError, EventsFindWindow
  <2>2. uevents' = Tail(uevents) /\ redraw' /\ UNCHANGED <<texture, drawn, frames>>
    BY <1>4, <2>1 DEF UserNetworkError, netVars
  <2>3. drawn <= texture /\ Relayed(uevents, texture, frames)
    BY <2>1, OpenFrames
  <2>4. Relayed(uevents', texture', frames')
    BY <1>0, <2>1, <2>2, <2>3, RelayedAfterError
  <2>. QED BY <2>1, <2>2, <2>3, <2>4 DEF FramesInOrder, Relayed
<1>5. CASE Present \/ Reconfigure \/ SkipRedraw
  <2>1. app = "open" /\ app' = app /\ redraw /\ UNCHANGED <<texture, frames, uevents>>
    BY <1>5 DEF Present, Reconfigure, SkipRedraw, RedrawRequested, netVars
  <2>2. drawn' = drawn \/ drawn' = texture
    BY <1>5 DEF Present, Reconfigure, SkipRedraw
  <2>3. redraw' \/ drawn' = texture \/ skipped'
    BY <1>5, <2>1 DEF Present, Reconfigure, SkipRedraw
  <2>4. drawn' <= texture
    BY <1>0, <2>1, <2>2 DEF FramesInOrder
  <2>. QED BY <2>1, <2>3, <2>4 DEF FramesInOrder
<1>6. CASE Decode
  <2>1. /\ app # "new" /\ app' = app /\ frames' = frames + 1 /\ uevents' = Append(uevents, frames + 1)
        /\ UNCHANGED drawVars
    BY <1>6 DEF Decode, WindowHasViewport
  <2>2. ASSUME app = "open" PROVE Relayed(uevents', texture, frames + 1)
    <3>1. Relayed(uevents, texture, frames)
      BY <2>2, OpenFrames
    <3>. QED BY <1>0, <2>1, <3>1, RelayedAfterDecode
  <2>. QED BY <2>1, <2>2 DEF FramesInOrder, Relayed, drawVars
<1>7. CASE Fails \/ VideoEnds
  <2>1. /\ app # "new" /\ app' = app /\ frames' = frames /\ UNCHANGED drawVars
        /\ app = "open" => uevents' = Append(uevents, Failure)
    BY <1>7 DEF Fails, VideoEnds, EndWith, SendEvent, WindowHasViewport
  <2>2. ASSUME app = "open" PROVE Relayed(uevents', texture, frames)
    <3>1. Relayed(uevents, texture, frames)
      BY <2>2, OpenFrames
    <3>. QED BY <1>0, <2>1, <2>2, <3>1, RelayedAfterFailure
  <2>. QED BY <2>1, <2>2 DEF FramesInOrder, Relayed, drawVars
<1>8. CASE WindowGone \/ CloseRequested \/ Interrupt \/ MainReturns \/ CtrlCExits
  <2>1. CASE app' \in {"exited", "closing"}
    BY <2>1 DEF FramesInOrder
  <2>2. CASE UNCHANGED <<app, drawVars, title, uevents, frames, net>>
    BY <2>2 DEF FramesInOrder, drawVars
  <2>. QED BY <1>8, <2>1, <2>2, ClosingFrame
<1>. QED BY <1>1, <1>2, <1>3, <1>4, <1>5, <1>6, <1>7, <1>8, NextShown

\* run_windowed() does not end without a word to an open window, and the word
\* stays in the queue until the title says it.
LEMMA NextEnd ==
  ASSUME IInv, [Next]_vars
  PROVE  EndTravels'
<1>. USE DEF IInv, SizeInv
<1>0. uevents \in Seq(0..MaxFrames) /\ Failure \in 0..MaxFrames
  BY Constants DEF TypeOK, Failure
<1>. DEFINE Queued(q) == \E i \in 1..Len(q) : q[i] = Failure
<1>1. CASE Unshown \/ UNCHANGED vars
  <2>1. /\ UNCHANGED <<app, title, uevents>>
        /\ net' = net \/ net' \notin {"ending", "ended"} \/ net = "ending"
    BY <1>1, UnshownFrame DEF vars, netVars
  <2>. QED BY <2>1 DEF EndTravels
<1>2. CASE Resumed
  BY <1>2 DEF Resumed, EndTravels, WindowHasViewport, netVars
<1>3. CASE UserFrame
  <2>1. /\ uevents # <<>> /\ Head(uevents) # Failure /\ uevents' = Tail(uevents)
        /\ UNCHANGED <<app, title, net>>
    BY <1>3 DEF UserFrame, netVars
  <2>2. ASSUME Queued(uevents) PROVE Queued(uevents')
    <3>1. PICK i \in 1..Len(uevents) : uevents[i] = Failure
      BY <2>2
    <3>2. i # 1 /\ i - 1 \in 1..Len(uevents') /\ uevents'[i - 1] = uevents[i]
      BY <1>0, <2>1, <3>1
    <3>. QED BY <3>1, <3>2
  <2>. QED BY <2>1, <2>2 DEF EndTravels
<1>4. CASE UserNetworkError
  <2>1. app' = app /\ (app = "open" => title')
    BY <1>4 DEF UserNetworkError
  <2>. QED BY <2>1 DEF EndTravels
<1>5. CASE Present \/ Reconfigure \/ SkipRedraw
  BY <1>5 DEF Present, Reconfigure, SkipRedraw, RedrawRequested, EndTravels, netVars
<1>6. CASE Decode
  <2>1. net' = "streaming"
    BY <1>6 DEF Decode
  <2>. QED BY <2>1 DEF EndTravels
<1>7. CASE Fails \/ VideoEnds
  <2>1. app' = app /\ (app = "open" => uevents' = Append(uevents, Failure))
    BY <1>7 DEF Fails, VideoEnds, EndWith, SendEvent
  <2>2. app = "open" => Len(uevents') \in 1..Len(uevents') /\ uevents'[Len(uevents')] = Failure
    BY <1>0, <2>1
  <2>. QED BY <2>1, <2>2 DEF EndTravels
<1>8. CASE WindowGone \/ CloseRequested \/ Interrupt \/ MainReturns \/ CtrlCExits
  <2>1. CASE app' \in {"exited", "closing"}
    BY <2>1 DEF EndTravels
  <2>2. CASE UNCHANGED <<app, drawVars, title, uevents, frames, net>>
    BY <2>2 DEF EndTravels
  <2>. QED BY <1>8, <2>1, <2>2, ClosingFrame
<1>. QED BY <1>1, <1>2, <1>3, <1>4, <1>5, <1>6, <1>7, <1>8, NextShown

-----------------------------------------------------------------------------
(* The theorems.                                                           *)

\* The whole invariant is inductive.
LEMMA NextIInv ==
  ASSUME IInv, [Next]_vars
  PROVE  IInv'
<1>1. CASE Next
  <2>1. SizeInv'
    BY <1>1, ChangeSizeInv, WindowEventSizeInv, ResumedSizeInv, AppSizeInv, NetworkSizeInv,
       InputTaskSizeInv, InterruptSizeInv
       DEF IInv, Next, User, Window
  <2>. QED BY <2>1, NextFrames, NextEnd DEF IInv
<1>2. CASE UNCHANGED vars
  BY <1>2, StutterSizeInv, NextFrames, NextEnd DEF IInv
<1>. QED BY <1>1, <1>2

\* The invariant holds of every behaviour: types, the order in which the two
\* threads start, that no change of the window's geometry is lost between the
\* window system, App, the channel and the input task, no frame between the
\* decoder and the screen, and no end of the network side.
THEOREM Safety == Spec => []IInv
<1>1. Init => IInv
  BY InitSizeInv DEF IInv, Init, FramesInOrder, EndTravels
<1>. QED BY <1>1, NextIInv, PTL DEF Spec

\* Whatever the network thread sends finds a window to show it in.
THEOREM WindowFirst == Spec => []EventsFindWindow
<1>1. IInv => EventsFindWindow
  BY DEF IInv, SizeInv
<1>. QED BY <1>1, Safety, PTL

\* With its events handled, the viewport the window has sent is its geometry,
\* whatever order resizes and changes of display came in.
LEMMA ViewportMatches == IInv => ViewportIsView
<1>1. SUFFICES ASSUME IInv PROVE ViewportIsView
  OBVIOUS
<1>2. view \in Viewport /\ viewport \in Viewport \cup {NoViewport}
  BY <1>1 DEF IInv, SizeInv, TypeOK
<1>3. app = "open" /\ wevents = <<>> => viewport.size = view.size /\ viewport.scale = view.scale
  BY <1>1 DEF IInv, SizeInv, HalvesAreCurrent, HalfIsCurrent
<1>. QED BY <1>2, <1>3 DEF ViewportIsView, Viewport, NoViewport

THEOREM ViewportCurrent == Spec => []ViewportIsView
BY ViewportMatches, Safety, PTL

\* A window with nothing left to handle is up to date: its size is sent, and
\* told if the input task has seen it, the newest frame is drawn or about to
\* be, the end of the network side is shown. This is the safe half of
\* LastViewportTold, NewestFrameShown and NetworkEndShown: nothing gets lost on
\* the way, so that fairness is all they need besides.
THEOREM Idle == Spec => []IdleIsCurrent
<1>1. ASSUME IInv, app = "open", wevents = <<>>, uevents = <<>>
      PROVE  /\ viewport = view
             /\ itask = "running" /\ seen = version => told = view
             /\ redraw \/ drawn = frames \/ skipped
             /\ net \in {"ending", "ended"} => title
  <2>1. viewport = view
    BY <1>1, ViewportMatches DEF ViewportIsView
  <2>2. itask = "running" /\ seen = version => told = viewport
    <3>1. itask = "running" => net \notin {"starting", "waiting", "never"}
      BY <1>1 DEF IInv, SizeInv, SeenIsTold
    <3>. QED BY <1>1, <3>1 DEF IInv, SizeInv, SeenIsTold
  <2>3. Len(uevents) = 0
    BY <1>1
  <2>4. redraw \/ drawn = frames \/ skipped
    BY <1>1, <2>3 DEF IInv, FramesInOrder
  <2>5. net \in {"ending", "ended"} => title
    BY <1>1, <2>3 DEF IInv, EndTravels
  <2>. QED BY <2>1, <2>2, <2>4, <2>5
<1>2. IInv => IdleIsCurrent
  BY <1>1 DEF IdleIsCurrent
<1>. QED BY <1>2, Safety, PTL

\* The window never goes back to an older frame.
THEOREM Forwards == Spec => NeverBackwards
<1>1. ASSUME IInv, IInv', [Next]_vars, app' = "open"
      PROVE  drawn <= drawn' /\ drawn' <= frames'
  <2>1. /\ texture \in Nat /\ drawn \in Nat /\ texture' \in Nat /\ drawn' \in Nat /\ frames' \in Nat
    BY <1>1, Constants DEF IInv, SizeInv, TypeOK
  <2>2. drawn' <= texture' /\ texture' <= frames'
    BY <1>1 DEF IInv, FramesInOrder
  <2>3. drawn' = drawn \/ (Present /\ drawn' = texture)
    <3>1. CASE Unshown \/ UNCHANGED vars
      BY <3>1, UnshownFrame DEF vars, drawVars
    <3>2. CASE WindowGone \/ CloseRequested \/ Interrupt \/ MainReturns \/ CtrlCExits
      BY <1>1, <3>2, ClosingFrame DEF drawVars
    <3>3. CASE Resumed \/ UserFrame \/ UserNetworkError \/ Reconfigure \/ SkipRedraw
               \/ Decode \/ Fails \/ VideoEnds
      BY <3>3 DEF Resumed, UserFrame, UserNetworkError, Reconfigure, SkipRedraw, Decode, Fails,
                  VideoEnds, EndWith, drawVars
    <3>4. CASE Present
      BY <3>4 DEF Present
    <3>. QED BY <1>1, <3>1, <3>2, <3>3, <3>4, NextShown
  <2>4. Present => drawn <= texture
    BY <1>1 DEF Present, RedrawRequested, IInv, FramesInOrder
  <2>. QED BY <2>1, <2>2, <2>3, <2>4
<1>. QED BY <1>1, Safety, PTL DEF Spec, NeverBackwards
=============================================================================
