# TLA+ verification of dragonvnc

Modules, TLC configurations and machine-checked proofs about the dragonvnc
server and client (`src/crates/...`). Every definition is translated from the
Rust source; `PROJECT.json` maps each to the lines it stands for. Paths below
are relative to `src/`.

Run a model with `tlc -workers 2 -config Video.cfg MCVideoPipeline`, check the
proofs of a module with `tlapm Trust_proofs.tla`.

## 1. The system

A Linux server gives one client at a time a headless sway desktop, captures
it, encodes HEVC through VAAPI and sends it over QUIC; a client (macOS, with
VideoToolbox) decodes and shows it and sends input back.

```
 client process                         server process              per connection
 ---------------                        ----------------            --------------
 winit event loop (App)                 run(): accept loop           systemd scope:
   | viewport (watch) | input (mpsc)      | busy flag                 sway, swaymsg,
   v                  v                   v                           session-ready
 network thread: task, input task  <QUIC> handle_connection()              ^
   ^ Ctrl+C task                          |-- input task --resize_tx--\    | set_mode
   | user events (EventLoopProxy)         |                           v    |
   '-- frames, NetworkError               '-- video loop  <--watch-- capture thread
                                        signal task -- active_unit
 server-trust file                      paired_clients file <-- `clients revoke`
```

| component (source) | state | operations | hard behaviour | correct when |
|---|---|---|---|---|
| slot and accept loop (`dragonvnc-server/src/main.rs` `run`) | `busy`, `active_unit` | accept, refuse, signal, exit | handlers, refusals and the signal task interleave; panics | one client at a time; every return frees the slot |
| session life cycle (`dragonvnc-session`) | child process, scope, socket and config files | `start`, `stop`, `Drop`, `stop_unit` | each step of `start` may fail or time out; `systemctl` may fail; crash of the server | no session outlives its handler, no file its unit |
| input task and video loop (`handle_connection`) | resize channel, `last_resize`, pointer extents, encoder | accept a resize, apply it, encode, send | two tasks and a capture thread; biased select; back-pressure | encoder, output and stream agree in size; the last accepted size is applied |
| capture thread (`dragonvnc-capture`) | shm buffer, pending frame, watch channel | request, allocate, copy, publish | the output changes between request, announcement and copy; pixels shared with the compositor; failures, its death | whole frames of the stated shape; no buffer of a wrong one; the newest shape and the end arrive |
| encoder (`dragonvnc-codec/src/vaapi.rs`) | size, held frames, keyframe | encode, replace | delayed packets of a replaced encoder | a new stream starts with a keyframe |
| pairing and trust (`dragonvnc-net`) | one file on each side | ceremony, pin, revoke | the two files disagree; torn writes; concurrent revoke | pinned only by the code; no half-paired session |
| client network side (`dragonvnc-client/src/network.rs`) | decoder, input task, Ctrl+C task | connect, decode, forward, end | two threads start at once; every `?` | size told, end shown, Ctrl+C works |
| client window (`render.rs`, `main.rs`) | window, surface, texture, viewport channel | window events, user events, redraw | half-stated geometry, lost surface | newest frame shown |
| input injection (`dragonvnc-input`) | extents, `xkb_state`, two Wayland connections | motion, button, key, `set_extents` | blocked flushes; two connections read in any order; releases nobody saw | the compositor has down what was reported down, and knows the modifiers |
| endpoints, verifiers, identity (`dragonvnc-net`) | certificate | TLS | idle timeout | left to rustls/quinn |
| wire protocol (`dragonvnc-proto`) | none | encode, decode | none | left to bincode |
| VideoToolbox decoder (`videotoolbox.rs`) | FFI session, size | decode | made anew at each size, needs a keyframe first | never given a packet it cannot decode |

Interactions: calls (handler to `SessionHandle`), bounded channel (`resize_tx`,
4 places), watch channels (frames, viewport: latest value only), unbounded
channels (client input, user events), shared flags (`busy`, `active_unit`),
QUIC streams with flow control, files read and written by two processes, and
external programs (`systemd-run`, `systemctl`, `swaymsg`).

The hazards this gives rise to, each with its line and the properties that
would catch it, are the `hazards` of `PROJECT.json`. Those without a property
have a note with the reason.

## 2. Modules

| module | role |
|---|---|
| `OneSession` | abstract specification of the slot |
| `SessionServer`, `MCSessionServer` | slot, session life cycle, signals, crashes, restarts |
| `VideoPipeline`, `MCVideoPipeline` | one streaming connection, end to end |
| `FrameSource` | abstract specification of what the video loop reads |
| `Screencopy`, `MCScreencopy` | the capture thread, its compositor and the buffer they share |
| `Injection`, `MCInjection` | keys and buttons, from the person to the compositor |
| `Trust`, `MCTrust` | who is paired, on both sides |
| `Client`, `MCClient` | the client's threads, tasks and channels |
| `*_proofs` | the theorems about each of the six |

The modules cut the system where it has narrow interfaces. `SessionServer` and
`Trust` share the handshake: the first sees that it ends one way or the other,
the second says how. `SessionServer` and `VideoPipeline` share serving: the
first sees that the loop runs, sends and breaks, the second what it sends.
`VideoPipeline` and `Client` share the control messages: the second says which
sizes are told, the first what becomes of them. `Screencopy` and `VideoPipeline`
share the capture: the pipeline is composed with `FrameSource` itself
(`Source`), whose actions its capture steps are, and `Screencopy` is shown to
implement `FrameSource`; how frames are announced, copied and waited for is the
second's business alone.
`Injection` goes on where `Client` and the input task of `VideoPipeline` pass an
input event on.

Operators whose comment starts with `Mutant:` are wrong variants of the
definition that follows them. `PROJECT.json` names, for each property, the one
that breaks it; none is part of a specification.

### SessionServer

`pc[c]` is the place of connection `c`'s handler in `handle_connection`, one
label per stretch between awaits; `Holding` are the labels between the
`compare_exchange` of `busy` and its `store(false)`. `Accept`, `Refuse`: the
accept loop. `Connect`, `Pair`, `Hello`, `HandshakeFails`: the handshake.
`BindSocket` ... `Publish`: `SessionHandle::start` and the store to
`active_unit`. `FirstFrame` ... `EncodeFails`: the serving block, which first
waits for a frame, without a timeout and without a look at the connection. `Teardown`,
`StopUnit`, `Escalate`, `Reaped`, `Release`: the way out, which a `start()` that
fails goes as well: `stop_unit()` is called from both, and has the places
`Failing` within `start()` and `Stopping` within `stop()`. `Panic`,
`DropSession`: unwinding (`kill_on_drop`, `Drop`). `Signal`, `SignalStops`,
`SignalExits`: the signal task. `Kill`, `Restart`, `SwayDies`: what happens to
processes. A unit has a tracked child (`child`) and a scope (`scope`), which
can outlive it.

`stop_unit()` looks at no exit status. A stubborn unit (`StubbornUnits`) may be
left as it is by `systemctl stop` (`SystemctlStop`), and is then `"resisting"`, which
is the one state the session properties except; an unkillable one
(`UnkillableUnits`) by `systemctl kill -s SIGKILL` too (`SystemctlKill`), as where
`systemctl` itself fails. After the second the code waits for the child without
limit: `Unkilled` names that state, and the liveness properties except it. The
capture may end (`CaptureEnds`) with the compositor alive.

The select of the video loop is biased to the resize channel. When the input
task ends, its sender is dropped and `recv()` returns `None` at once; the code
`continue`s. The frame branch is not merely disfavoured: with `biased` the
macro polls the branches in order and returns at the first that is ready, and
a closed `recv()` is ready on every poll. A used-up task budget does not help
either: in tokio 1.53.1, which `Cargo.lock` pins, `select!` looks at the budget
itself and yields before it polls any branch, where an older one would have
seen `recv()` pending and gone on to the frame. So `Capture` and `CaptureEnds`
require a running input task, and `ResizeChannelClosed` is a stutter.

### VideoPipeline

A viewport is one of its two dimensions; both are clamped, rounded and compared
by the same code. `ctrl` is the control stream, `chan` the resize channel,
`inflight`, `watch` and `pending` the three places a frame can be in on the
capture side, `stream` the packets between encoder and decoder, of which the
newest `unsent` are not written yet. An encoder instance has a generation, so
that `Decodable` can tell whose keyframe a packet needs. `SetMode` applies
`round_up_to_even` to the mode but builds the encoder for the unrounded size,
as `main.rs` does; `TakeFrame` corrects it. `over` is the source's end, which may
come at any time (`SourceEnds`). The loop is left (`VideoEnds`) in three ways:
`SendFails` and `EndOfFrames` `break` and abort the input task, `FrameFails` (a `?`
on `make_encoder` or `encode`) leaves it running. The client makes a decoder for each size
(`NewDecoder`), which can follow an encoder instance only from a keyframe on
(`DecodedBy`). `RequestMode` may repeat a size: the client's watch channel says
that the viewport changed, not that it differs.

The comment at `main.rs:747-748` says input never waits behind the video. It
waits where the resize channel is full and the loop is in a slow send:
`InputResumes` shows that it always gets through.

### FrameSource and Screencopy

`FrameSource` has the output's shape (`mode`), the frame in hand (`shot`), the
newest frame nobody took (`latest`) and whether the source is over. A frame is
its shape: what may go wrong is that it is of another one, or that a later one
is lost behind it. That the pipeline has its capture from here is no result, it
is how it is built; the result is that `Screencopy` implements it.

`Screencopy` is `run_capture_thread` with the compositor it talks to. `pc` is
its place: `binding`, `idle` (before `capture_output`), `asked` (the first
dispatch loop), `copying` (the second), `ended`. The frame object goes through
`requested`, `announced`, `tocopy`, `writing` and `done`; `events` are those not
dispatched, `pending` is `PendingFrame`, `mem` is what the shared memory holds.
`OutputChanges` may come between any two steps. A copy into a buffer of another
shape than announced is a protocol error, which ends the connection. The events
of a destroyed frame are not delivered, as wayland-client has it. The model is
of version 3 of the protocol. `NeverStuck` says that the thread, which blocks in
its dispatch loops without a timeout, is always owed an event there.

### Injection

`held` is what the person holds, `reported` what the window said last, `wire`
the control stream, `requests[d]` what the two virtual devices asked of the
compositor, of which the newest `unwritten[d]` are still in the connection's
buffer, `down` and `mods` what the compositor has. `Inject` is a whole
`inject()`: the request, `update_key`, `send_modifiers`, and a flush that writes
any part of what is buffered, as its error is only logged. A window without the
focus hears of no key (`PressElsewhere`, `ReleaseElsewhere`): winit on macOS
reports a modifier's next press but not the release it missed. `count` is
libxkbcommon's count of presses. Fields named `after` are history: what is down
once the event or request took effect. Left out: what a motion or a scroll
carries, pointer `frame` requests, modifiers that latch or lock, and a
connection whose 4 KiB buffer is full.

### Trust

`paired` is the server's file, `pin[c]` the client's; both may be torn, since
`fs::write` truncates first. Whether the code typed was right is `typed[c]`, and
SPAKE2 is abstracted to what the two ends derive: `ClientsConfirm(c)` is the value
`ServersConfirm` exactly when it was. Each end sends its own value and compares
what it reads with it, as `pairing.rs:122-130` does. Both send the same value, with
nothing in it to say which end made it: the comparison shows that the peer
returned the value, not that the peer derived it. The clients of the model are
programs of this repository, which send what they derived; `PairedByCode` says
that between such programs a mistyped code pairs neither end, and nothing is
claimed of a peer that sends anything else. `store`
is the copy the handler read when it started and saves at the end of the
ceremony, which is what makes a concurrent `clients revoke` interesting.
`accept_bi` returns for any first frame, so a control stream can be taken for a
pairing stream; `Misread` is what then happens. `Conversation` says what can be
unread in front of the server at each of its places, `Answers` what can be in
front of the client. No read of the handshake has a timeout, so it matters that
the two ends never wait for each other: `NoStandoff`.

### Client

The window system owns `view`; `wevents` are events not yet handled. `App`'s
handlers are one action each. `net` follows `run_windowed`, `itask` its input
task, `sig` the disposition of SIGINT. `Exit` is the end of the process and
resets everything. Frames are numbered in the order they are decoded, so that
`NeverBackwards` and `FramesInOrder` can tell an older one from a newer one.
`IdleIsCurrent` is what the window owes its user whenever no event is left for
it. Left out: surface configuration beyond ok and lost, the
arithmetic of pointer coordinates, the key table, `--dump-raw`.

## 3. Runs

| run | expected | question |
|---|---|---|
| `session` | pass | every failure, signal, kill and restart: are slot, sessions and files always accounted for, does the slot implement `OneSession`; does a lost client free the slot and does `start` return, its own `stop_unit` included, unless `systemctl kill` failed? |
| `lost_stream` | violation | does it also where the loop is in its select? |
| `signal_leak` | violation | does SIGTERM leave no session? |
| `video` | pass | sizes, encoder, stream and decoder agree; the accepted size is never lost on its way, and reaches output and, while the source lives, the picture; input gets through |
| `trailing_resize` | violation | is the last size applied? |
| `pairing` | pass | a mistyped code pairs neither end, sessions mutual, the two sides never wait for each other at once, a misread frame means that the files disagree, every handshake ends |
| `revoked` | violation | does a revoked client stay out? |
| `client` | pass | is a window with nothing left to handle up to date, does it ever show an older frame after a newer one, is the last size told, are the newest frame and the end shown? |
| `interrupt` | violation | does Ctrl+C always end the client? |
| `screencopy` | pass | buffers fit, frames are whole, the newest shape and the end reach the consumer, the thread is a `FrameSource` |
| `injection` | pass | modifiers are told before the key that needs them, exact unless a release was missed; what is down follows what was reported |
| `stuck_modifier` | violation | are the modifiers exact even then? |

A run's `IInv` is the invariant its module's proofs use, and holds several
properties that are not named in the run again: `SessionHasHandler` and
`FilesGoWithUnit` in `session`, `Conversation` in `pairing`. `FilesGoWithUnit` says
nothing of files a `start()` leaves that fails before it has a unit
(`lib.rs:201`), `SessionReaped` nothing of a scope on which `systemctl stop` failed
and whose tracked child is dead (`lib.rs:379`): both leaks are what the code does, and are listed as hazards.

`PictureFollowsOutput`: in the end the client's picture has the size of an output
that stopped changing, or the connection or the loop is over. A source that ended
must end the loop: with `over` set, the first case does not count.

Each property of a passing run has a mutant of the mapped code under which TLC
finds it violated with the same configuration.

Bounds, all constants of the modules:

* `Conn`: two in `session`, with one restart, so that each can be the holder,
  the one refused and the one that comes next, before and after a crash. Both
  units are stubborn and one is unkillable, so that `stop_unit` is seen to get by
  with the first command, with the second and with neither; the other's handler
  may panic, because a panic keeps the
  slot for good and one more adds nothing. Safety and the refinement are proved
  for any set of connections.
* `Sizes` in `video` is an odd size within 4..8 and one above it, so that
  rounding and clamping both matter and two sizes meet in the pipeline;
  `ChanCap = 1` and `WireCap = 1` make the full channel and the full window
  reachable with two messages; `Delay = 1` lets the encoder hold a frame. The
  code's channel has 4 places: the theorems hold for every capacity.
* `MaxDials = 2`, two clients, one revocation, one crash: enough to fail half
  way and come back, and for one client to pair during another's revocation.
* `Shapes` in `screencopy`: two the backend supports and one it does not. The
  model has no counters, so nothing else is bounded.
* `MaxReports = 3` in `injection`, with a modifier, a key and a button: press,
  something else, release, while presses and releases out of sight are not
  counted. The same run passes with 4 reports (1,087,332 states), which takes
  minutes; the invariants are proved for any number.
* `MaxChanges = 2` window changes (size and scale, in either order), two frames,
  which can be in line together or be the one shown and the next, and one input
  event, which competes with a size. The window opens with one size and scale
  (`OpeningSize`, `OpeningScale`): which ones makes no difference to any guard, and
  a second opening scale would double the states. The theorems are about all.
* The violation runs use the smallest instance that shows the behaviour.

`CHECK_DEADLOCK FALSE` everywhere but in `injection` and `stuck_modifier`: the
server may be down with no restart left, a session, a capture or a client may be
over, and bounds may be used up. A person can always change the focus.

### Fairness

`SessionServer`: runnable tasks run, timers fire, external commands return, a
lost connection fails the calls waiting on it (idle timeout,
`endpoint.rs:32`). Nothing is assumed of clients, sway, or senders of signals.
`HandoffFails` is fair because of `handoff_timeout`, `Escalate` because of the
5 s deadline; that a command returns does not mean that it worked. That the wait for the first frame ends (`FirstFrame` or
`CaptureFails`) assumes that a compositor delivers one or dies: the code has no
timeout there.

`VideoPipeline`: tasks run, `swaymsg` returns, the client reads. `FrameReady`
is strongly fair: a request may fail again and again, but the capture loop asks
again and the compositor serves one in the end. An idle screen makes no frames
(`screencopy.rs:14-17`), which is no exception: what needs one is a changed mode,
and that repaints the output. When the client asks for
sizes, and when the connection fails, is open.

`Screencopy`: the thread and its consumer run, and a live compositor answers a
request one way or the other. It is strongly fair that it offers an shm buffer
when asked again and again, and that memory for a buffer is to be had.
`NewestShapeSeen` has as a premise that the output stops changing and the
compositor stops failing frames; `EndReachesConsumer` has none.

`Injection`: the input task runs and the compositor reads what reached its
socket. Nothing is assumed of the person, the focus, or a flush, which is why
`KeysSettle` makes an exception of requests a connection still buffers.

`Trust`: each program that can take a step takes one; crashes, losses and dials
are not fair.

`Client`: both threads and the runtime's tasks run. `Present` is strongly fair:
a redraw of a good surface does not time out for ever. `TellViewport` is
strongly fair although the select prefers input: a person does not keep the
input queue non-empty for ever (hazard `network.rs:251`).

## 4. Proofs

Each `*_proofs` module proves `Spec => []IInv` for every value of the
constants, from the named assumption of its module and nothing else, by
`Init => IInv` and one step (or lemma) per action; TLC checks the same `IInv`
first. The properties follow from it. Where `IInv` is made in layers
(`StreamInv` in `VideoPipeline`, `TrustInv` in `Trust`, `SizeInv` in `Client`),
the layer is inductive by itself and proved first, and the rest on top of it.

* **SessionServer.** `MutualExclusion` and `BusyIffHeld` carry each other: a
  new holder finds `busy` clear, hence nobody holding. The session properties
  need `UnitSinceSpawn` (no unit before the spawn), `ChildInScope` (emptying
  the scope kills the child), `StoppedScope` (after `systemctl stop` only a
  scope it failed on has processes), `SignalTookUnit` and `DeadHoldsNothing`. `Refinement`
  shows that each step maps to a step of `OneSession` or a stutter: with one
  holder at most the `CHOOSE` in `HolderIn` is determined, admission is the
  `compare_exchange`, the end of a session is the death of the tracked child,
  and `Release` finds it dead by `SessionReaped`.
* **VideoPipeline.** `Decodable` is not inductive: it speaks of the oldest
  packet only. `StreamContinues` strengthens it: each packet follows the one
  before it, the oldest the decoder, and the encoder continues the newest or
  starts anew with a keyframe. `UnsentWhileSending` says when packets are
  unwritten, which `EncoderMatchesFrame` needs. `EncodableMode` rests on two
  lemmas: clamping lands in the range, and rounding stays in it because the
  upper limit is even. `AcceptedSizeTravels` names the place of the size last
  accepted: with the input task, last in the channel, in `swaymsg`, or set. The
  channel is a sequence of any length up to any capacity, and `TakeResize`
  takes its head, so the proof splits on whether that head was its last.
* **Screencopy.** What is queued is determined by how far the frame is and how
  much of its announcement the thread has heard: `Heard` lists the queues, and
  `InStep` ties the thread's place to the frame's stage. From them a copy finds
  the buffer just matched against the shape announced (`BuffersFit`), and
  `ready` is seen only after the whole copy and its flags (`FramesWhole`); and a
  thread that has heard everything is not left waiting (`AlwaysGoesOn`).
  `Refinement` maps `shot` to the shape announced; it is what `FrameWhole` and
  the reset of `pending` make true.
* **Injection.** Each event and request carries what is down after it, so that a
  queue is a chain: `WireLeads` and `RequestsLead` say that each element follows
  from the one before it, the first from what the far end has, and the last is
  what the near end had last. `KeysArrive` is the case of empty queues.
  `Announced` says that each key request is followed by the modifiers it leaves,
  `CountsInjected` that `xkb_state` has them, and `PressedOnce` that no modifier
  is pressed twice as long as no release was missed, which is the one thing
  `ModifiersAreExact` has to assume.
* **Trust.** `PairedByCode` needs `CeremonyProves` (the server's confirmation is
  in the stream of a client only if the client derived it, and the value of a
  client that did not is in no stream from the server), and that `store` and `cliStore`, the copies
  both writers will save, hold proved clients only. `SessionIsMutual` needs
  `WelcomeIsOfThisHandshake` and `OneHandled`: frames left from an earlier
  handshake are on no live connection. `Conversation` comes on top (`InPlace`):
  until the server answers, the stream in front of it holds what the client
  opened with, and a client that opened the ceremony cannot end it alone.
  `Answers` is its counterpart: on a live connection, what the server has said
  and the client has not read is fixed by the places of the two. Neither is
  enough for `NobodyStuck`, whose cases are the pairs of places: the server's
  side of each is `Conversation`, the client's `Answers`. `MisreadsExplained`
  looks at the head of each stream in front of the server.
* **Client.** "The viewport sent is the window's" (`ViewportIsView`) is about an
  empty event queue; `HalvesAreCurrent` says for any queue that the half with no
  pending event is right already, and that the last event of the other states its
  value. `EventsFindWindow` needs `WindowHasViewport`: the network thread waits
  for the first viewport. `FramesInOrder` says that texture, queued frames and
  the newest decoded are in ascending order and that the newest is among them,
  `EndTravels` that the end of the network side is shown or queued. `Idle` is the
  case of empty queues, and also takes what `SeenIsTold` says of the input task.
  `Forwards` is an action property: the only step that draws draws the texture,
  which `FramesInOrder` has between the frame drawn before and the newest.

Every invariant and action property of a passing run is proved, and both
refinements (`SessionServer` of `OneSession`, `Screencopy` of `FrameSource`). Only model-checked, because the prover cannot reason about
fairness, are the twelve liveness properties. Most have a safe half that is
proved, which says that what must arrive is never lost; fairness only has to
move it:

| liveness (model-checked) | what is proved of it |
|---|---|
| `AcceptedSizeApplies` | `NoSizeLost`: the size last accepted is at a known place until it is applied or `swaymsg` rejects it |
| `PictureFollowsOutput` | `StreamDecodable`, `FrameFitsEncoder`: what is on its way can be decoded, and has one size with the encoder |
| `InputResumes` | nothing but the bound of the channel in `TypeOK` |
| `HandshakeEnds` | `NobodyStuck`: one of the two ends can always go on |
| `LastViewportTold`, `NewestFrameShown`, `NetworkEndShown` | `Idle`: with nothing left to handle all three hold |
| `NewestShapeSeen`, `EndReachesConsumer` | `AlwaysGoesOn`: the capture thread does not wait for an event that nobody owes it |
| `KeysSettle` | `KeysArrive`: with nothing on the way, what is down is what was reported |
| `LostClientFreesSlot`, `StartReturns` | `SlotAccounted`: a slot that is busy has a handler to give it back, or one that panicked |

## 5. What the violation runs show

1. `lost_stream` (`main.rs:835`): a client that goes away while the video loop
   is in its select never frees the slot. The comment there says send failures
   will notice; nothing is ever sent again.
2. `signal_leak` (`main.rs:458`): SIGTERM during `start()` or `stop()` exits
   without stopping the scope.
3. `trailing_resize` (`main.rs:783`): a size within 250 ms of an accepted one is
   dropped, even if it is the last.
4. `revoked` (`main.rs:603`): a revocation during another client's ceremony is
   written over.
5. `interrupt` (`network.rs:87`): once the network side ended, Ctrl+C no longer
   ends the client.
6. `stuck_modifier` (`wlr_keyboard.rs:199`): a modifier released while another
   window has the focus, then pressed and released, stays told as held.

Met while modelling, and without a run: the comment on `stop_unit` (session
`lib.rs:371-374`) says that a failing `systemctl` means that nothing is running any
more; where it fails for another reason, on a live session, `child.wait()` at line
385 does not return and the slot stays taken; `render.rs:63-65` says a network error
ends the application, it only changes the title; a runtime that cannot be
created is only logged (`main.rs:94-99` of the client), which is why
`NetworkEndShown` speaks of `"ended"` and not of `"never"`; a minimised window
tells the server a size of zero; user events queue without bound while the
event loop is blocked; a redraw that times out is not asked for again, which
`skipped` records. The pointer's extents are set before the mode and stay when
setting it fails (`main.rs:790`), where `dragonvnc-input/src/lib.rs:21-26` has
them follow it. A connection lost within the ceremony leaves one side paired,
and later handshakes fail until a file is deleted, contrary to `main.rs:588-592`.
A `wlr-screencopy` manager of version 1 or 2 is bound (`screencopy.rs:156`) but
never sends the `buffer_done` that is waited for. The client forwards its
system's key repeats, though `wlr_keyboard.rs:29-31` speaks of discrete presses
and releases; `PLAN-headless-session.md:219-220` does too. Keys that are down
when the window loses the focus stay down on the server until they are pressed
and released again.

## 6. Not modelled

* Cryptography, TLS, certificates and the identity file: rustls, rcgen and spake2
  do them; the models start from what they promise.
* bincode and the framing of messages: data, with no state.
* The FFmpeg filter graph and the VideoToolbox framework: one call each, whose
  inside is not in this repository. Around them, size, delay, keyframes and
  replacement are modelled.
* `parse_nals`, `invert_rows`, coordinate scaling and clamping, the key table:
  functions of bytes or floating point, which a unit test reaches as well.
  `invert_rows` is modelled as far as whether it is applied (`Picture`).
* The test-pattern source, the passthrough codec, for which sizes are not
  clamped, and `--dump-raw`: tools for development.
* Frame rate cap, statistics, logging, timestamps.

## 7. Plan

Done, in order of importance: `OneSession` and `SessionServer`; `VideoPipeline`;
`Trust`; `Client`; `FrameSource` and `Screencopy`; `Injection`; their
invariants, the safe halves of their liveness properties, and the refinements of
the two abstract specifications.

What is left, and why it comes last:

1. A composition of `VideoPipeline` with the window of `Client` (the size told
   is the size drawn). The two meet in the control messages only, and the product
   of their states is beyond a run of minutes at bounds that show anything.
2. Further abstract specifications with their refinements proved: of the picture
   at the client (what was captured, in order, some of it skipped) above
   `VideoPipeline`, and of pairing (two sets that only the right code adds
   to) above `Trust`.
3. `parse_nals` against a reference definition of start codes, in a module
   without theorems.
