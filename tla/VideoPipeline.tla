---------------------------- MODULE VideoPipeline ----------------------------
(***************************************************************************)
(* One served connection while it streams: the input task and the video    *)
(* loop of handle_connection() (dragonvnc-server/src/main.rs), the resize  *)
(* channel between them, the encoder, the QUIC video stream and the        *)
(* client's decode loop (dragonvnc-client/src/network.rs), for             *)
(* --source session --codec vaapi-hevc, composed with module FrameSource,  *)
(* the output and the capture thread as next_frame() promises them. How    *)
(* frames are announced, copied and waited for is module Screencopy.       *)
(*                                                                         *)
(* A viewport is one of its two dimensions: width and height are clamped,  *)
(* rounded and compared alike. A frame is its size. A packet is the size   *)
(* its header states, the encoder instance it came from and its keyframe   *)
(* flag.                                                                   *)
(***************************************************************************)
EXTENDS Naturals, Sequences

CONSTANTS
  Sizes,      \* sizes the client's window may have
  MinSize,    \* vaapi::MIN_WIDTH, MIN_HEIGHT
  MaxSize,    \* vaapi::MAX_WIDTH, MAX_HEIGHT
  FixedMode,  \* the server was started with --mode
  ChanCap,    \* capacity of the resize channel (4 in the code)
  WireCap,    \* packets the flow-control window of the video stream admits
  Delay,      \* frames the encoder may hold before it must emit a packet
  MaxMsgs,    \* bound on the control messages the client sends
  Move        \* an input event on the control stream

ASSUME VideoAssumption ==
  /\ Sizes \subseteq Nat
  /\ MinSize \in Nat \ {0} /\ MaxSize \in Nat /\ MinSize <= MaxSize
  /\ MinSize % 2 = 0 /\ MaxSize % 2 = 0
  /\ FixedMode \in BOOLEAN
  /\ ChanCap \in Nat \ {0} /\ WireCap \in Nat \ {0} /\ Delay \in Nat /\ MaxMsgs \in Nat
  /\ Move \notin Nat

VARIABLES
  conn,       \* "open" or "lost"
  want,       \* the size the client asked for last
  sent,       \* control messages sent so far
  ctrl,       \* control messages not yet received
  itask,      \* the input task: "recv", "sending" into the channel, or "ended"
  held,       \* the viewport it is sending
  cooling,    \* last_resize is less than 250 ms ago
  extents,    \* the injector's pointer extents
  chan,       \* the resize channel
  mode,       \* the compositor's output mode
  inflight,   \* the frame the capture thread is reading, or None
  watch,      \* the unseen frame in the watch channel, or None
  over,       \* the source makes no more frames, or is dropped
  pending,    \* pending_frame: the first frame until the loop takes it, or None
  vtask,      \* the video loop: "select", "setmode", "send" or "ended"
  new,        \* the viewport being applied in "setmode"
  rejected,   \* the last swaymsg failed
  enc,        \* the encoder
  stream,     \* packets encoded and not yet decoded, oldest first
  unsent,     \* how many of the newest of them are not written yet
  dec         \* the client's decoder: size, and the instance whose keyframe it has

netVars == <<conn, want, sent>>
inputVars == <<itask, held, cooling, extents>>
cameraVars == <<mode, inflight, watch, over, pending>>
videoVars == <<vtask, new, rejected, enc, stream, unsent>>
vars == <<netVars, ctrl, inputVars, chan, cameraVars, videoVars, dec>>

None == 0      \* no frame, no decoder: no size is zero

-----------------------------------------------------------------------------
(* Geometry.                                                               *)

RoundUpToEven(v) == v + (v % 2)

Unclamped(v) == v           \* Mutant: clamp_viewport for a codec without a range

Clamp(v) ==
  IF v < MinSize THEN MinSize
  ELSE IF v > MaxSize THEN MaxSize
  ELSE v

\* Every size anything downstream of the clamp is built for.
InRange == MinSize..MaxSize

\* The frame source the loop reads.
Source == INSTANCE FrameSource WITH Shapes <- InRange, shot <- inflight, latest <- watch

Packet == [size : InRange, gen : Nat, key : BOOLEAN]

\* VaapiHevcEncoder: its size, which instance it is, whether it has emitted
\* nothing yet, and how many frames it holds.
Encoder == [size : InRange, gen : Nat, fresh : BOOLEAN, holds : 0..Delay]

TypeOK ==
  /\ conn \in {"open", "lost"}
  /\ want \in Nat
  /\ sent \in 0..MaxMsgs
  /\ ctrl \in Seq(Sizes \cup {Move})
  /\ itask \in {"recv", "sending", "ended"}
  /\ held \in InRange
  /\ cooling \in BOOLEAN
  /\ extents \in InRange
  /\ chan \in Seq(InRange) /\ Len(chan) <= ChanCap
  /\ mode \in InRange
  /\ inflight \in InRange \cup {None}
  /\ watch \in InRange \cup {None}
  /\ over \in BOOLEAN
  /\ pending \in InRange \cup {None}
  /\ vtask \in {"select", "setmode", "send", "ended"}
  /\ new \in InRange
  /\ rejected \in BOOLEAN
  /\ enc \in Encoder
  /\ stream \in Seq(Packet)
  /\ unsent \in 0..Len(stream)
  /\ dec \in [size : InRange \cup {None}, gen : Nat]

NewEncoder(size, gen) == [size |-> size, gen |-> gen, fresh |-> TRUE, holds |-> 0]

\* The session was started at the client's viewport, the first frame was
\* captured and everything was built for its size.
Init ==
  /\ \E v \in Sizes :
       /\ want = v
       /\ mode = RoundUpToEven(Clamp(v))
  /\ conn = "open" /\ sent = 0 /\ ctrl = <<>>
  /\ itask = "recv" /\ held = mode /\ cooling = FALSE /\ extents = mode
  /\ chan = <<>> /\ inflight = None /\ watch = None /\ over = FALSE /\ pending = mode
  /\ vtask = "select" /\ new = mode /\ rejected = FALSE /\ enc = NewEncoder(mode, 1)
  /\ stream = <<>> /\ unsent = 0
  /\ dec = [size |-> None, gen |-> 0]

-----------------------------------------------------------------------------
(* The client's control messages and the network.                          *)

Tell(msg) ==
  /\ conn = "open"
  /\ sent < MaxMsgs
  /\ sent' = sent + 1
  /\ ctrl' = Append(ctrl, msg)
  /\ UNCHANGED <<conn, inputVars, chan, cameraVars, videoVars, dec>>

\* changed() fires for every new value of the viewport channel: the size told
\* may be the one told last, as when only the other dimension changed.
RequestMode(v) == Tell(v) /\ want' = v

SendInput == Tell(Move) /\ UNCHANGED want

\* The connection goes, and with it the client's decoder and what was on its
\* way there. Control messages that arrived can still be read.
Lose ==
  /\ conn = "open"
  /\ conn' = "lost"
  /\ stream' = <<>>
  /\ unsent' = 0
  /\ dec' = [size |-> None, gen |-> 0]
  /\ UNCHANGED <<want, sent, ctrl, inputVars, chan, cameraVars, vtask, new, rejected, enc>>

-----------------------------------------------------------------------------
(* The input task.                                                         *)

Receive(msg) ==
  /\ itask = "recv"
  /\ ctrl # <<>> /\ Head(ctrl) = msg
  /\ ctrl' = Tail(ctrl)

Inject ==
  /\ Receive(Move)
  /\ UNCHANGED <<netVars, inputVars, chan, cameraVars, videoVars, dec>>

\* The server has a fixed mode, or accepted another request just now.
IgnoreRequest ==
  /\ FixedMode \/ cooling
  /\ \E v \in Sizes : Receive(v)
  /\ UNCHANGED <<netVars, inputVars, chan, cameraVars, videoVars, dec>>

\* set_extents comes before the send, which waits while the channel is full.
AcceptRequest ==
  /\ ~FixedMode /\ ~cooling
  /\ \E v \in Sizes :
       /\ Receive(v)
       /\ extents' = Clamp(v)
       /\ held' = Clamp(v)
  /\ cooling' = TRUE
  /\ itask' = "sending"
  /\ UNCHANGED <<netVars, chan, cameraVars, videoVars, dec>>

SendResizeLatestOnly ==      \* Mutant: try_send, dropping the request when full
  /\ itask = "sending" /\ vtask # "ended"
  /\ chan' = IF Len(chan) < ChanCap THEN Append(chan, held) ELSE chan
  /\ itask' = "recv"
  /\ UNCHANGED <<netVars, ctrl, held, cooling, extents, cameraVars, videoVars, dec>>

SendResize ==
  /\ itask = "sending" /\ vtask # "ended"
  /\ Len(chan) < ChanCap
  /\ chan' = Append(chan, held)
  /\ itask' = "recv"
  /\ UNCHANGED <<netVars, ctrl, held, cooling, extents, cameraVars, videoVars, dec>>

\* The video task and its receiver are gone, or the control stream ended.
InputEnds ==
  /\ \/ itask = "sending" /\ vtask = "ended"
     \/ itask = "recv" /\ conn = "lost"
  /\ itask' = "ended"
  /\ UNCHANGED <<netVars, ctrl, held, cooling, extents, chan, cameraVars, videoVars, dec>>

\* 250 ms pass.
CoolDown ==
  /\ cooling
  /\ cooling' = FALSE
  /\ UNCHANGED <<netVars, ctrl, itask, held, extents, chan, cameraVars, videoVars, dec>>

-----------------------------------------------------------------------------
(* The frame source: the capture thread asks for a frame, which has the    *)
(* size the output has then, and publishes it some time later over         *)
(* whatever is unseen.                                                     *)

CaptureOutput ==
  /\ Source!Shoot
  /\ UNCHANGED <<netVars, ctrl, inputVars, chan, pending, videoVars, dec>>

FrameReady ==
  /\ Source!Publish
  /\ UNCHANGED <<netVars, ctrl, inputVars, chan, pending, videoVars, dec>>

\* The compositor reports a failure, as it does when the mode changed.
FrameFailed ==
  /\ inflight # None /\ Source!Drop
  /\ UNCHANGED <<netVars, ctrl, inputVars, chan, pending, videoVars, dec>>

\* The compositor dies, or the capture thread ends by itself.
SourceEnds ==
  /\ ~over /\ Source!End
  /\ UNCHANGED <<netVars, ctrl, inputVars, chan, pending, videoVars, dec>>

-----------------------------------------------------------------------------
(* The video loop.                                                         *)

\* next_frame(): the first frame, then whatever the watch channel holds.
NextFrame == IF pending # None THEN pending ELSE watch

TakeResizeWhenIdle ==       \* Mutant: frames come first in the biased select
  /\ vtask = "select"
  /\ chan # <<>> /\ NextFrame = None
  /\ vtask' = "setmode"
  /\ new' = Head(chan)
  /\ chan' = Tail(chan)
  /\ UNCHANGED <<netVars, ctrl, inputVars, cameraVars, rejected, enc, stream, unsent, dec>>

TakeResize ==
  /\ vtask = "select"
  /\ chan # <<>>
  /\ vtask' = "setmode"
  /\ new' = Head(chan)
  /\ chan' = Tail(chan)
  /\ UNCHANGED <<netVars, ctrl, inputVars, cameraVars, rejected, enc, stream, unsent, dec>>

\* swaymsg sets the rounded mode; the encoder is rebuilt for the size asked
\* for, or the old one kept when that fails.
SetMode ==
  /\ vtask = "setmode"
  /\ rejected' = FALSE
  /\ Source!ResizeTo(RoundUpToEven(new))
  /\ enc' \in {enc, NewEncoder(new, enc.gen + 1)}
  /\ vtask' = "select"
  /\ UNCHANGED <<netVars, ctrl, inputVars, chan, pending, new, stream, unsent, dec>>

SetModeFails ==
  /\ vtask = "setmode"
  /\ rejected' = TRUE
  /\ vtask' = "select"
  /\ UNCHANGED <<netVars, ctrl, inputVars, chan, cameraVars, new, enc, stream, unsent, dec>>

KeepEncoder(f) == enc       \* Mutant: the encoder follows RequestMode alone

\* The encoder that frame f is given to.
EncoderFor(f) == IF f = enc.size THEN enc ELSE NewEncoder(f, enc.gen + 1)

LateKeyframe(f, e, n) ==    \* Mutant: a new encoder need not start with a keyframe
  {[i \in 1..n |-> [size |-> f, gen |-> e.gen, key |-> FALSE]]}

\* What n packets out of encoder e look like: headers state the size of f,
\* the frame just given to it, and the first packet it ever emits is a
\* keyframe.
Packets(f, e, n) ==
  {ps \in [1..n -> [size : {f}, gen : {e.gen}, key : BOOLEAN]] :
     e.fresh /\ n > 0 => ps[1].key}

\* The select is biased: a frame is taken only when no resize is waiting and
\* the input task lives (without it the loop spins on the closed channel).
\* From the frame to its packets nothing is awaited.
TakeFrame ==
  /\ vtask = "select"
  /\ chan = <<>> /\ itask # "ended"
  /\ NextFrame # None
  /\ LET e == EncoderFor(NextFrame) IN
     \E n \in 0..(e.holds + 1) :
       /\ e.holds + 1 - n <= Delay
       /\ enc' = [e EXCEPT !.fresh = @ /\ (n = 0), !.holds = @ + 1 - n]
       /\ \E ps \in Packets(NextFrame, e, n) : stream' = stream \o ps
       /\ unsent' = n
       /\ vtask' = IF n = 0 THEN "select" ELSE "send"
  /\ \/ pending # None /\ pending' = None /\ UNCHANGED <<mode, inflight, watch, over>>
     \/ pending = None /\ UNCHANGED pending /\ Source!Take
  /\ UNCHANGED <<netVars, ctrl, inputVars, chan, new, rejected, dec>>

\* The loop is left: what it owns, the receiver of the resize channel and the
\* source, is dropped.
VideoEnds ==
  /\ vtask' = "ended"
  /\ chan' = <<>>
  /\ inflight' = None /\ watch' = None /\ over' = TRUE /\ pending' = None
  /\ UNCHANGED <<netVars, ctrl, held, cooling, extents, mode, new, rejected, enc, stream, unsent, dec>>

\* `?` on make_encoder or encode leaves the block at once: nothing aborts the
\* input task.
FrameFails ==
  /\ vtask = "select"
  /\ chan = <<>> /\ itask # "ended"
  /\ NextFrame # None
  /\ VideoEnds
  /\ UNCHANGED itask

\* next_frame() gives None: `break 'outer`, which aborts the input task.
EndOfFrames ==
  /\ vtask = "select"
  /\ chan = <<>> /\ itask # "ended"
  /\ over /\ NextFrame = None
  /\ VideoEnds
  /\ itask' = "ended"

SendPacket ==
  /\ vtask = "send"
  /\ conn = "open"
  /\ unsent > 0 /\ Len(stream) - unsent < WireCap
  /\ unsent' = unsent - 1
  /\ vtask' = IF unsent = 1 THEN "select" ELSE "send"
  /\ UNCHANGED <<netVars, ctrl, inputVars, chan, cameraVars, new, rejected, enc, stream, dec>>

\* `break 'outer`, which also aborts the input task.
SendFails ==
  /\ vtask = "send"
  /\ conn = "lost"
  /\ VideoEnds
  /\ itask' = "ended"

-----------------------------------------------------------------------------
(* The client's decode loop.                                               *)

FirstSizeOnly(p) ==         \* Mutant: the decoder is only ever built once
  [size |-> IF dec.size = None THEN p.size ELSE dec.size,
   gen  |-> IF p.key THEN p.gen ELSE dec.gen]

\* VideoToolboxDecoder::new(): of one size for good, and without a session.
NewDecoder(size) == [size |-> size, gen |-> 0]

\* decode(): a decoder's first packet makes its session, from the parameter
\* sets of a keyframe; a keyframe lets it follow the encoder it came from.
DecodedBy(d, p) == [d EXCEPT !.gen = IF p.key THEN p.gen ELSE @]

\* A decoder built for another size is replaced.
Decoded(p) == DecodedBy(IF dec.size = p.size THEN dec ELSE NewDecoder(p.size), p)

Decode ==
  /\ conn = "open"
  /\ Len(stream) > unsent
  /\ dec' = Decoded(Head(stream))
  /\ stream' = Tail(stream)
  /\ UNCHANGED <<netVars, ctrl, inputVars, chan, cameraVars, vtask, new, rejected, enc, unsent>>

-----------------------------------------------------------------------------
Next ==
  \/ \E v \in Sizes : RequestMode(v)
  \/ SendInput \/ Lose
  \/ Inject \/ IgnoreRequest \/ AcceptRequest \/ SendResize \/ InputEnds \/ CoolDown
  \/ CaptureOutput \/ FrameReady \/ FrameFailed \/ SourceEnds
  \/ TakeResize \/ SetMode \/ SetModeFails
  \/ TakeFrame \/ FrameFails \/ EndOfFrames \/ SendPacket \/ SendFails
  \/ Decode

Spec == Init /\ [][Next]_vars

\* Tasks and threads that can run do run, swaymsg returns, a compositor that
\* is asked for a frame delivers one in the end, and a connected client reads
\* its video. When the client asks and when the connection fails is open.
Fairness ==
  /\ WF_vars(Inject \/ IgnoreRequest \/ AcceptRequest)
  /\ WF_vars(SendResize) /\ WF_vars(InputEnds) /\ WF_vars(CoolDown)
  /\ WF_vars(CaptureOutput) /\ SF_vars(FrameReady)
  /\ WF_vars(TakeResize) /\ WF_vars(SetMode \/ SetModeFails)
  /\ WF_vars(TakeFrame) /\ WF_vars(EndOfFrames) /\ WF_vars(SendPacket) /\ WF_vars(SendFails)
  /\ WF_vars(Decode)

FairSpec == Spec /\ Fairness

-----------------------------------------------------------------------------
(* Safety.                                                                 *)

\* The encoder is never handed a frame it was not built for: while packets
\* are being written they and the encoder have one size. Two pipelines that
\* know nothing of each other, resizing and capture, decide that size.
EncoderMatchesFrame ==
  vtask = "send" =>
    \A i \in 1..Len(stream) : i > Len(stream) - unsent => stream[i].size = enc.size

\* Whatever was asked for, the output's mode and the encoder stay within what
\* the hardware encodes, and the mode is even, as NV12 needs: clamping comes
\* before rounding and the upper limit is even.
EncodableMode == {mode, enc.size} \subseteq InRange /\ mode % 2 = 0

\* p can be decoded by a decoder of that size that has the keyframe of gen.
Follows(p, size, gen) == p.key \/ (p.size = size /\ p.gen = gen)

\* The client never decodes a packet whose keyframe it has not decoded with
\* the same decoder: server and client replace theirs, each by its own rule,
\* at the same packet of the stream.
Decodable ==
  conn = "open" /\ stream # <<>> => Follows(Head(stream), dec.size, dec.gen)

\* Every packet follows the one before it, the oldest follows the decoder,
\* and the encoder continues the newest.
StreamContinues ==
  conn = "open" =>
    /\ \A i \in 1..Len(stream) - 1 : Follows(stream[i + 1], stream[i].size, stream[i].gen)
    /\ \/ enc.fresh
       \/ stream = <<>> /\ dec.size = enc.size /\ dec.gen = enc.gen
       \/ stream # <<>> /\ stream[Len(stream)].size = enc.size
                        /\ stream[Len(stream)].gen = enc.gen

\* Unwritten packets exist only while the loop is writing them.
UnsentWhileSending ==
  /\ vtask \in {"select", "setmode"} => unsent = 0
  /\ vtask = "send" /\ conn = "open" => unsent > 0

\* A size the server accepted is never lost on its way to the output: the last
\* one is with the input task, at the end of the resize channel, being applied
\* or applied, unless swaymsg failed, however the two tasks take turns and
\* wherever the loop was when it came.
AcceptedSizeTravels ==
  vtask # "ended" =>
    IF itask = "sending" THEN held = extents
    ELSE IF chan # <<>> THEN chan[Len(chan)] = extents
    ELSE IF vtask = "setmode" THEN new = extents
    ELSE mode = RoundUpToEven(extents) \/ rejected

\* What is said of sizes, stream, encoder and decoder is inductive by itself.
StreamInv ==
  /\ TypeOK
  /\ EncoderMatchesFrame
  /\ EncodableMode
  /\ Decodable
  /\ StreamContinues
  /\ UnsentWhileSending

IInv == StreamInv /\ AcceptedSizeTravels

-----------------------------------------------------------------------------
(* Liveness, under Fairness.                                               *)

Over == conn = "lost" \/ vtask = "ended"

\* Once the client asks for nothing more, the output has the size of the
\* last request the server accepted, whatever order requests, frames and slow
\* sends came in.
AcceptedSizeApplies ==
  <>[](mode = RoundUpToEven(extents) \/ rejected \/ Over)

\* And the client's picture has the size of an output that is alive: where the
\* source ends, the stream does too, whatever resizes, frames and packets are
\* still before the end.
PictureFollowsOutput == <>[]((dec.size = mode /\ ~over) \/ Over)

\* The input task gets past a full resize channel: the two tasks never wait
\* for each other.
InputResumes == itask = "sending" ~> (itask # "sending" \/ Over)

\* PLAN-headless-session.md:15: "on every resize; server applies it". A
\* request that arrives within 250 ms of an accepted one is dropped, and the
\* client, whose window has its final size, sends no other.
LastSizeApplies == <>[](mode = RoundUpToEven(Clamp(want)) \/ rejected \/ Over)
=============================================================================
