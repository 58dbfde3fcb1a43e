-------------------------- MODULE Screencopy_proofs --------------------------
(***************************************************************************)
(* Proofs about Screencopy, for any shapes and any set of supported ones:  *)
(* buffers fit, frames are whole, and thread, compositor and buffer        *)
(* together are a FrameSource.                                             *)
(***************************************************************************)
EXTENDS Screencopy, SequenceTheorems, TLAPS

USE ScreencopyAssumption DEF ScreencopyAssumption, compVars, threadVars, watchVars

-----------------------------------------------------------------------------
(* The queues of at most three events that Heard knows.                      *)

\* A second event is put behind the first.
LEMMA AppendSecond ==
  ASSUME NEW a, NEW b PROVE Append(<<a>>, b) = <<a, b>>
<1> DEFINE S == {a, b}
           s == Append(<<a>>, b)
           t == <<a, b>>
<1>1. s \in Seq(S) /\ t \in Seq(S)
  OBVIOUS
<1>2. Len(s) = 2 /\ Len(t) = 2 /\ s[1] = t[1] /\ s[2] = t[2]
  OBVIOUS
<1> HIDE DEF S, s, t
<1>3. \A i \in 1..Len(s) : s[i] = t[i]
  BY <1>2
<1>4. s = t
  BY <1>1, <1>2, <1>3, SeqEqual
<1> QED
  BY <1>4 DEF s, t

\* A third event is put behind the two.
LEMMA AppendThird ==
  ASSUME NEW a, NEW b, NEW d PROVE Append(<<a, b>>, d) = <<a, b, d>>
<1> DEFINE S == {a, b, d}
           s == Append(<<a, b>>, d)
           t == <<a, b, d>>
<1>1. s \in Seq(S) /\ t \in Seq(S)
  OBVIOUS
<1>2. Len(s) = 3 /\ Len(t) = 3 /\ s[1] = t[1] /\ s[2] = t[2] /\ s[3] = t[3]
  OBVIOUS
<1> HIDE DEF S, s, t
<1>3. \A i \in 1..Len(s) : s[i] = t[i]
  BY <1>2
<1>4. s = t
  BY <1>1, <1>2, <1>3, SeqEqual
<1> QED
  BY <1>4 DEF s, t

\* What the thread takes from a queue and what it leaves there.
LEMMA ShortQueues ==
  ASSUME NEW a, NEW b, NEW d
  PROVE  /\ Append(<<>>, a) = <<a>>
         /\ Head(<<a>>) = a /\ Head(<<a, b>>) = a /\ Head(<<a, b, d>>) = a
         /\ Tail(<<a>>) = <<>> /\ Tail(<<a, b>>) = <<b>> /\ Tail(<<a, b, d>>) = <<b, d>>
  OBVIOUS

\* Every event is one of the frame's kinds.
LEMMA EventTypes ==
  /\ \A k \in Kinds : Event(k) \in FrameEvent /\ Event(k).kind = k
  /\ \A s \in Shapes \cup {None} :
       /\ BufferEvent(s) \in FrameEvent
       /\ BufferEvent(s).kind = "buffer" /\ BufferEvent(s).shape = s
<1>1. \A k \in Kinds : Event(k) \in FrameEvent /\ Event(k).kind = k
  BY DEF Event, FrameEvent
<1>2. \A s \in Shapes \cup {None} : BufferEvent(s) \in FrameEvent
  BY DEF BufferEvent, FrameEvent, Kinds
<1>3. \A s \in Shapes \cup {None} : BufferEvent(s).kind = "buffer" /\ BufferEvent(s).shape = s
  BY DEF BufferEvent
<1> QED
  BY <1>1, <1>2, <1>3

-----------------------------------------------------------------------------
(* The inductive invariant.                                                  *)

\* The thread starts without a frame, a buffer or an event.
LEMMA InitIInv == Init => IInv
  BY DEF Init, IInv, TypeOK, BufferFits, FrameWhole, Heard, InStep, NoFrame, Default, Stages,
         PendingFrame

\* The compositor's steps.
LEMMA CompositorKeepsIInv ==
  ASSUME IInv,
         \/ OutputChanges \/ Fails \/ BeginCopy \/ CompositorDies
         \/ \E offer \in {output, None} : Announce(offer)
         \/ \E inverted \in BOOLEAN : FinishCopy(inverted)
  PROVE  IInv'
<1> USE DEF IInv, BufferFits, FrameWhole
<1>1. CASE OutputChanges \/ CompositorDies
  BY <1>1 DEF OutputChanges, CompositorDies, TypeOK, Heard, InStep, Untold, Shaped, Told, LeftOfFailure, LeftOfSuccess
<1>2. CASE Fails
  <2>1. PICK from \in {"requested", "announced", "tocopy", "writing"} : Fail(from)
    BY <1>2 DEF Fails
  <2>2. TypeOK'
    BY <2>1, EventTypes DEF Fail, Advances, TypeOK, Stages, Kinds
  <2>3. BufferFits' /\ FrameWhole'
    BY <2>1 DEF Fail, Advances, TypeOK
  <2>4. LeftOfFailure' /\ ~pending'.ready /\ frame'.stage = "done"
    <3> USE DEF Fail, Advances, TypeOK, Heard, LeftOfFailure, Untold, Shaped, Told
    <3>1. CASE frame.stage = "requested"
      <4>1. events = <<>> /\ Untold /\ ~pending.failed /\ ~pending.ready
        BY <3>1 DEF Default
      <4> QED
        BY <2>1, <3>1, <4>1, ShortQueues
    <3>2. CASE frame.stage = "announced"
      <4>1. ~pending'.failed /\ ~pending'.ready /\ frame'.stage = "done" /\ frame'.shape = frame.shape
        BY <2>1, <3>2
      <4>2. \/ Untold' /\ events' = <<BufferEvent(frame'.shape), Event("buffer_done"), Event("failed")>>
            \/ Shaped' /\ events' = <<Event("buffer_done"), Event("failed")>>
            \/ Told' /\ events' = <<Event("failed")>>
        <5>1. CASE Untold /\ events = <<BufferEvent(frame.shape), Event("buffer_done")>>
          BY <2>1, <4>1, <5>1, AppendThird
        <5>2. CASE Shaped /\ events = <<Event("buffer_done")>>
          BY <2>1, <4>1, <5>2, AppendSecond
        <5>3. CASE Told /\ events = <<>>
          BY <2>1, <4>1, <5>3, ShortQueues
        <5> QED
          BY <3>2, <5>1, <5>2, <5>3
      <4> QED
        BY <4>1, <4>2
    <3>3. CASE frame.stage \in {"tocopy", "writing"}
      BY <2>1, <3>3, ShortQueues
    <3> QED
      BY <2>1, <3>1, <3>2, <3>3
  <2>5. Heard'
    BY <2>4 DEF Heard
  <2>6. InStep'
    BY <2>1, <2>4 DEF InStep, Fail, Advances
  <2> QED
    BY <2>2, <2>3, <2>5, <2>6
<1>3. CASE BeginCopy
  <2>1. TypeOK' /\ BufferFits' /\ FrameWhole'
    BY <1>3 DEF BeginCopy, TypeOK, Stages
  <2>2. Heard' /\ InStep'
    BY <1>3 DEF BeginCopy, TypeOK, Heard, InStep, Untold, Shaped, Told
  <2> QED
    BY <2>1, <2>2
<1>4. CASE \E offer \in {output, None} : Announce(offer)
  <2>1. PICK offer \in {output, None} : Announce(offer)
    BY <1>4
  <2>a. Event("buffer_done") \in FrameEvent /\ BufferEvent(offer) \in FrameEvent
    BY EventTypes DEF Kinds, TypeOK
  <2>b. events' \in Seq(FrameEvent)
    BY <2>1, <2>a DEF Announce
  <2>2. TypeOK' /\ BufferFits' /\ FrameWhole'
    BY <2>1, <2>b DEF Announce, TypeOK, Stages
  <2>3. Heard'
    BY <2>1 DEF Announce, TypeOK, Heard, Untold, Shaped, Told, Default
  <2>4. InStep'
    BY <2>1 DEF Announce, TypeOK, InStep
  <2> QED
    BY <2>2, <2>3, <2>4
<1>5. CASE \E inverted \in BOOLEAN : FinishCopy(inverted)
  <2>1. PICK inverted \in BOOLEAN : FinishCopy(inverted)
    BY <1>5
  <2>2. FlagsEvent(inverted) \in FrameEvent
    BY EventTypes DEF FlagsEvent, Kinds
  <2>3. TypeOK' /\ BufferFits' /\ FrameWhole'
    BY <2>1, <2>2, EventTypes DEF FinishCopy, Advances, TypeOK, Stages, Kinds
  <2>4. Heard'
    BY <2>1 DEF FinishCopy, Advances, TypeOK, Heard, LeftOfSuccess, Untold, Shaped, Told
  <2>5. InStep'
    BY <2>1 DEF FinishCopy, Advances, TypeOK, InStep
  <2> QED
    BY <2>3, <2>4, <2>5
<1> QED
  BY <1>1, <1>2, <1>3, <1>4, <1>5

\* A dispatched event is the next of those Heard allows.
LEMMA DispatchKeepsIInv == ASSUME IInv, Dispatch PROVE IInv'
<1> USE DEF IInv, BufferFits, FrameWhole, Dispatch
<1>1. Head(events) \in FrameEvent /\ Tail(events) \in Seq(FrameEvent)
  BY DEF TypeOK
<1>2. pending' \in PendingFrame
  BY <1>1 DEF Handled, FrameEvent, Kinds, PendingFrame, TypeOK
<1>3. TypeOK' /\ BufferFits' /\ FrameWhole'
  BY <1>1, <1>2 DEF TypeOK
<1>4. Heard' /\ InStep'
  <2> USE EventTypes, ShortQueues DEF Kinds, Handled, Untold, Shaped, Told, TypeOK, PendingFrame
  <2>1. CASE frame.stage = "announced"
    <3>1. CASE Untold /\ events = <<BufferEvent(frame.shape), Event("buffer_done")>>
      <4>1. pending' = [pending EXCEPT !.shape = frame.shape] /\ events' = <<Event("buffer_done")>>
        BY <3>1
      <4> QED
        BY <2>1, <3>1, <4>1 DEF Heard, InStep
    <3>2. CASE Shaped /\ events = <<Event("buffer_done")>>
      <4>1. pending' = [pending EXCEPT !.buffer_done = TRUE] /\ events' = <<>>
        BY <3>2
      <4> QED
        BY <2>1, <3>2, <4>1 DEF Heard, InStep
    <3> QED
      BY <2>1, <3>1, <3>2 DEF Heard
  <2>2. CASE frame.stage = "done" /\ LeftOfFailure /\ ~pending.ready
    <3>1. CASE Untold /\ events = <<BufferEvent(frame.shape), Event("buffer_done"), Event("failed")>>
      <4>1. /\ pending' = [pending EXCEPT !.shape = frame.shape]
            /\ events' = <<Event("buffer_done"), Event("failed")>>
        BY <3>1
      <4>2. LeftOfFailure' /\ ~pending'.ready
        BY <2>2, <3>1, <4>1 DEF LeftOfFailure
      <4> QED
        BY <2>2, <3>1, <4>1, <4>2 DEF Heard, InStep
    <3>2. CASE Shaped /\ events = <<Event("buffer_done"), Event("failed")>>
      <4>1. pending' = [pending EXCEPT !.buffer_done = TRUE] /\ events' = <<Event("failed")>>
        BY <3>2
      <4>2. LeftOfFailure' /\ ~pending'.ready
        BY <2>2, <3>2, <4>1 DEF LeftOfFailure
      <4> QED
        BY <2>2, <3>2, <4>1, <4>2 DEF Heard, InStep
    <3>3. CASE events = <<Event("failed")>>
      <4>1. pending' = [pending EXCEPT !.failed = TRUE] /\ events' = <<>>
        BY <3>3
      <4>2. LeftOfFailure' /\ ~pending'.ready
        BY <2>2, <4>1 DEF LeftOfFailure
      <4> QED
        BY <2>2, <3>3, <4>1, <4>2 DEF Heard, InStep
    <3> QED
      BY <2>2, <3>1, <3>2, <3>3 DEF LeftOfFailure
  <2>3. CASE frame.stage = "done" /\ LeftOfSuccess
    <3>1. CASE events = <<FlagsEvent(mem.inverted), Event("ready")>>
      <4>1. Head(events) = FlagsEvent(mem.inverted) /\ events' = <<Event("ready")>>
        BY <3>1
      <4>2. FlagsEvent(mem.inverted).kind = IF mem.inverted THEN "inverted" ELSE "upright"
        BY DEF FlagsEvent
      <4>3. pending' = [pending EXCEPT !.y_invert = mem.inverted]
        BY <4>1, <4>2
      <4>4. ~pending.ready
        BY <2>3, <3>1 DEF LeftOfSuccess
      <4>5. LeftOfSuccess' /\ ~pending'.ready
        BY <2>3, <4>1, <4>3, <4>4 DEF LeftOfSuccess
      <4>6. pc = "copying"
        BY <2>3, <3>1 DEF InStep, LeftOfFailure
      <4> QED
        BY <2>3, <4>3, <4>5, <4>6 DEF Heard, InStep
    <3>2. CASE events = <<Event("ready")>>
      <4>1. pending' = [pending EXCEPT !.ready = TRUE] /\ events' = <<>>
        BY <3>2
      <4> QED
        BY <2>3, <3>2, <4>1 DEF Heard, InStep, LeftOfSuccess, LeftOfFailure
    <3> QED
      BY <2>3, <3>1, <3>2 DEF LeftOfSuccess
  <2> QED
    BY <2>1, <2>2, <2>3 DEF Heard, InStep, TypeOK, Stages
<1> QED
  BY <1>3, <1>4

\* The other steps of the thread, and the consumer's.
LEMMA ThreadKeepsIInv ==
  ASSUME IInv,
         \/ Bind \/ BindFails \/ CaptureOutput \/ DispatchFails
         \/ DropUncopied \/ Copy \/ DropFailed \/ Publish
         \/ NextFrame \/ SourceEnds \/ DropSource
  PROVE  IInv'
<1> USE DEF IInv, BufferFits, FrameWhole, TypeOK, InStep, Stages
<1>1. CASE Bind
  BY <1>1 DEF Bind, Heard, Untold, Shaped, Told, LeftOfFailure, LeftOfSuccess
<1>0. NoFrame \in [stage : Stages, shape : Shapes \cup {None}] /\ NoFrame.stage = "none"
  BY DEF NoFrame
<1>a. <<>> \in Seq(FrameEvent)
  OBVIOUS
<1>2. CASE BindFails \/ DispatchFails
  BY <1>0, <1>a, <1>2 DEF BindFails, DispatchFails, ThreadEnds, Heard, NoFrame
<1>3. CASE CaptureOutput
  BY <1>3 DEF CaptureOutput, Heard, Default, PendingFrame
<1>4. CASE DropUncopied \/ DropFailed
  BY <1>0, <1>a, <1>4 DEF DropUncopied, DropFailed, NextRequest, Heard, NoFrame
<1>5. CASE Copy
  <2> USE DEF Copy
  <2>1. pending.shape = frame.shape
    BY <1>5 DEF Heard, Untold, Shaped, Told, LeftOfFailure, Default
  <2>2. buffer' = frame.shape
    BY <1>5, <2>1 DEF Matches
  <2>3. CASE frame.stage = "announced"
    <3>1. Told /\ events = <<>> /\ ~pending.failed /\ ~pending.ready
      BY <1>5, <2>3 DEF Heard, Untold, Shaped, Told
    <3> QED
      BY <1>5, <2>1, <2>2, <2>3, <3>1 DEF Heard, Told
  <2>4. CASE frame.stage = "done" /\ LeftOfFailure /\ ~pending.ready
    <3>1. frame' = frame /\ LeftOfFailure' /\ ~pending'.ready
      BY <1>5, <2>4 DEF LeftOfFailure, Untold, Shaped, Told
    <3> QED
      BY <1>5, <2>1, <2>2, <2>4, <3>1 DEF Heard
  <2> QED
    BY <1>5, <2>3, <2>4 DEF Heard, Default
<1>6. CASE Publish
  <2>1. Picture # Garbage
    BY <1>6 DEF Publish, Picture, Heard, LeftOfSuccess
  <2> QED
    BY <1>0, <1>a, <1>6, <2>1 DEF Publish, NextRequest, Heard, Picture, NoFrame
<1>7. CASE NextFrame \/ SourceEnds \/ DropSource
  BY <1>7 DEF NextFrame, SourceEnds, DropSource, Heard, Untold, Shaped, Told, LeftOfFailure, LeftOfSuccess
<1> QED
  BY <1>1, <1>2, <1>3, <1>4, <1>5, <1>6, <1>7

\* Every step keeps the invariant.
LEMMA NextIInv == IInv /\ [Next]_vars => IInv'
<1> SUFFICES ASSUME IInv, [Next]_vars PROVE IInv'
  OBVIOUS
<1>1. CASE UNCHANGED vars
  BY <1>1 DEF vars, IInv, TypeOK, BufferFits, FrameWhole, Heard, InStep, Untold, Shaped, Told,
              LeftOfFailure, LeftOfSuccess
<1>2. CASE Next
  BY <1>2, CompositorKeepsIInv, DispatchKeepsIInv, ThreadKeepsIInv DEF Next
<1> QED
  BY <1>1, <1>2

\* Thread and compositor agree on how far a frame is, and on its shape.
THEOREM Safety == Spec => []IInv
  BY InitIInv, NextIInv, PTL DEF Spec

\* No resize makes the thread hand over a buffer the compositor refuses.
THEOREM BuffersFit == Spec => []BufferFits
<1>1. IInv => BufferFits
  BY DEF IInv
<1> QED
  BY <1>1, Safety, PTL

\* The consumer never gets a frame that is not what its FrameInfo states.
THEOREM FramesWhole == Spec => []FrameWhole
<1>1. IInv => FrameWhole
  BY DEF IInv
<1> QED
  BY <1>1, Safety, PTL

\* The thread never waits for an event that is not going to come while the
\* compositor lives. This is the safe half of NewestShapeSeen.
THEOREM AlwaysGoesOn == Spec => []NeverStuck
<1>1. IInv => NeverStuck
  <2> SUFFICES ASSUME IInv, comp = "up", pc \in {"asked", "copying"}, events = <<>>,
                      frame.stage \notin {"requested", "tocopy", "writing"}, ~pending.failed
               PROVE  IF pc = "asked" THEN pending.buffer_done ELSE pending.ready
    BY DEF NeverStuck
  <2>1. frame.stage \in {"announced", "done"}
    BY DEF IInv, TypeOK, Stages, InStep
  <2>2. CASE frame.stage = "announced"
    <3>1. Told /\ pc = "asked"
      BY <2>2 DEF IInv, Heard, InStep
    <3> QED
      BY <3>1 DEF Told
  <2>3. CASE frame.stage = "done"
    <3>1. ~LeftOfFailure
      BY DEF LeftOfFailure
    <3>2. LeftOfSuccess /\ pc = "copying"
      BY <2>3, <3>1 DEF IInv, Heard, InStep
    <3> QED
      BY <3>2 DEF LeftOfSuccess
  <2> QED
    BY <2>1, <2>2, <2>3
<1> QED
  BY <1>1, Safety, PTL

-----------------------------------------------------------------------------
(* The frame source.                                                         *)

\* What a frame in the channel shows is the shape the compositor announced.
LEMMA PublishedShape ==
  ASSUME IInv, Publish, consumer # "dropped"
  PROVE  latest' = frame.shape /\ frame.shape # None
<1>1. frame.stage = "done" /\ LeftOfSuccess
  BY DEF IInv, Heard, InStep, Publish
<1>2. Picture = frame.shape
  BY <1>1 DEF IInv, InStep, Publish, LeftOfSuccess, Picture
<1>3. frame.shape \in Supported
  BY DEF IInv, InStep, Publish
<1> QED
  BY <1>2, <1>3 DEF Publish

\* The compositor's steps are steps of a frame source.
LEMMA CompositorRefines ==
  ASSUME IInv,
         \/ OutputChanges \/ Fails \/ BeginCopy \/ CompositorDies
         \/ \E offer \in {output, None} : Announce(offer)
         \/ \E inverted \in BOOLEAN : FinishCopy(inverted)
  PROVE  [Source!Next]_(Source!source)
<1> USE DEF IInv, TypeOK, Source!source
<1>1. CASE OutputChanges
  <2>1. Source!Resize
    BY <1>1 DEF OutputChanges, Source!Resize, Source!ResizeTo
  <2> QED
    BY <2>1 DEF Source!Next
<1>2. CASE Fails \/ BeginCopy \/ CompositorDies \/ \E inverted \in BOOLEAN : FinishCopy(inverted)
  BY <1>2 DEF Fails, Fail, Advances, BeginCopy, CompositorDies, FinishCopy
<1>3. CASE \E offer \in {output, None} : Announce(offer)
  <2>1. PICK offer \in {output, None} : Announce(offer)
    BY <1>3
  <2>2. frame.shape = None /\ frame'.shape = offer
    BY <2>1 DEF Announce, Heard
  <2>3. CASE offer = None
    BY <2>1, <2>2, <2>3 DEF Announce
  <2>4. CASE offer = output
    <3>1. Source!Shoot
      BY <2>1, <2>2, <2>4 DEF Announce, Source!Shoot
    <3> QED
      BY <3>1 DEF Source!Next
  <2> QED
    BY <2>3, <2>4
<1> QED
  BY <1>1, <1>2, <1>3

\* The steps of the thread and of its consumer are steps of a frame source.
LEMMA ThreadRefines ==
  ASSUME IInv,
         \/ Bind \/ BindFails \/ CaptureOutput \/ Dispatch \/ DispatchFails
         \/ DropUncopied \/ Copy \/ DropFailed \/ Publish
         \/ NextFrame \/ SourceEnds \/ DropSource
  PROVE  [Source!Next]_(Source!source)
<1> USE DEF IInv, TypeOK, Source!source
<1>1. CASE Bind \/ Dispatch \/ Copy \/ SourceEnds
  BY <1>1 DEF Bind, Dispatch, Copy, SourceEnds
<1>2. CASE CaptureOutput
  BY <1>2 DEF CaptureOutput, Heard, InStep
<1>3. CASE BindFails \/ DispatchFails
  <2>1. Source!End
    BY <1>3 DEF BindFails, DispatchFails, ThreadEnds, NoFrame, Source!End
  <2> QED
    BY <2>1 DEF Source!Next
<1>4. CASE DropUncopied \/ DropFailed
  <2>1. Source!Drop
    BY <1>4 DEF DropUncopied, DropFailed, NextRequest, NoFrame, Source!Drop
  <2> QED
    BY <2>1 DEF Source!Next
<1>5. CASE Publish
  <2>1. CASE consumer = "dropped"
    <3>1. Source!Drop
      BY <1>5, <2>1 DEF Publish, NextRequest, NoFrame, Source!Drop
    <3> QED
      BY <3>1 DEF Source!Next
  <2>2. CASE consumer # "dropped"
    <3>1. latest' = frame.shape /\ frame.shape # None
      BY <1>5, <2>2, PublishedShape
    <3>2. Source!Publish
      BY <1>5, <3>1 DEF Publish, NextRequest, NoFrame, Source!Publish
    <3> QED
      BY <3>2 DEF Source!Next
  <2> QED
    BY <2>1, <2>2
<1>6. CASE NextFrame \/ DropSource
  <2>1. Source!Take
    BY <1>6 DEF NextFrame, DropSource, Source!Take
  <2> QED
    BY <2>1 DEF Source!Next
<1> QED
  BY <1>1, <1>2, <1>3, <1>4, <1>5, <1>6

\* Whoever awaits next_frame() sees the FrameSource of the trait's promise.
THEOREM Refinement == Spec => ImplementsFrameSource
<1>1. Init => Source!Init
  BY DEF Init, NoFrame, Source!Init
<1>2. IInv /\ [Next]_vars => [Source!Next]_(Source!source)
  <2> SUFFICES ASSUME IInv, [Next]_vars PROVE [Source!Next]_(Source!source)
    OBVIOUS
  <2>1. CASE UNCHANGED vars
    BY <2>1 DEF vars, Source!source
  <2>2. CASE Next
    BY <2>2, CompositorRefines, ThreadRefines DEF Next
  <2> QED
    BY <2>1, <2>2
<1> QED
  BY <1>1, <1>2, Safety, PTL DEF Spec, ImplementsFrameSource, Source!Spec
=============================================================================
