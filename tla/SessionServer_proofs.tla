------------------------ MODULE SessionServer_proofs ------------------------
(***************************************************************************)
(* Proofs about SessionServer, for any set of connections, stubborn units, *)
(* panicking handlers and any number of restarts.                          *)
(***************************************************************************)
EXTENDS SessionServer, TLAPS

\* The server starts with an empty slot in a state of the right type.
LEMMA InitTypeOK == Init => TypeOK
<1> SUFFICES ASSUME Init PROVE TypeOK
  OBVIOUS
<1>1. boots \in 1..MaxBoots
  BY ConnAssumption DEF ConnAssumption, Init
<1>2. pc \in [Conn -> Places]
  BY DEF Init, Places
<1> QED
  BY <1>1, <1>2 DEF Init, TypeOK

USE DEF procVars, slotVars, unitVars, connVars

\* No step of the server, of a client or of systemd leaves the types.
LEMMA NextTypeOK == TypeOK /\ [Next]_vars => TypeOK'
<1> SUFFICES ASSUME TypeOK, [Next]_vars PROVE TypeOK'
  OBVIOUS
<1> USE DEF TypeOK, Places, Holding, Waiting, Starting, Serving, Ending, Failing, Stopping, Moves
<1>1. ASSUME NEW c \in Conn, Client(c) \/ Accept(c) \/ Refuse(c) PROVE TypeOK'
  BY <1>1 DEF Client, Dial, ClientLeaves, Accept, Refuse
<1>2. ASSUME NEW c \in Conn, Connect(c) \/ Pair(c) \/ Hello(c) PROVE TypeOK'
  BY <1>2 DEF Connect, Pair, Hello
<1>3. ASSUME NEW c \in Conn, HandshakeFails(c) PROVE TypeOK'
  BY <1>3 DEF HandshakeFails, ReturnEarly
<1>4. ASSUME NEW c \in Conn, Start(c) PROVE TypeOK'
  BY <1>4 DEF Start, BindSocket, WriteOverlay, SpawnScope, ReturnEarly, Handoff, HandoffFails, Publish
<1>5. ASSUME NEW c \in Conn, Serve(c) PROVE TypeOK'
  BY <1>5 DEF Serve, FirstFrame, CaptureFails, Setup, SetupFails, InputEnds, ResizeChannelClosed, Capture, CaptureEnds,
              Break, Send, SendFails, EncodeFails
<1>6. ASSUME NEW c \in Conn, Stop(c) PROVE TypeOK'
  <2> USE DEF SystemctlStop, SystemctlKill, EmptyScope, Inhabited
  <2>1. CASE Teardown(c) \/ Reaped(c)
    BY <2>1 DEF Teardown, Reaped
  <2>2. CASE StopUnit(c)
    BY <2>2 DEF StopUnit
  <2>3. CASE Escalate(c)
    BY <2>3 DEF Escalate
  <2>4. CASE Release(c)
    BY <2>4 DEF Release
  <2>5. CASE Panic(c)
    BY <2>5 DEF Panic
  <2>6. CASE DropSession(c)
    BY <2>6 DEF DropSession
  <2> QED
    BY <1>6, <2>1, <2>2, <2>3, <2>4, <2>5, <2>6 DEF Stop
<1>7. ASSUME NEW c \in Conn, SwayDies(c) PROVE TypeOK'
  BY <1>7 DEF SwayDies
<1>8. CASE Signal
  BY <1>8 DEF Signal
<1>9. CASE SignalStops
  BY <1>9 DEF SignalStops, SystemctlStop, EmptyScope, Inhabited
<1>10. CASE SignalExits \/ Kill
  <2>1. PICK how \in {"exited", "killed"} : Die(how)
    BY <1>10 DEF SignalExits, Kill
  <2>2. pc' \in [Conn -> Places]
    BY <2>1 DEF Die
  <2>3. input' \in [Conn -> {"none", "running", "ended"}] /\ peer' \in [Conn -> {"idle", "dialing", "open", "gone"}]
    BY <2>1 DEF Die
  <2> QED
    BY <2>1, <2>2, <2>3 DEF Die
<1>11. CASE Restart
  BY <1>11, ConnAssumption DEF ConnAssumption, Restart
<1>12. CASE UNCHANGED vars
  BY <1>12 DEF vars
<1> QED
  BY <1>1, <1>2, <1>3, <1>4, <1>5, <1>6, <1>7, <1>8, <1>9, <1>10, <1>11, <1>12 DEF Next

\* Every variable of the server keeps its type.
THEOREM TypeCorrect == Spec => []TypeOK
<1>1. TypeOK /\ [Next]_vars => TypeOK'
  BY NextTypeOK
<1> QED
  BY InitTypeOK, <1>1, PTL DEF Spec

-----------------------------------------------------------------------------
(* The inductive invariant. The steps of a handler keep it for the reasons   *)
(* the conjuncts name: a handler moves within Holding while busy stays set,  *)
(* a unit is spawned once, and it is stopped before the handler returns.     *)

USE ConnAssumption DEF ConnAssumption

\* A server that holds nothing satisfies the strengthened invariant.
LEMMA InitIInv == Init => IInv
<1> SUFFICES ASSUME Init PROVE IInv
  OBVIOUS
<1>1. TypeOK
  BY InitTypeOK
<1>2. \A c \in Conn : pc[c] \notin Holding /\ child[c] = "none" /\ scope[c] = "none"
  BY DEF Init, Holding, Waiting, Starting, Serving, Ending, Failing, Stopping
<1>3. MutualExclusion /\ BusyIffHeld /\ DeadHoldsNothing
  BY <1>2 DEF Init, MutualExclusion, BusyIffHeld, DeadHoldsNothing
<1>4. NamedUnitIsServed /\ UnitSinceSpawn
  BY <1>2 DEF Init, NamedUnitIsServed, UnitSinceSpawn, Spawned, Serving, Ending, Failing, Stopping, Waiting
<1> QED
  BY <1>1, <1>2, <1>3, <1>4
  DEF Init, IInv, SessionHasHandler, SignalReapsNamedUnit, SessionReaped, FilesGoWithUnit,
      ChildInScope, SignalTookUnit, StoppedScope

\* Every step preserves the strengthened invariant: one step per action, and
\* for each the conjuncts it can disturb.
LEMMA NextIInv == IInv /\ [Next]_vars => IInv'
<1> SUFFICES ASSUME IInv, [Next]_vars PROVE IInv'
  OBVIOUS
<1>0. TypeOK'
  BY NextTypeOK DEF IInv
<1> USE <1>0 DEF IInv, TypeOK, Places, Holding, Waiting, Starting, Serving, Ending, Failing, Stopping, Spawned,
      Moves, MutualExclusion, BusyIffHeld, SessionHasHandler, NamedUnitIsServed,
      SignalReapsNamedUnit, SessionReaped, FilesGoWithUnit, DeadHoldsNothing,
      UnitSinceSpawn, ChildInScope, Inhabited, SignalTookUnit, StoppedScope
<1>1. ASSUME NEW c \in Conn, Client(c) \/ Accept(c) \/ Refuse(c) PROVE IInv'
  <2>1. CASE Dial(c)
    BY <2>1 DEF Dial
  <2>2. CASE ClientLeaves(c)
    BY <2>2 DEF ClientLeaves
  <2>3. CASE Accept(c)
    BY <2>3 DEF Accept
  <2>4. CASE Refuse(c)
    BY <2>4 DEF Refuse
  <2> QED
    BY <1>1, <2>1, <2>2, <2>3, <2>4 DEF Client
<1>2. ASSUME NEW c \in Conn, Connect(c) \/ Pair(c) \/ Hello(c) \/ HandshakeFails(c) PROVE IInv'
  <2>1. CASE Connect(c)
    BY <2>1 DEF Connect
  <2>2. CASE Pair(c)
    BY <2>2 DEF Pair
  <2>3. CASE Hello(c)
    BY <2>3 DEF Hello
  <2>4. CASE HandshakeFails(c)
    BY <2>4 DEF HandshakeFails, ReturnEarly
  <2> QED
    BY <1>2, <2>1, <2>2, <2>3, <2>4
<1>3. ASSUME NEW c \in Conn, Start(c) PROVE IInv'
  <2>1. CASE BindSocket(c)
    BY <2>1 DEF BindSocket, ReturnEarly
  <2>2. CASE WriteOverlay(c)
    BY <2>2 DEF WriteOverlay
  <2>3. CASE SpawnScope(c)
    BY <2>3 DEF SpawnScope, ReturnEarly
  <2>4. CASE Handoff(c)
    BY <2>4 DEF Handoff
  <2>5. CASE HandoffFails(c)
    BY <2>5 DEF HandoffFails
  <2>6. CASE Publish(c)
    BY <2>6 DEF Publish
  <2> QED
    BY <1>3, <2>1, <2>2, <2>3, <2>4, <2>5, <2>6 DEF Start
<1>4. ASSUME NEW c \in Conn, Serve(c) PROVE IInv'
  <2>1. CASE Setup(c)
    BY <2>1 DEF Setup
  <2>2. CASE SetupFails(c)
    BY <2>2 DEF SetupFails
  <2>3. CASE InputEnds(c)
    BY <2>3 DEF InputEnds
  <2>4. CASE ResizeChannelClosed(c)
    BY <2>4 DEF ResizeChannelClosed
  <2>5. CASE Capture(c)
    BY <2>5 DEF Capture
  <2>6. CASE CaptureEnds(c)
    BY <2>6 DEF CaptureEnds, Break
  <2>7. CASE Send(c)
    BY <2>7 DEF Send
  <2>8. CASE SendFails(c)
    BY <2>8 DEF SendFails, Break
  <2>9. CASE EncodeFails(c)
    BY <2>9 DEF EncodeFails
  <2>10. CASE FirstFrame(c)
    BY <2>10 DEF FirstFrame
  <2>11. CASE CaptureFails(c)
    BY <2>11 DEF CaptureFails
  <2> QED
    BY <1>4, <2>1, <2>2, <2>3, <2>4, <2>5, <2>6, <2>7, <2>8, <2>9, <2>10, <2>11 DEF Serve
<1>5. ASSUME NEW c \in Conn, Stop(c) PROVE IInv'
  <2>1. CASE Teardown(c)
    BY <2>1 DEF Teardown
  <2>2. CASE StopUnit(c)
    BY <2>2 DEF StopUnit, SystemctlStop, EmptyScope, Inhabited
  <2>3. CASE Escalate(c)
    BY <2>3 DEF Escalate, SystemctlKill, EmptyScope, Inhabited
  <2>4. CASE Reaped(c)
    BY <2>4 DEF Reaped
  <2>5. CASE Release(c)
    BY <2>5 DEF Release
  <2>6. CASE Panic(c)
    BY <2>6 DEF Panic
  <2>7. CASE DropSession(c)
    BY <2>7 DEF DropSession, SystemctlStop, EmptyScope, Inhabited
  <2> QED
    BY <1>5, <2>1, <2>2, <2>3, <2>4, <2>5, <2>6, <2>7 DEF Stop
<1>6. ASSUME NEW c \in Conn, SwayDies(c) PROVE IInv'
  BY <1>6 DEF SwayDies
<1>7. CASE Signal
  BY <1>7 DEF Signal
<1>8. CASE SignalStops
  BY <1>8 DEF SignalStops, SystemctlStop, EmptyScope, Inhabited
<1>9. CASE SignalExits \/ Kill
  BY <1>9 DEF SignalExits, Kill, Die
<1>10. CASE Restart
  BY <1>10 DEF Restart
<1>11. CASE UNCHANGED vars
  BY <1>11 DEF vars
<1> QED
  BY <1>1, <1>2, <1>3, <1>4, <1>5, <1>6, <1>7, <1>8, <1>9, <1>10, <1>11 DEF Next

\* In every reachable state the safety properties and their strengthening hold.
THEOREM Safety == Spec => []IInv
  BY InitIInv, NextIInv, PTL DEF Spec

\* handle_connection runs for one client at a time.
THEOREM OneHandler == Spec => []MutualExclusion
<1>1. IInv => MutualExclusion
  BY DEF IInv
<1> QED
  BY Safety, <1>1, PTL

\* No return of a handler, whichever way it ends, leaves the server refusing
\* everybody, and none clears the flag under a handler that still serves.
THEOREM SlotAccounted == Spec => []BusyIffHeld
<1>1. IInv => BusyIffHeld
  BY DEF IInv
<1> QED
  BY Safety, <1>1, PTL

\* A running session belongs to the handler that holds the slot, so at most
\* one session of this process runs.
THEOREM SessionsOwned == Spec => []SessionHasHandler
<1>1. IInv => SessionHasHandler
  BY DEF IInv
<1> QED
  BY Safety, <1>1, PTL

\* No session outlives its handler, except in a scope on which `systemctl
\* stop` failed.
THEOREM SessionsEnd == Spec => []SessionReaped
<1>1. IInv => SessionReaped
  BY DEF IInv
<1> QED
  BY Safety, <1>1, PTL

\* No file of a session that had a unit outlives its handler.
THEOREM FilesEnd == Spec => []FilesGoWithUnit
<1>1. IInv => FilesGoWithUnit
  BY DEF IInv
<1> QED
  BY Safety, <1>1, PTL

\* A signal finds in active_unit the session being served, and no other.
THEOREM SignalFindsUnit == Spec => []NamedUnitIsServed
<1>1. IInv => NamedUnitIsServed
  BY DEF IInv
<1> QED
  BY Safety, <1>1, PTL

\* The unit the signal task took is down before the process exits, unless
\* `systemctl stop` failed on it.
THEOREM SignalCleansUp == Spec => []SignalReapsNamedUnit
<1>1. IInv => SignalReapsNamedUnit
  BY DEF IInv
<1> QED
  BY Safety, <1>1, PTL

-----------------------------------------------------------------------------
(* The server implements OneSession.                                         *)

\* With at most one holder, CHOOSE has no choice.
LEMMA HolderIsUnique ==
  ASSUME NEW places, NEW c \in Conn, places[c] \in Holding,
         \A d, e \in Conn : places[d] \in Holding /\ places[e] \in Holding => d = e
  PROVE  HolderIn(places) = c
  BY DEF HolderIn

\* Where no handler holds the slot, the holder is NoUnit.
LEMMA NoHolder ==
  ASSUME NEW places, \A c \in Conn : places[c] \notin Holding
  PROVE  HolderIn(places) = NoUnit
  BY DEF HolderIn

\* Handler c goes on holding the slot: what is left to compare is its session.
LEMMA HolderStays ==
  ASSUME IInv, IInv', NEW c \in Conn, NEW from \in Holding, NEW to \in Holding,
         Moves(c, from, to), proc' = proc
  PROVE  /\ Holder = c /\ Holder' = c
         /\ Admitted' = Admitted /\ Refused' = Refused /\ c # NoUnit
<1> USE DEF Moves, IInv, TypeOK, MutualExclusion
<1>1. Holder = c
  BY HolderIsUnique DEF Holder
<1>2. pc'[c] \in Holding
  OBVIOUS
<1>3. Holder' = c
  BY <1>2, HolderIsUnique DEF Holder
<1>4. Admitted' = Admitted /\ Refused' = Refused
  BY DEF Admitted, Refused, Holding, Waiting, Starting, Serving, Ending, Failing, Stopping
<1> QED
  BY <1>1, <1>3, <1>4, ConnAssumption

\* Steps that leave the handlers, their units and the process alone stutter.
LEMMA SlotStutters ==
  ASSUME pc' = pc, child' = child, proc' = proc
  PROVE  UNCHANGED Slot!slot
  BY DEF Slot!slot, Holder, HolderSession, Admitted, Refused

\* The empty server is OneSession's initial state.
LEMMA SlotInit == Init => Slot!Init
<1> SUFFICES ASSUME Init PROVE Slot!Init
  OBVIOUS
<1>1. \A c \in Conn : pc[c] \notin Holding \cup {"done", "lost", "refusing", "refused"}
  BY DEF Init, Holding, Waiting, Starting, Serving, Ending, Failing, Stopping
<1>2. Holder = NoUnit
  BY <1>1, NoHolder DEF Holder
<1> QED
  BY <1>1, <1>2 DEF Slot!Init, Init, HolderSession, Admitted, Refused

\* A step of the handler that changes nothing of its session is no step of the slot.
LEMMA InnerStep ==
  ASSUME IInv, IInv', NEW c \in Conn, NEW from \in Holding, NEW to \in Holding,
         Moves(c, from, to), proc' = proc, child'[c] = child[c]
  PROVE  UNCHANGED Slot!slot
  BY HolderStays DEF Slot!slot, HolderSession

\* A unit's processes die: the holder's session ends, or nothing the slot shows.
LEMMA UnitDies ==
  ASSUME IInv, IInv', NEW c \in Conn, pc' = pc, proc' = proc,
         child' = [child EXCEPT ![c] = IF @ = "alive" THEN "exited" ELSE @]
  PROVE  [Slot!Next]_Slot!slot
<1> USE DEF IInv, TypeOK
<1>1. Holder' = Holder /\ Admitted' = Admitted /\ Refused' = Refused
  BY DEF Holder, Admitted, Refused
<1>2. CASE Holder = c /\ child[c] = "alive"
  <2>1. Slot!EndSession
    BY <1>1, <1>2, ConnAssumption DEF Slot!EndSession, HolderSession
  <2> QED
    BY <2>1 DEF Slot!Next
<1>3. CASE ~(Holder = c /\ child[c] = "alive")
  BY <1>1, <1>3 DEF Slot!slot, HolderSession
<1> QED
  BY <1>2, <1>3

\* The same where the handler moves on as it kills its unit.
LEMMA EndingStep ==
  ASSUME IInv, IInv', NEW c \in Conn, NEW from \in Holding, NEW to \in Holding,
         Moves(c, from, to), proc' = proc,
         child' = [child EXCEPT ![c] = IF @ = "alive" THEN "exited" ELSE @]
  PROVE  [Slot!Next]_Slot!slot
<1> USE DEF IInv, TypeOK
<1>1. /\ Holder = c /\ Holder' = c /\ Admitted' = Admitted /\ Refused' = Refused
      /\ c # NoUnit
  BY HolderStays
<1>2. CASE child[c] = "alive"
  <2>1. Slot!EndSession
    BY <1>1, <1>2 DEF Slot!EndSession, HolderSession
  <2> QED
    BY <2>1 DEF Slot!Next
<1>3. CASE child[c] # "alive"
  BY <1>1, <1>3 DEF Slot!slot, HolderSession
<1> QED
  BY <1>2, <1>3

\* Every step is one of OneSession's or a stutter, in states that satisfy IInv.
LEMMA SlotStep == IInv /\ IInv' /\ [Next]_vars => [Slot!Next]_Slot!slot
<1> SUFFICES ASSUME IInv, IInv', [Next]_vars PROVE [Slot!Next]_Slot!slot
  OBVIOUS
<1>h. /\ Waiting \subseteq Holding /\ Starting \subseteq Holding /\ Serving \subseteq Holding
      /\ {"failing", "failreap", "failwait", "stopping", "reaping", "awaiting"} \subseteq Holding
      /\ {"teardown", "release", "unwound", "panicked"} \subseteq Holding
      /\ {"unborn", "refusing", "refused", "dropped", "done", "lost"} \cap Holding = {}
  BY DEF Holding, Waiting, Starting, Serving, Ending, Failing, Stopping
<1>1. ASSUME NEW c \in Conn, Client(c) PROVE [Slot!Next]_Slot!slot
  BY <1>1, SlotStutters DEF Client, Dial, ClientLeaves
<1>2. ASSUME NEW c \in Conn, Accept(c) PROVE [Slot!Next]_Slot!slot
  <2> USE DEF Accept, Moves, IInv, TypeOK
  <2>1. c \notin Admitted \cup Refused
    BY <1>2, <1>h DEF Admitted, Refused
  <2>2. CASE ~busy
    <3>1. Holder = NoUnit
      BY <1>2, <2>2, NoHolder DEF Holder, BusyIffHeld
    <3>2. pc'[c] \in Holding
      BY <1>2, <2>2 DEF Holding, Waiting
    <3>3. Holder' = c
      BY <3>2, HolderIsUnique DEF Holder, MutualExclusion
    <3>4. Admitted' = Admitted \cup {c} /\ Refused' = Refused
      BY <1>2, <2>2, <1>h, <3>2 DEF Admitted, Refused
    <3>5. child[c] = "none" /\ child' = child
      BY <1>2, <2>2 DEF UnitSinceSpawn
    <3>6. Slot!Admit(c)
      BY <1>2, <2>1, <2>2, <3>1, <3>3, <3>4, <3>5, ConnAssumption DEF Slot!Admit, HolderSession
    <3> QED
      BY <3>6 DEF Slot!Next
  <2>3. CASE busy
    <3>1. PICK d \in Conn : pc[d] \in Holding
      BY <1>2, <2>3 DEF BusyIffHeld
    <3>2. pc' = [pc EXCEPT ![c] = "refusing"] /\ d # c
      BY <1>2, <2>3, <1>h, <3>1
    <3>3. Holder = d /\ Holder' = d
      <4>1. Holder = d
        BY <3>1, HolderIsUnique DEF Holder, MutualExclusion
      <4>2. pc'[d] \in Holding
        BY <3>1, <3>2
      <4>3. Holder' = d
        BY <4>2, HolderIsUnique DEF Holder, MutualExclusion
      <4> QED
        BY <4>1, <4>3
    <3>4. Admitted' = Admitted /\ Refused' = Refused \cup {c}
      BY <1>2, <3>2, <1>h DEF Admitted, Refused
    <3>5. Slot!Refuse(c)
      BY <1>2, <2>1, <3>3, <3>4, ConnAssumption DEF Slot!Refuse, HolderSession
    <3> QED
      BY <3>5 DEF Slot!Next
  <2> QED
    BY <2>2, <2>3
<1>3. ASSUME NEW c \in Conn, Refuse(c) PROVE [Slot!Next]_Slot!slot
  <2> USE DEF Refuse, Moves, IInv, TypeOK
  <2>1. Admitted' = Admitted /\ Refused' = Refused
    BY <1>3, <1>h DEF Admitted, Refused
  <2>2. \A d \in Conn : pc'[d] \in Holding <=> pc[d] \in Holding
    BY <1>3, <1>h
  <2>3. Holder' = Holder
    <3>1. CASE \E d \in Conn : pc[d] \in Holding
      BY <2>2, <3>1, HolderIsUnique DEF Holder, MutualExclusion
    <3>2. CASE \A d \in Conn : pc[d] \notin Holding
      BY <2>2, <3>2, NoHolder DEF Holder
    <3> QED
      BY <3>1, <3>2
  <2> QED
    BY <1>3, <2>1, <2>3 DEF Slot!slot, HolderSession
<1>4. ASSUME NEW c \in Conn, Connect(c) \/ Pair(c) \/ Hello(c) PROVE [Slot!Next]_Slot!slot
  <2>1. PICK from \in Waiting, to \in Waiting \cup {"bind"} : Moves(c, from, to)
    BY <1>4 DEF Connect, Pair, Hello, Waiting
  <2>2. to \in Holding /\ proc' = proc /\ child' = child
    BY <1>4, <1>h DEF Connect, Pair, Hello, Starting
  <2> QED
    BY <1>h, <2>1, <2>2, InnerStep
<1>5. ASSUME NEW c \in Conn, NEW from \in Holding, ReturnEarly(c, from) PROVE [Slot!Next]_Slot!slot
  BY <1>5, <1>h, InnerStep DEF ReturnEarly
<1>6. ASSUME NEW c \in Conn, Start(c) PROVE [Slot!Next]_Slot!slot
  <2>1. CASE SpawnScope(c) /\ ~ReturnEarly(c, "spawn")
    <3>1. /\ Moves(c, "spawn", "handoff") /\ proc' = proc
          /\ child' = [child EXCEPT ![c] = "alive"]
      BY <2>1 DEF SpawnScope
    <3>2. child[c] = "none" /\ child'[c] = "alive"
      BY <3>1 DEF IInv, TypeOK, UnitSinceSpawn, Moves
    <3>3. /\ Holder = c /\ Holder' = c /\ Admitted' = Admitted /\ Refused' = Refused
          /\ c # NoUnit
      BY <1>h, <3>1, HolderStays DEF Starting
    <3>4. Slot!OpenSession
      BY <3>1, <3>2, <3>3 DEF Slot!OpenSession, HolderSession
    <3> QED
      BY <3>4 DEF Slot!Next
  <2>2. CASE ReturnEarly(c, "bind") \/ ReturnEarly(c, "spawn")
    BY <2>2, <1>5, <1>h DEF Starting
  <2>3. CASE \/ BindSocket(c) /\ ~ReturnEarly(c, "bind")
             \/ WriteOverlay(c) \/ Handoff(c) \/ HandoffFails(c) \/ Publish(c)
    <3>1. PICK from \in Starting, to \in Starting \cup {"release", "failing", "capture"} :
            Moves(c, from, to)
      BY <2>3 DEF BindSocket, WriteOverlay, Handoff, HandoffFails, Publish, Starting
    <3>2. to \in Holding /\ proc' = proc /\ child' = child
      BY <2>3, <1>h DEF BindSocket, WriteOverlay, Handoff, HandoffFails, Publish, Serving
    <3> QED
      BY <1>h, <3>1, <3>2, InnerStep
  <2> QED
    BY <1>6, <2>1, <2>2, <2>3 DEF Start, BindSocket
<1>7. ASSUME NEW c \in Conn, Serve(c) PROVE [Slot!Next]_Slot!slot
  <2>1. CASE InputEnds(c)
    BY <2>1, SlotStutters DEF InputEnds
  <2>2. CASE Serve(c) /\ ~InputEnds(c)
    <3> USE DEF Serve, FirstFrame, CaptureFails, Setup, SetupFails, ResizeChannelClosed, Capture, CaptureEnds, Break, Send,
                SendFails, EncodeFails, Serving
    <3>1. PICK from \in Serving, to \in Serving \cup {"teardown"} : Moves(c, from, to)
      BY <2>2
    <3>2. proc' = proc /\ child' = child
      BY <2>2
    <3> QED
      BY <1>h, <3>1, <3>2, InnerStep
  <2> QED
    BY <1>7, <2>1, <2>2
<1>8. ASSUME NEW c \in Conn, Stop(c) PROVE [Slot!Next]_Slot!slot
  <2>1. CASE Teardown(c)
    BY <2>1, <1>h, InnerStep DEF Teardown
  <2>2. CASE Reaped(c)
    BY <2>2, <1>h, InnerStep DEF Reaped
  <2>3. CASE StopUnit(c)
    <3>1. /\ Moves(c, "failing", "failreap") \/ Moves(c, "stopping", "reaping")
          /\ proc' = proc
      BY <2>3 DEF StopUnit
    <3>2. \/ child' = child
          \/ child' = [child EXCEPT ![c] = IF @ = "alive" THEN "exited" ELSE @]
      BY <2>3 DEF StopUnit, SystemctlStop, EmptyScope, Inhabited
    <3> QED
      BY <1>h, <3>1, <3>2, InnerStep, EndingStep
  <2>4. CASE Escalate(c)
    <3>1. /\ Moves(c, "failreap", "failwait") \/ Moves(c, "reaping", "awaiting")
          /\ proc' = proc
      BY <2>4 DEF Escalate
    <3>2. \/ child' = child
          \/ child' = [child EXCEPT ![c] = IF @ = "alive" THEN "exited" ELSE @]
      BY <2>4 DEF Escalate, SystemctlKill, EmptyScope, Inhabited
    <3> QED
      BY <1>h, <3>1, <3>2, InnerStep, EndingStep
  <2>5. CASE DropSession(c)
    <3>1. child[c] # "alive"
      BY <2>5 DEF DropSession, Moves, IInv, SessionHasHandler, Serving, Ending, Failing, Stopping
    <3>2. child'[c] = child[c]
      BY <2>5, <3>1 DEF DropSession, SystemctlStop, EmptyScope, Inhabited, IInv, TypeOK
    <3> QED
      BY <2>5, <1>h, <3>2, InnerStep DEF DropSession
  <2>6. CASE Panic(c)
    <3>1. PICK from \in Serving : Moves(c, from, "unwound")
      BY <2>6 DEF Panic
    <3>2. child[c] \in {"alive", "exited"}
      BY <3>1 DEF Moves, IInv, TypeOK, UnitSinceSpawn, Spawned
    <3>3. child' = [child EXCEPT ![c] = IF @ = "alive" THEN "exited" ELSE @]
      BY <2>6, <3>2 DEF Panic
    <3> QED
      BY <2>6, <3>1, <3>3, <1>h, EndingStep DEF Panic
  <2>7. CASE Release(c)
    <3> USE DEF Release, Moves, IInv, TypeOK
    <3>1. Holder = c
      BY <2>7, <1>h, HolderIsUnique DEF Holder, MutualExclusion
    <3>2. \A d \in Conn : pc'[d] \notin Holding
      BY <2>7, <1>h DEF MutualExclusion
    <3>3. Holder' = NoUnit
      BY <3>2, NoHolder DEF Holder
    <3>4. Admitted' = Admitted /\ Refused' = Refused
      BY <2>7, <1>h DEF Admitted, Refused
    <3>5. HolderSession # "open" /\ HolderSession' = "none"
      BY <2>7, <3>1, <3>3 DEF HolderSession, SessionReaped
    <3>6. Slot!Release
      BY <2>7, <3>1, <3>3, <3>4, <3>5, ConnAssumption DEF Slot!Release
    <3> QED
      BY <3>6 DEF Slot!Next
  <2> QED
    BY <1>8, <2>1, <2>2, <2>3, <2>4, <2>5, <2>6, <2>7 DEF Stop
<1>9. ASSUME NEW c \in Conn, SwayDies(c) PROVE [Slot!Next]_Slot!slot
  <2>1. child' = [child EXCEPT ![c] = IF @ = "alive" THEN "exited" ELSE @]
    BY <1>9 DEF SwayDies
  <2> QED
    BY <1>9, <2>1, UnitDies DEF SwayDies
<1>10. CASE Signal
  BY <1>10, SlotStutters DEF Signal
<1>11. CASE SignalStops
  <2>1. sigUnit \in Conn
    BY <1>11 DEF SignalStops, IInv, TypeOK, SignalTookUnit
  <2>2. CASE UNCHANGED child
    BY <1>11, <2>2, SlotStutters DEF SignalStops
  <2>3. CASE EmptyScope(sigUnit)
    BY <1>11, <2>1, <2>3, UnitDies DEF SignalStops, EmptyScope
  <2> QED
    BY <1>11, <2>2, <2>3 DEF SignalStops, SystemctlStop
<1>12. CASE SignalExits \/ Kill
  <2>1. PICK how \in {"exited", "killed"} : Die(how)
    BY <1>12 DEF SignalExits, Kill
  <2>2. proc = "up" /\ proc' # "up"
    BY <2>1 DEF Die
  <2>3. Holder' = NoUnit
    BY <2>2, NoHolder DEF Holder, IInv, DeadHoldsNothing
  <2>4. Admitted' = Admitted /\ Refused' = Refused
    BY <2>1, <1>h DEF Die, Admitted, Refused, IInv, TypeOK
  <2>5. Slot!Down
    BY <2>2, <2>3, <2>4 DEF Slot!Down, HolderSession
  <2> QED
    BY <2>5 DEF Slot!Next
<1>13. CASE Restart
  <2>1. Holder' = Holder /\ Admitted' = Admitted /\ Refused' = Refused /\ child' = child
    BY <1>13 DEF Restart, Holder, Admitted, Refused
  <2>2. Slot!Up
    BY <1>13, <2>1 DEF Slot!Up, Restart, HolderSession
  <2> QED
    BY <2>2 DEF Slot!Next
<1>14. CASE UNCHANGED vars
  BY <1>14, SlotStutters DEF vars
<1> QED
  BY <1>1, <1>2, <1>3, <1>4, <1>5, <1>6, <1>7, <1>8, <1>9, <1>10, <1>11, <1>12, <1>13, <1>14, <1>h
  DEF Next, HandshakeFails

\* The accept loop, the handlers and their sessions implement the slot of
\* OneSession: admission, refusal and the succession of sessions are its own.
THEOREM Refinement == Spec => ImplementsOneSession
<1>1. IInv /\ IInv' /\ [Next]_vars => [Slot!Next]_Slot!slot
  BY SlotStep
<1> QED
  BY SlotInit, <1>1, Safety, PTL DEF Spec, ImplementsOneSession, Slot!Spec
=============================================================================
