---------------------------- MODULE SessionServer ----------------------------
(***************************************************************************)
(* The life of the server's single slot: the accept loop of run(), the     *)
(* per-connection task handle_connection(), the headless session it owns   *)
(* (SessionHandle::start, stop and Drop) and the SIGTERM/SIGINT task       *)
(* (dragonvnc-server/src/main.rs, dragonvnc-session/src/lib.rs), for       *)
(* --source session. One atomic step is the code between two points where  *)
(* another task, another process or the network can intervene.             *)
(*                                                                         *)
(* What the client sends is abstracted to its effect on the handler: who   *)
(* is paired is the subject of Trust, resizing and encoding of             *)
(* VideoPipeline.                                                          *)
(***************************************************************************)
EXTENDS Naturals, FiniteSets

CONSTANTS
  Conn,           \* connection attempts; the unit of c's session is named by c
  StubbornUnits,  \* units on which `systemctl stop` may fail, leaving them running
  UnkillableUnits,\* units on which `systemctl kill` may fail as well
  PanickyConns,   \* connections whose handler may panic while serving
  MaxBoots,       \* bound on how often the server process is started
  NoUnit

ASSUME ConnAssumption ==
  /\ StubbornUnits \subseteq Conn
  /\ UnkillableUnits \subseteq Conn
  /\ PanickyConns \subseteq Conn
  /\ NoUnit \notin Conn
  /\ MaxBoots \in Nat \ {0}

VARIABLES
  proc,         \* the server process: "up", "exited" (by the handler), "killed"
  boots,        \* times the process was started
  sig,          \* the signal task
  sigUnit,      \* the unit the signal task took, or NoUnit
  busy,         \* the AtomicBool of run()
  active_unit,  \* the Mutex<Option<String>> of run()
  pc,           \* where c's handler task stands
  input,        \* c's input task
  peer,         \* c's client as the network shows it
  child,        \* c's `systemd-run --scope` child process
  scope,        \* c's systemd scope; "resisting" once `systemctl stop` failed on it
  sock,         \* connections whose handoff socket file exists
  conf          \* connections whose overlay sway config file exists

procVars == <<proc, boots, sig, sigUnit>>
slotVars == <<busy, active_unit>>
unitVars == <<child, scope, sock, conf>>
connVars == <<input, peer>>
vars == <<procVars, slotVars, pc, connVars, unitVars>>

-----------------------------------------------------------------------------
(* Program counters of a handler task, in the order of the code.           *)

Waiting  == {"handshake", "pairing", "control"}    \* waiting for the client
Starting == {"bind", "overlay", "spawn", "handoff", "publish"}
Serving  == {"capture", "setup", "streaming", "sending"}

\* stop_unit() as start() calls it when it fails, and as stop() calls it: the
\* stop command, the wait of 5 s, and after SIGKILL the wait without limit.
Failing  == {"failing", "failreap", "failwait"}
Stopping == {"stopping", "reaping", "awaiting"}
Ending   == Failing \cup Stopping

\* The handler has passed the compare_exchange and has not returned. After
\* a panic the task is gone and nothing will ever run its busy.store(false).
Holding == Waiting \cup Starting \cup Serving \cup {"teardown"} \cup Ending
             \cup {"release", "unwound", "panicked"}

Places == {"unborn", "refusing", "refused", "dropped", "done", "lost"} \cup Holding

TypeOK ==
  /\ proc \in {"up", "exited", "killed"}
  /\ boots \in 1..MaxBoots
  /\ sig \in {"waiting", "stopping", "exiting"}
  /\ sigUnit \in Conn \cup {NoUnit}
  /\ busy \in BOOLEAN
  /\ active_unit \in Conn \cup {NoUnit}
  /\ pc \in [Conn -> Places]
  /\ input \in [Conn -> {"none", "running", "ended"}]
  /\ peer \in [Conn -> {"idle", "dialing", "open", "gone"}]
  /\ child \in [Conn -> {"none", "alive", "exited"}]
  /\ scope \in [Conn -> {"none", "active", "resisting", "gone"}]
  /\ sock \subseteq Conn
  /\ conf \subseteq Conn

Init ==
  /\ proc = "up"
  /\ boots = 1
  /\ sig = "waiting"
  /\ sigUnit = NoUnit
  /\ busy = FALSE
  /\ active_unit = NoUnit
  /\ pc = [c \in Conn |-> "unborn"]
  /\ input = [c \in Conn |-> "none"]
  /\ peer = [c \in Conn |-> "idle"]
  /\ child = [c \in Conn |-> "none"]
  /\ scope = [c \in Conn |-> "none"]
  /\ sock = {}
  /\ conf = {}

\* Handler c moves; a dead process takes no step.
Moves(c, from, to) ==
  /\ proc = "up"
  /\ pc[c] = from
  /\ pc' = [pc EXCEPT ![c] = to]

-----------------------------------------------------------------------------
(* Clients and the accept loop.                                            *)

Dial(c) ==
  /\ proc = "up"
  /\ peer[c] = "idle"
  /\ peer' = [peer EXCEPT ![c] = "dialing"]
  /\ UNCHANGED <<procVars, slotVars, pc, input, unitVars>>

\* The client closes, dies, or is silent for the idle timeout.
ClientLeaves(c) ==
  /\ peer[c] \in {"dialing", "open"}
  /\ peer' = [peer EXCEPT ![c] = "gone"]
  /\ UNCHANGED <<procVars, slotVars, pc, input, unitVars>>

AcceptWithoutExchange(c) ==     \* Mutant: the flag is stored, not exchanged
  /\ peer[c] \in {"dialing", "gone"}
  /\ Moves(c, "unborn", "handshake")
  /\ busy' = TRUE
  /\ UNCHANGED <<procVars, active_unit, connVars, unitVars>>

Accept(c) ==
  /\ peer[c] \in {"dialing", "gone"}
  /\ \/ ~busy /\ busy' = TRUE /\ Moves(c, "unborn", "handshake")
     \/ busy /\ UNCHANGED busy /\ Moves(c, "unborn", "refusing")
  /\ UNCHANGED <<procVars, active_unit, connVars, unitVars>>

\* The spawned refusal: finish the QUIC handshake only to close with
\* CLOSE_CODE_BUSY, or find that the handshake failed.
Refuse(c) ==
  /\ Moves(c, "refusing", "refused")
  /\ peer' = [peer EXCEPT ![c] = "gone"]
  /\ UNCHANGED <<procVars, slotVars, input, unitVars>>

-----------------------------------------------------------------------------
(* handle_connection up to the session: QUIC handshake, pairing, Hello.    *)

Connect(c) ==
  /\ peer[c] = "dialing"
  /\ \/ Moves(c, "handshake", "pairing")
     \/ Moves(c, "handshake", "control")     \* a known fingerprint
  /\ peer' = [peer EXCEPT ![c] = "open"]
  /\ UNCHANGED <<procVars, slotVars, input, unitVars>>

Pair(c) ==
  /\ peer[c] = "open"
  /\ Moves(c, "pairing", "control")
  /\ UNCHANGED <<procVars, slotVars, connVars, unitVars>>

Hello(c) ==
  /\ peer[c] = "open"
  /\ Moves(c, "control", "bind")
  /\ UNCHANGED <<procVars, slotVars, connVars, unitVars>>

ReturnWithoutRelease(c, from) ==     \* Mutant: an early return skips the store
  /\ Moves(c, from, "done")
  /\ UNCHANGED <<procVars, slotVars, connVars, unitVars>>

\* Any `?` or ensure! before the session exists: the task returns Err.
ReturnEarly(c, from) ==
  /\ Moves(c, from, "release")
  /\ UNCHANGED <<procVars, slotVars, connVars, unitVars>>

\* The client is gone, sends something else, or a store cannot be read.
HandshakeFails(c) == \E from \in Waiting : ReturnEarly(c, from)

-----------------------------------------------------------------------------
(* SessionHandle::start.                                                   *)

BindSocket(c) ==
  \/ /\ Moves(c, "bind", "overlay")
     /\ sock' = sock \cup {c}
     /\ UNCHANGED <<procVars, slotVars, connVars, child, scope, conf>>
  \/ ReturnEarly(c, "bind")

\* A failing write may leave a truncated file; the socket stays behind too.
WriteOverlay(c) ==
  /\ \/ Moves(c, "overlay", "spawn") /\ conf' = conf \cup {c}
     \/ /\ Moves(c, "overlay", "release")
        /\ \E left \in SUBSET {c} : conf' = conf \cup left
  /\ UNCHANGED <<procVars, slotVars, connVars, child, scope, sock>>

SpawnScope(c) ==
  \/ /\ Moves(c, "spawn", "handoff")
     /\ child' = [child EXCEPT ![c] = "alive"]
     /\ scope' = [scope EXCEPT ![c] = "active"]
     /\ UNCHANGED <<procVars, slotVars, connVars, sock, conf>>
  \/ ReturnEarly(c, "spawn")

\* session-ready ran in the new session and reported over the socket.
Handoff(c) ==
  /\ child[c] = "alive"
  /\ Moves(c, "handoff", "publish")
  /\ sock' = sock \ {c}
  /\ UNCHANGED <<procVars, slotVars, connVars, child, scope, conf>>

HandoffFailsOnExitOnly(c) ==     \* Mutant: no handoff_timeout around the wait
  /\ child[c] = "exited"
  /\ Moves(c, "handoff", "failing")
  /\ UNCHANGED <<procVars, slotVars, connVars, unitVars>>

HandoffFailsUnstopped(c) ==      \* Mutant: Err is returned without stop_unit
  /\ Moves(c, "handoff", "release")
  /\ UNCHANGED <<procVars, slotVars, connVars, unitVars>>

\* The timeout, a malformed handoff, or the child's exit.
HandoffFails(c) ==
  /\ Moves(c, "handoff", "failing")
  /\ UNCHANGED <<procVars, slotVars, connVars, unitVars>>

\* start() returned; only now does active_unit name the unit.
Publish(c) ==
  /\ Moves(c, "publish", "capture")
  /\ active_unit' = c
  /\ UNCHANGED <<procVars, busy, connVars, unitVars>>

-----------------------------------------------------------------------------
(* The serving block: capture, Welcome, encoder, input task, video loop.   *)

\* The first frame of the session's output. The wait for it has no timeout
\* and does not look at the connection.
FirstFrame(c) ==
  /\ child[c] = "alive"
  /\ Moves(c, "capture", "setup")
  /\ UNCHANGED <<procVars, slotVars, connVars, unitVars>>

\* The compositor cannot be reached, lacks a protocol, or is gone.
CaptureFails(c) ==
  /\ Moves(c, "capture", "teardown")
  /\ UNCHANGED <<procVars, slotVars, connVars, unitVars>>

\* Injector, Welcome, encoder, input task and video stream.
Setup(c) ==
  /\ child[c] = "alive" /\ peer[c] = "open"
  /\ Moves(c, "setup", "streaming")
  /\ input' = [input EXCEPT ![c] = "running"]
  /\ UNCHANGED <<procVars, slotVars, peer, unitVars>>

\* Any `?` up to open_uni(), before or after the input task is spawned.
SetupFails(c) ==
  /\ Moves(c, "setup", "teardown")
  /\ \E i \in {"none", "running"} : input' = [input EXCEPT ![c] = i]
  /\ UNCHANGED <<procVars, slotVars, peer, unitVars>>

\* recv_msg fails: the client is gone, or sent something undecodable.
InputEnds(c) ==
  /\ proc = "up"
  /\ input[c] = "running"
  /\ input' = [input EXCEPT ![c] = "ended"]
  /\ UNCHANGED <<procVars, slotVars, pc, peer, unitVars>>

\* select! is biased towards resize_rx, which yields None at once and for
\* ever when its only sender, the input task, is gone: the loop spins and
\* the frame branch, guarded below by a running input task, is never polled.
ResizeChannelClosed(c) ==
  /\ input[c] = "ended"
  /\ Moves(c, "streaming", "streaming")
  /\ UNCHANGED <<procVars, slotVars, connVars, unitVars>>

Capture(c) ==
  /\ child[c] = "alive" /\ input[c] = "running"
  /\ Moves(c, "streaming", "sending")
  /\ UNCHANGED <<procVars, slotVars, connVars, unitVars>>

\* `break 'outer` aborts the input task.
Break(c, from) ==
  /\ Moves(c, from, "teardown")
  /\ input' = [input EXCEPT ![c] = "ended"]
  /\ UNCHANGED <<procVars, slotVars, peer, unitVars>>

\* The source returns None: the capture thread ended, with the compositor or
\* before it.
CaptureEnds(c) ==
  /\ input[c] = "running"
  /\ Break(c, "streaming")

Send(c) ==
  /\ peer[c] = "open"
  /\ Moves(c, "sending", "streaming")
  /\ UNCHANGED <<procVars, slotVars, connVars, unitVars>>

SendFails(c) ==
  /\ peer[c] = "gone"
  /\ Break(c, "sending")

\* `?` on make_encoder or encode leaves the input task running, detached.
EncodeFails(c) ==
  /\ Moves(c, "sending", "teardown")
  /\ UNCHANGED <<procVars, slotVars, connVars, unitVars>>

-----------------------------------------------------------------------------
(* Teardown, SessionHandle::stop, stop_unit and Drop.                      *)

TeardownStaysNamed(c) ==     \* Mutant: active_unit is not cleared
  /\ Moves(c, "teardown", "stopping")
  /\ UNCHANGED <<procVars, slotVars, connVars, unitVars>>

Teardown(c) ==
  /\ Moves(c, "teardown", "stopping")
  /\ active_unit' = NoUnit
  /\ UNCHANGED <<procVars, busy, connVars, unitVars>>

KillChildOnly(c) ==          \* Mutant: child.start_kill() instead of the scope
  /\ child' = [child EXCEPT ![c] = IF @ = "alive" THEN "exited" ELSE @]
  /\ UNCHANGED scope

\* A scope that has processes.
Inhabited == {"active", "resisting"}

\* Every process of the scope is dead, the tracked child among them.
EmptyScope(c) ==
  /\ child' = [child EXCEPT ![c] = IF @ = "alive" THEN "exited" ELSE @]
  /\ scope' = [scope EXCEPT ![c] = IF @ \in Inhabited THEN "gone" ELSE @]

\* `systemctl --user stop` and `systemctl --user kill -s SIGKILL`, whose exit
\* status nobody looks at.
SystemctlStop(c) ==
  \/ EmptyScope(c)
  \/ /\ c \in StubbornUnits
     /\ scope' = [scope EXCEPT ![c] = IF @ = "active" THEN "resisting" ELSE @]
     /\ UNCHANGED child

SystemctlKill(c) ==
  \/ EmptyScope(c)
  \/ c \in UnkillableUnits /\ UNCHANGED <<child, scope>>

StopUnit(c) ==
  /\ Moves(c, "failing", "failreap") \/ Moves(c, "stopping", "reaping")
  /\ SystemctlStop(c)
  /\ UNCHANGED <<procVars, slotVars, connVars, sock, conf>>

EscalateInVain(c) ==         \* Mutant: the deadline passes and nothing is killed
  /\ child[c] = "alive"
  /\ Moves(c, "failreap", "failwait") \/ Moves(c, "reaping", "awaiting")
  /\ UNCHANGED <<procVars, slotVars, connVars, unitVars>>

\* The child outlived the 5 s deadline: SIGKILL to the whole scope, after
\* which the wait for the child has no limit.
Escalate(c) ==
  /\ child[c] = "alive"
  /\ Moves(c, "failreap", "failwait") \/ Moves(c, "reaping", "awaiting")
  /\ SystemctlKill(c)
  /\ UNCHANGED <<procVars, slotVars, connVars, sock, conf>>

ReapedUnwaited(c) ==         \* Mutant: returns without child.wait()
  /\ \E from \in {"failreap", "failwait", "reaping", "awaiting"} : Moves(c, from, "release")
  /\ sock' = sock \ {c}
  /\ conf' = conf \ {c}
  /\ UNCHANGED <<procVars, slotVars, connVars, child, scope>>

Reaped(c) ==
  /\ child[c] = "exited"
  /\ \E from \in {"failreap", "failwait", "reaping", "awaiting"} : Moves(c, from, "release")
  /\ sock' = sock \ {c}
  /\ conf' = conf \ {c}
  /\ UNCHANGED <<procVars, slotVars, connVars, child, scope>>

\* handle_connection returned. Its streams are dropped with it, which ends
\* the connection unless a detached input task still holds its own.
Release(c) ==
  /\ Moves(c, "release", "done")
  /\ busy' = FALSE
  /\ peer' = [peer EXCEPT ![c] = IF input[c] = "running" THEN @ ELSE "gone"]
  /\ UNCHANGED <<procVars, active_unit, input, unitVars>>

\* Unwinding drops the SessionHandle: kill_on_drop kills the tracked child,
\* a detached thread is left to stop the scope, busy stays set.
Panic(c) ==
  /\ c \in PanickyConns
  /\ \E from \in Serving : Moves(c, from, "unwound")
  /\ child' = [child EXCEPT ![c] = "exited"]
  /\ UNCHANGED <<procVars, slotVars, connVars, scope, sock, conf>>

DropSession(c) ==
  /\ Moves(c, "unwound", "panicked")
  /\ SystemctlStop(c)
  /\ sock' = sock \ {c}
  /\ conf' = conf \ {c}
  /\ UNCHANGED <<procVars, slotVars, connVars>>

-----------------------------------------------------------------------------
(* sway itself, signals, crashes and restarts.                             *)

\* dbus-run-session exits; what sway exec'd may keep the scope active.
SwayDies(c) ==
  /\ child[c] = "alive"
  /\ child' = [child EXCEPT ![c] = "exited"]
  /\ \E s \in {scope[c], "gone"} : scope' = [scope EXCEPT ![c] = s]
  /\ UNCHANGED <<procVars, slotVars, pc, connVars, sock, conf>>

SignalExitsAtOnce ==         \* Mutant: exit without awaiting systemctl
  /\ proc = "up" /\ sig = "waiting"
  /\ sigUnit' = active_unit
  /\ active_unit' = NoUnit
  /\ sig' = "exiting"
  /\ UNCHANGED <<proc, boots, busy, pc, connVars, unitVars>>

\* SIGTERM or SIGINT: take active_unit.
Signal ==
  /\ proc = "up" /\ sig = "waiting"
  /\ sigUnit' = active_unit
  /\ active_unit' = NoUnit
  /\ sig' = IF active_unit = NoUnit THEN "exiting" ELSE "stopping"
  /\ UNCHANGED <<proc, boots, busy, pc, connVars, unitVars>>

SignalStops ==
  /\ proc = "up" /\ sig = "stopping"
  /\ SystemctlStop(sigUnit)
  /\ sig' = "exiting"
  /\ UNCHANGED <<proc, boots, sigUnit, slotVars, pc, connVars, sock, conf>>

\* Every task and the process's memory are gone, no destructor runs, and
\* the children stay as they are.
Die(how) ==
  /\ proc = "up"
  /\ proc' = how
  /\ busy' = FALSE
  /\ active_unit' = NoUnit
  /\ pc' = [c \in Conn |->
              CASE pc[c] \in Holding -> "lost"
                [] pc[c] = "refusing" -> "refused"
                [] pc[c] = "unborn" /\ peer[c] # "idle" -> "dropped"
                [] OTHER -> pc[c]]
  /\ input' = [c \in Conn |-> IF input[c] = "running" THEN "ended" ELSE input[c]]
  /\ peer' = [c \in Conn |-> IF peer[c] = "idle" THEN "idle" ELSE "gone"]
  /\ UNCHANGED <<boots, sig, sigUnit, unitVars>>

SignalExits == sig = "exiting" /\ Die("exited")

Kill == Die("killed")

Restart ==
  /\ proc # "up"
  /\ boots < MaxBoots
  /\ proc' = "up"
  /\ boots' = boots + 1
  /\ sig' = "waiting"
  /\ sigUnit' = NoUnit
  /\ UNCHANGED <<slotVars, pc, connVars, unitVars>>

-----------------------------------------------------------------------------
Client(c) == Dial(c) \/ ClientLeaves(c)

Start(c) ==
  \/ BindSocket(c) \/ WriteOverlay(c) \/ SpawnScope(c)
  \/ Handoff(c) \/ HandoffFails(c) \/ Publish(c)

Serve(c) ==
  \/ FirstFrame(c) \/ CaptureFails(c) \/ Setup(c) \/ SetupFails(c)
  \/ InputEnds(c) \/ ResizeChannelClosed(c)
  \/ Capture(c) \/ CaptureEnds(c) \/ Send(c) \/ SendFails(c) \/ EncodeFails(c)

Stop(c) ==
  \/ Teardown(c) \/ StopUnit(c) \/ Escalate(c) \/ Reaped(c) \/ Release(c)
  \/ Panic(c) \/ DropSession(c)

Next ==
  \/ \E c \in Conn :
       \/ Client(c) \/ Accept(c) \/ Refuse(c)
       \/ Connect(c) \/ Pair(c) \/ Hello(c) \/ HandshakeFails(c)
       \/ Start(c) \/ Serve(c) \/ Stop(c) \/ SwayDies(c)
  \/ Signal \/ SignalStops \/ SignalExits \/ Kill \/ Restart

\* What the runtime, systemd and QUIC owe: a runnable task runs, timers fire,
\* external commands return and a lost connection fails the calls that wait
\* on it. A live compositor delivers a first frame (Screencopy says when it
\* does). Nothing else is owed by sway, nor by clients or senders of signals.
Fairness ==
  /\ \A c \in Conn :
       /\ WF_vars(Accept(c)) /\ WF_vars(Refuse(c))
       /\ WF_vars(peer[c] = "gone" /\ HandshakeFails(c))
       /\ WF_vars(BindSocket(c)) /\ WF_vars(WriteOverlay(c)) /\ WF_vars(SpawnScope(c))
       /\ WF_vars(HandoffFails(c)) /\ WF_vars(Publish(c))
       /\ WF_vars(FirstFrame(c) \/ CaptureFails(c))
       /\ WF_vars(Setup(c) \/ SetupFails(c))
       /\ WF_vars(peer[c] = "gone" /\ InputEnds(c))
       /\ WF_vars(child[c] = "exited" /\ CaptureEnds(c)) /\ WF_vars(SendFails(c))
       /\ WF_vars(Teardown(c)) /\ WF_vars(StopUnit(c)) /\ WF_vars(Escalate(c))
       /\ WF_vars(Reaped(c)) /\ WF_vars(Release(c)) /\ WF_vars(DropSession(c))
  /\ WF_vars(SignalStops) /\ WF_vars(SignalExits)

Spec == Init /\ [][Next]_vars

FairSpec == Spec /\ Fairness

-----------------------------------------------------------------------------
(* Safety.                                                                 *)

\* Two connections are never both between the compare_exchange and the
\* store that ends it: handle_connection runs for one client at a time.
MutualExclusion ==
  \A c, d \in Conn : pc[c] \in Holding /\ pc[d] \in Holding => c = d

\* The flag is set exactly while some handler holds the slot: no return,
\* error or not, leaves the server refusing everybody (a panic does).
BusyIffHeld ==
  proc = "up" => (busy <=> \E c \in Conn : pc[c] \in Holding)

\* A session of this process runs only while its own handler is between
\* spawning it and returning; with MutualExclusion, at most one runs.
SessionHasHandler ==
  \A c \in Conn :
    child[c] = "alive" =>
      pc[c] \in {"handoff", "publish", "lost"} \cup Serving \cup {"teardown"} \cup Ending

\* active_unit names the session being served and no other, so that a signal
\* that has not come yet would find it; it never names a unit whose handler
\* has gone on to stop it, nor one of a connection that returned.
NamedUnitIsServed ==
  \A c \in Conn :
    /\ active_unit = c => pc[c] \in Serving \cup {"teardown", "unwound", "panicked"}
    /\ proc = "up" /\ sig = "waiting" /\ pc[c] \in Serving \cup {"teardown"} => active_unit = c

\* The unit the signal task took is down before the process exits, unless
\* `systemctl stop` failed on it.
SignalReapsNamedUnit ==
  sig = "exiting" /\ sigUnit # NoUnit => scope[sigUnit] # "active"

\* A handler returns only after its tracked child is dead and the whole
\* scope is empty, whichever way start() or serving ended. Where `systemctl
\* stop` failed and sway is dead already, the rest of the scope survives as
\* "resisting": stop_unit escalates on the tracked child, not on the scope.
SessionReaped ==
  \A c \in Conn :
    pc[c] \in {"release", "done"} => child[c] # "alive" /\ scope[c] # "active"

\* A session that got as far as a unit leaves no file in the runtime
\* directory once its handler returned (a start() that failed earlier may).
FilesGoWithUnit ==
  \A c \in Conn :
    pc[c] \in {"release", "done", "panicked"} /\ child[c] # "none" => c \notin sock \cup conf

-----------------------------------------------------------------------------
(* The inductive invariant: the properties above and what they rest on.    *)

Spawned == {"handoff", "publish"} \cup Serving \cup {"teardown"} \cup Ending \cup {"unwound", "panicked"}

\* A dead process holds nothing.
DeadHoldsNothing ==
  proc # "up" =>
    /\ ~busy
    /\ active_unit = NoUnit
    /\ \A c \in Conn : pc[c] \notin Holding

\* A unit exists from the spawn on and not before.
UnitSinceSpawn ==
  \A c \in Conn :
    /\ pc[c] \in Spawned => child[c] # "none"
    /\ pc[c] \in {"unborn", "refusing", "refused", "dropped", "bind", "overlay", "spawn"} \cup Waiting
         => child[c] = "none"

\* The tracked child lives inside the scope.
ChildInScope ==
  \A c \in Conn :
    /\ child[c] = "none" <=> scope[c] = "none"
    /\ child[c] = "alive" => scope[c] \in Inhabited

\* While a signal is being handled its unit is one that was spawned.
SignalTookUnit ==
  /\ sig = "stopping" => sigUnit # NoUnit
  /\ sigUnit # NoUnit => child[sigUnit] # "none"

\* After the stop command a scope has processes only if the command failed,
\* and only a stubborn unit's command does.
StoppedScope ==
  \A c \in Conn :
    /\ pc[c] \in Ending \ {"failing", "stopping"} => scope[c] # "active"
    /\ scope[c] = "resisting" => c \in StubbornUnits

\* The safety properties and their strengthening, which every step preserves.
IInv ==
  /\ TypeOK
  /\ MutualExclusion
  /\ BusyIffHeld
  /\ SessionHasHandler
  /\ NamedUnitIsServed
  /\ SignalReapsNamedUnit
  /\ SessionReaped
  /\ FilesGoWithUnit
  /\ DeadHoldsNothing
  /\ UnitSinceSpawn
  /\ ChildInScope
  /\ SignalTookUnit
  /\ StoppedScope

\* What the comment at main.rs:431-437 claims of SIGTERM: the headless session
\* is stopped before the process exits. The code leaks one whose start() or
\* stop() the exit cuts short, and one begun after the signal.
GracefulExitLeavesNoSession ==
  proc = "exited" => \A c \in Conn : child[c] # "alive"

-----------------------------------------------------------------------------
(* Liveness, under Fairness.                                               *)

Over(c) == pc[c] \in {"done", "lost", "panicked"}

\* Neither stop nor SIGKILL ended the unit's tracked child, and the handler
\* waits for it without limit: where `systemctl kill` fails, stop_unit() does
\* not come back.
Unkilled(c) == c \in UnkillableUnits /\ pc[c] \in {"failwait", "awaiting"} /\ child[c] = "alive"

\* A client that goes away while the server waits for it, starts its session,
\* or is writing to it gives the slot back, unless the session cannot be
\* killed: nothing else on those paths waits for ever.
LostClientFreesSlot ==
  \A c \in Conn :
    (peer[c] = "gone" /\ pc[c] \in Holding \ {"streaming"}) ~> Over(c) \/ Unkilled(c)

\* The same where the video loop waits for a resize or a frame. The comment
\* at main.rs:837-840 says the loop's own send failures will notice; with the
\* input task gone the loop never sends again.
LostStreamFreesSlot ==
  \A c \in Conn : (peer[c] = "gone" /\ pc[c] = "streaming") ~> Over(c)

\* start() returns, whatever sway does and wherever start() fails, unless the
\* session it stops by itself then cannot be killed.
StartReturns ==
  \A c \in Conn :
    LET InStart == pc[c] \in Starting \cup Failing
    IN  InStart ~> ~InStart \/ Unkilled(c)

-----------------------------------------------------------------------------
(* The slot as OneSession sees it.                                         *)

HolderIn(places) ==
  IF \E c \in Conn : places[c] \in Holding
  THEN CHOOSE c \in Conn : places[c] \in Holding
  ELSE NoUnit

Holder == HolderIn(pc)

HolderSession ==
  IF Holder = NoUnit \/ child[Holder] = "none" THEN "none"
  ELSE IF child[Holder] = "alive" THEN "open" ELSE "over"

Admitted == {c \in Conn : pc[c] \in Holding \cup {"done", "lost"}}

Refused == {c \in Conn : pc[c] \in {"refusing", "refused"}}

Slot == INSTANCE OneSession WITH
  NoConn   <- NoUnit,
  up       <- proc = "up",
  holder   <- Holder,
  session  <- HolderSession,
  admitted <- Admitted,
  refused  <- Refused

\* Refusal, admission and the succession of sessions are as OneSession says.
ImplementsOneSession == Slot!Spec
=============================================================================
