------------------------------ MODULE Injection ------------------------------
(***************************************************************************)
(* Keys and buttons from the person at the client's window to the          *)
(* compositor: the window events render.rs forwards, the control stream,   *)
(* LinuxInjector with its two virtual devices, each with a Wayland         *)
(* connection of its own (dragonvnc-input), the xkb state that says which  *)
(* modifiers the keyboard tells, and the compositor.                       *)
(*                                                                         *)
(* A modifier is the key that holds it; keys that latch or lock one are    *)
(* left out, and so is what a motion or a scroll carries. A bound stands   *)
(* for the 4 KiB a connection buffers. Fields named `after` are history.   *)
(***************************************************************************)
EXTENDS Naturals, Sequences

CONSTANTS
  Keys,        \* keys that keymap::to_evdev() knows
  Modifiers,   \* those that hold a modifier while they are down
  Buttons,     \* mouse buttons
  Motion,      \* what a motion or a scroll puts in a button's place
  MaxReports   \* bound on the events the window reports

ASSUME InjectionAssumption ==
  /\ Modifiers \subseteq Keys /\ Keys \cap Buttons = {}
  /\ Motion \notin Keys \cup Buttons
  /\ MaxReports \in Nat

VARIABLES
  focused,    \* the client's window has the keyboard
  held,       \* keys and buttons the person holds
  reported,   \* those whose last report is a press
  missed,     \* history: a reported modifier was released out of sight
  reports,    \* events reported so far
  wire,       \* events reported and not injected, oldest first
  injected,   \* history: keys and buttons whose last injection is a press
  count,      \* presses of each modifier that xkb_state is to see released
  requests,   \* each device's requests, oldest first, until the compositor
  unwritten,  \* reads them; how many of the newest its connection still buffers
  down,       \* keys and buttons that are down for the compositor
  mods        \* the modifiers it was told last

personVars == <<focused, held, missed>>
reportVars == <<reported, reports>>
serverVars == <<injected, count, unwritten>>
compositorVars == <<down, mods>>
vars == <<personVars, reportVars, wire, serverVars, requests, compositorVars>>

Inputs == Keys \cup Buttons

Device == {"keyboard", "pointer"}

\* LinuxInjector::inject().
DeviceOf(input) == IF input \in Keys THEN "keyboard" ELSE "pointer"

InputsOf(d) == IF d = "keyboard" THEN Keys ELSE Buttons

Event == [input : Inputs, pressed : BOOLEAN, after : SUBSET Inputs]
           \cup [input : {Motion}, pressed : {FALSE}, after : SUBSET Inputs]

Request == [kind : {"input"}, input : Inputs, pressed : BOOLEAN, after : SUBSET Inputs]
             \cup [kind : {"input"}, input : {Motion}, pressed : {FALSE}, after : SUBSET Inputs]
             \cup [kind : {"modifiers"}, mods : SUBSET Modifiers, after : SUBSET Inputs]

TypeOK ==
  /\ focused \in BOOLEAN /\ missed \in BOOLEAN
  /\ held \in SUBSET Inputs /\ reported \in SUBSET Inputs
  /\ reports \in 0..MaxReports
  /\ wire \in Seq(Event)
  /\ injected \in SUBSET Inputs
  /\ count \in [Modifiers -> Nat]
  /\ requests \in [Device -> Seq(Request)]
  /\ unwritten \in [Device -> Nat]
  /\ \A d \in Device : unwritten[d] <= Len(requests[d])
  /\ down \in SUBSET Inputs /\ mods \in SUBSET Modifiers

\* The devices are new, and the person may hold anything.
Init ==
  /\ focused \in BOOLEAN /\ held \in SUBSET Inputs /\ missed = FALSE
  /\ reported = {} /\ reports = 0 /\ wire = <<>>
  /\ injected = {} /\ count = [m \in Modifiers |-> 0]
  /\ requests = [d \in Device |-> <<>>] /\ unwritten = [d \in Device |-> 0]
  /\ down = {} /\ mods = {}

\* What is down once an input was pressed or released. Nothing is, for Motion.
With(set, input, pressed) == IF pressed THEN set \cup {input} ELSE set \ {input}

-----------------------------------------------------------------------------
(* The person and the client's window.                                     *)

\* App::window_event(): every event the window gets is forwarded, a press
\* like another, whether or not the key is known to be down.
Report(input, pressed) ==
  /\ reports < MaxReports /\ reports' = reports + 1
  /\ reported' = With(reported, input, pressed)
  /\ wire' = Append(wire, [input |-> input, pressed |-> pressed,
                           after |-> With(reported, input, pressed)])
  /\ UNCHANGED <<serverVars, requests, compositorVars>>

\* A window without the focus hears of no key. It keeps the pointer while a
\* button is down.
Unseen(input) == input \in Keys /\ ~focused

Press(input) ==
  /\ input \notin held /\ held' = held \cup {input}
  /\ ~Unseen(input) /\ Report(input, TRUE)
  /\ UNCHANGED <<focused, missed>>

Release(input) ==
  /\ input \in held /\ held' = held \ {input}
  /\ ~Unseen(input) /\ Report(input, FALSE)
  /\ UNCHANGED <<focused, missed>>

PressElsewhere(input) ==
  /\ input \notin held /\ held' = held \cup {input}
  /\ Unseen(input)
  /\ UNCHANGED <<focused, missed, reportVars, wire, serverVars, requests, compositorVars>>

ReleaseElsewhere(input) ==
  /\ input \in held /\ held' = held \ {input}
  /\ Unseen(input)
  /\ missed' = (missed \/ input \in Modifiers \cap reported)
  /\ UNCHANGED <<focused, reportVars, wire, serverVars, requests, compositorVars>>

\* The client's system repeats the press of a key that is kept down.
Repeat(key) ==
  /\ key \in held \ Modifiers /\ ~Unseen(key)
  /\ Report(key, TRUE)
  /\ UNCHANGED personVars

MovePointer == Report(Motion, FALSE) /\ UNCHANGED personVars

FocusChanges ==
  /\ focused' = ~focused
  /\ UNCHANGED <<held, missed, reportVars, wire, serverVars, requests, compositorVars>>

-----------------------------------------------------------------------------
(* The server's injector.                                                  *)

\* xkb_state_update_key(): a modifier goes when each press was released.
Counted(e) ==
  IF e.input \notin Modifiers THEN count
  ELSE [count EXCEPT ![e.input] = IF e.pressed THEN @ + 1 ELSE IF @ > 0 THEN @ - 1 ELSE 0]

Active(counts) == {m \in Modifiers : counts[m] > 0}

\* key() of the keyboard, button() or motion_absolute() of the pointer.
InputRequest(e, after) ==
  [kind |-> "input", input |-> e.input, pressed |-> e.pressed, after |-> after]

ModifiersRequest(active, after) == [kind |-> "modifiers", mods |-> active, after |-> after]

ModifiersFirst(e, after) ==      \* Mutant: modifiers() is called before key()
  <<ModifiersRequest(Active(Counted(e)), after), InputRequest(e, after)>>

StaleModifiers(e, after) ==      \* Mutant: update_key() comes after the modifiers
  <<InputRequest(e, after), ModifiersRequest(Active(count), after)>>

PressesOnly(e, after) ==         \* Mutant: modifiers are told when one is pressed
  <<InputRequest(e, after)>>
    \o IF e.pressed THEN <<ModifiersRequest(Active(Counted(e)), after)>> ELSE <<>>

\* The requests a key becomes, and those an event of the pointer does.
KeyRequests(e, after) ==
  <<InputRequest(e, after), ModifiersRequest(Active(Counted(e)), after)>>

PointerRequests(e, after) == <<InputRequest(e, after)>>

RequestsFor(e, after) ==
  IF DeviceOf(e.input) = "keyboard" THEN KeyRequests(e, after) ELSE PointerRequests(e, after)

InjectUnlessBlocked ==           \* Mutant: an event is dropped if the last flush was blocked
  /\ wire # <<>>
  /\ LET e   == Head(wire)
         d   == DeviceOf(e.input)
         now == With(injected, e.input, e.pressed)
         new == IF unwritten[d] = 0 THEN RequestsFor(e, now \cap InputsOf(d)) ELSE <<>>
     IN  /\ count' = Counted(e)
         /\ injected' = now
         /\ requests' = [requests EXCEPT ![d] = @ \o new]
         /\ \E n \in 0..unwritten[d] + Len(new) : unwritten' = [unwritten EXCEPT ![d] = n]
  /\ wire' = Tail(wire)
  /\ UNCHANGED <<personVars, reportVars, compositorVars>>

\* flush() writes what the socket takes. What it does not take stays for the
\* next event of the same device, the error is only logged.
Inject ==
  /\ wire # <<>>
  /\ LET e   == Head(wire)
         d   == DeviceOf(e.input)
         now == With(injected, e.input, e.pressed)
         new == RequestsFor(e, now \cap InputsOf(d))
     IN  /\ count' = Counted(e)
         /\ injected' = now
         /\ requests' = [requests EXCEPT ![d] = @ \o new]
         /\ \E n \in 0..unwritten[d] + Len(new) : unwritten' = [unwritten EXCEPT ![d] = n]
  /\ wire' = Tail(wire)
  /\ UNCHANGED <<personVars, reportVars, compositorVars>>

-----------------------------------------------------------------------------
(* The compositor reads the two connections in any order.                  *)

Apply(d) ==
  /\ Len(requests[d]) > unwritten[d]
  /\ LET r == Head(requests[d]) IN
       \/ r.kind = "input" /\ down' = With(down, r.input, r.pressed) /\ UNCHANGED mods
       \/ r.kind = "modifiers" /\ mods' = r.mods /\ UNCHANGED down
  /\ requests' = [requests EXCEPT ![d] = Tail(@)]
  /\ UNCHANGED <<personVars, reportVars, wire, serverVars>>

-----------------------------------------------------------------------------
Next ==
  \/ \E input \in Inputs :
       Press(input) \/ Release(input) \/ PressElsewhere(input) \/ ReleaseElsewhere(input)
  \/ \E key \in Keys : Repeat(key)
  \/ MovePointer \/ FocusChanges
  \/ Inject
  \/ \E d \in Device : Apply(d)

Spec == Init /\ [][Next]_vars

\* The input task runs and the compositor reads what reached its socket. Of
\* the person, and of a flush, nothing is assumed.
Fairness == WF_vars(Inject) /\ \A d \in Device : WF_vars(Apply(d))

FairSpec == Spec /\ Fairness

-----------------------------------------------------------------------------
(* Safety.                                                                 *)

\* What is down before the i-th element of a queue, if `start` is at its head.
Before(q, i, start) == IF i = 1 THEN start ELSE q[i - 1].after

Outcome(r, set) == IF r.kind = "input" THEN With(set, r.input, r.pressed) ELSE set

End(q, start) == IF q = <<>> THEN start ELSE q[Len(q)].after

\* The stream leads from what was injected to what was reported.
WireLeads ==
  /\ \A i \in 1..Len(wire) :
       wire[i].after = With(Before(wire, i, injected), wire[i].input, wire[i].pressed)
  /\ reported = End(wire, injected)

\* A device is asked only for inputs of its own.
Routed ==
  \A d \in Device : \A i \in 1..Len(requests[d]) :
    IF requests[d][i].kind = "input" THEN requests[d][i].input \in InputsOf(d) \cup {Motion}
                                     ELSE d = "keyboard"

\* A device's requests lead from what is down to what was injected.
RequestsLead ==
  \A d \in Device :
    /\ \A i \in 1..Len(requests[d]) :
         requests[d][i].after = Outcome(requests[d][i], Before(requests[d], i, down \cap InputsOf(d)))
    /\ injected \cap InputsOf(d) = End(requests[d], down \cap InputsOf(d))

\* The keyboard's next request is no announcement of modifiers.
NoneTold == requests["keyboard"] = <<>> \/ Head(requests["keyboard"]).kind = "input"

\* No key acts without a modifier that was pressed before it: whenever the
\* compositor comes to a key, or to the end of the keyboard's requests, it
\* has been told every modifier that is down, however flushes split them.
HeldModifiersTold == NoneTold => down \cap Modifiers \subseteq mods

\* And it has been told no other, as long as no modifier was released while
\* the window had not the focus, in spite of every other press and release
\* that went unseen.
ExactUnlessMissed == NoneTold /\ ~missed => mods = down \cap Modifiers

\* Once everything has arrived the compositor has down what was reported
\* down, though reports go two ways, some repeat and any flush may be blocked.
KeysFollowReports ==
  wire = <<>> /\ (\A d \in Device : requests[d] = <<>>) => down = reported

\* Each key request is followed by one that tells the modifiers there are.
Announced ==
  LET q == requests["keyboard"] IN
  \A i \in 1..Len(q) :
    /\ q[i].kind = "input" => i < Len(q) /\ q[i + 1].kind = "modifiers"
    /\ q[i].kind = "modifiers" =>
         /\ q[i].after \cap Modifiers \subseteq q[i].mods
         /\ ~missed => q[i].mods = q[i].after \cap Modifiers

\* xkb_state has a modifier that was injected, and has it once.
CountsInjected ==
  \A m \in Modifiers :
    /\ m \in injected => count[m] > 0
    /\ ~missed => count[m] = IF m \in injected THEN 1 ELSE 0

\* A modifier is not pressed twice in a row.
PressedOnce ==
  ~missed =>
    /\ reported \cap Modifiers \subseteq held
    /\ \A i \in 1..Len(wire) :
         wire[i].input \in Modifiers /\ wire[i].pressed => wire[i].input \notin Before(wire, i, injected)

IInv ==
  /\ TypeOK
  /\ WireLeads
  /\ Routed
  /\ RequestsLead
  /\ Announced
  /\ CountsInjected
  /\ PressedOnce
  /\ HeldModifiersTold
  /\ ExactUnlessMissed

\* What wlr_keyboard.rs:19-21 says of sending the modifiers after every key:
\* it keeps the compositor's state exact when modifiers are held. A modifier
\* released elsewhere and pressed again is counted twice and released once.
ModifiersExact ==
  wire = <<>> /\ requests["keyboard"] = <<>> => mods = down \cap Modifiers

-----------------------------------------------------------------------------
(* Liveness, under Fairness.                                               *)

\* In the end the compositor has down what was reported down. Only a blocked
\* flush with no event of its device to follow can withhold something.
KeysSettle == <>[](down = reported \/ \E d \in Device : unwritten[d] > 0)
=============================================================================
