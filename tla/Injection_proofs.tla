-------------------------- MODULE Injection_proofs --------------------------
(***************************************************************************)
(* Proofs about Injection, for any keys, modifiers and buttons, however    *)
(* many events are reported and however flushes are blocked: what is down  *)
(* follows what was reported, and which modifiers the compositor knows.    *)
(***************************************************************************)
EXTENDS Injection, TLAPS

USE InjectionAssumption DEF InjectionAssumption

-----------------------------------------------------------------------------
(* Queues.                                                                   *)

\* What is at which place once an element was put at the end.
LEMMA Appended ==
  ASSUME NEW S, NEW q \in Seq(S), NEW e \in S
  PROVE  /\ Append(q, e) \in Seq(S)
         /\ Len(Append(q, e)) = Len(q) + 1
         /\ \A i \in 1..Len(q) : Append(q, e)[i] = q[i]
         /\ Append(q, e)[Len(q) + 1] = e
  OBVIOUS

\* Two elements put at the end are two elements put there one by one.
LEMMA Concatenated ==
  ASSUME NEW S, NEW q \in Seq(S), NEW a \in S, NEW b \in S
  PROVE  /\ q \o <<a>> \in Seq(S)
         /\ Len(q \o <<a>>) = Len(q) + 1
         /\ \A i \in 1..Len(q) : (q \o <<a>>)[i] = q[i]
         /\ (q \o <<a>>)[Len(q) + 1] = a
         /\ q \o <<a, b>> \in Seq(S)
         /\ Len(q \o <<a, b>>) = Len(q) + 2
         /\ \A i \in 1..Len(q) : (q \o <<a, b>>)[i] = q[i]
         /\ (q \o <<a, b>>)[Len(q) + 1] = a
         /\ (q \o <<a, b>>)[Len(q) + 2] = b
  OBVIOUS

\* What is at which place once the first element was taken.
LEMMA Taken ==
  ASSUME NEW S, NEW q \in Seq(S), q # <<>>
  PROVE  /\ Head(q) = q[1] /\ q[1] \in S /\ Len(q) \in Nat \ {0}
         /\ Tail(q) \in Seq(S)
         /\ Len(Tail(q)) = Len(q) - 1
         /\ \A i \in 1..Len(Tail(q)) : Tail(q)[i] = q[i + 1]
  OBVIOUS

\* Keys and buttons are told apart, and motions from both.
LEMMA Apart ==
  /\ \A d \in Device : InputsOf(d) \subseteq Inputs
  /\ \A d \in Device, e \in Device : d # e => InputsOf(d) \cap InputsOf(e) = {}
  /\ \A input \in Inputs \cup {Motion} :
       /\ DeviceOf(input) \in Device
       /\ input \in InputsOf(DeviceOf(input)) \cup {Motion}
       /\ input \in Keys <=> DeviceOf(input) = "keyboard"
  /\ Motion \notin Inputs /\ Modifiers \subseteq Inputs
<1>1. \A d \in Device : InputsOf(d) \subseteq Inputs
  BY DEF Inputs, Device, InputsOf
<1>2. \A d \in Device, e \in Device : d # e => InputsOf(d) \cap InputsOf(e) = {}
  BY DEF Device, InputsOf
<1>3. ASSUME NEW input \in Inputs \cup {Motion}
      PROVE  /\ DeviceOf(input) \in Device
             /\ input \in InputsOf(DeviceOf(input)) \cup {Motion}
             /\ input \in Keys <=> DeviceOf(input) = "keyboard"
  BY DEF Inputs, Device, InputsOf, DeviceOf
<1>4. Motion \notin Inputs /\ Modifiers \subseteq Inputs
  BY DEF Inputs
<1> QED
  BY <1>1, <1>2, <1>3, <1>4

-----------------------------------------------------------------------------
(* The inductive invariant.                                                  *)

\* Nothing is down, nothing told and nothing on its way.
LEMMA InitIInv == Init => IInv
<1> SUFFICES ASSUME Init PROVE IInv
  OBVIOUS
<1>1. TypeOK
  <2>1. <<>> \in Seq(Request) /\ <<>> \in Seq(Event) /\ Len(<<>>) = 0
    OBVIOUS
  <2>2. requests \in [Device -> Seq(Request)] /\ \A d \in Device : requests[d] = <<>>
    BY <2>1 DEF Init
  <2>3. unwritten \in [Device -> Nat] /\ \A d \in Device : unwritten[d] <= Len(requests[d])
    BY <2>1, <2>2 DEF Init
  <2>4. count \in [Modifiers -> Nat] /\ reports \in 0..MaxReports
    BY DEF Init
  <2> QED
    BY <2>1, <2>2, <2>3, <2>4 DEF Init, TypeOK
<1>2. WireLeads /\ PressedOnce /\ CountsInjected
  BY DEF Init, WireLeads, PressedOnce, CountsInjected, End
<1>3. Routed /\ RequestsLead /\ Announced
  BY DEF Init, Routed, RequestsLead, Announced, End, Device
<1>4. HeldModifiersTold /\ ExactUnlessMissed
  BY DEF Init, HeldModifiersTold, ExactUnlessMissed
<1> QED
  BY <1>1, <1>2, <1>3, <1>4 DEF IInv

\* A report joins the end of the stream.
LEMMA ReportStep ==
  ASSUME IInv, NEW input, NEW pressed, Report(input, pressed), UNCHANGED <<focused, missed>>,
         held' \in SUBSET Inputs,
         \/ input \in Inputs /\ pressed \in BOOLEAN
         \/ input = Motion /\ pressed = FALSE,
         input \in Modifiers => (pressed => input \notin held) /\ held' = With(held, input, pressed),
         input \notin Modifiers => held' \cap Modifiers = held \cap Modifiers
  PROVE  IInv'
<1> USE DEF IInv
<1> DEFINE e == [input |-> input, pressed |-> pressed, after |-> With(reported, input, pressed)]
<1>1. With(reported, input, pressed) \in SUBSET Inputs /\ e \in Event
  BY DEF TypeOK, With, Event
<1>2. /\ wire' \in Seq(Event) /\ Len(wire') = Len(wire) + 1 /\ Len(wire) \in Nat
      /\ \A i \in 1..Len(wire) : wire'[i] = wire[i]
      /\ wire'[Len(wire) + 1] = e
      /\ wire = <<>> <=> Len(wire) = 0
      /\ wire' # <<>>
  <2>1. wire \in Seq(Event) /\ wire' = Append(wire, e)
    BY DEF Report, TypeOK
  <2> HIDE DEF e
  <2> QED
    BY <1>1, <2>1, Appended
<1>3. UNCHANGED <<injected, count, unwritten, requests, down, mods, focused, missed>>
  BY DEF Report, serverVars, compositorVars
<1>4. reported' = With(reported, input, pressed)
  BY DEF Report
<1>5. TypeOK'
  BY <1>1, <1>2, <1>3, <1>4 DEF TypeOK, Report
<1>6. \A i \in 1..Len(wire) + 1 :
        Before(wire', i, injected) = IF i = Len(wire) + 1 THEN reported ELSE Before(wire, i, injected)
  BY <1>2 DEF Before, WireLeads, End
<1>7. WireLeads'
  <2>1. ASSUME NEW i \in 1..Len(wire')
        PROVE  wire'[i].after = With(Before(wire', i, injected), wire'[i].input, wire'[i].pressed)
    <3>1. CASE i = Len(wire) + 1
      <4>1. Before(wire', i, injected) = reported
        BY <1>2, <1>6, <3>1
      <4> QED
        BY <1>2, <3>1, <4>1
    <3>2. CASE i # Len(wire) + 1
      <4>1. i \in 1..Len(wire) /\ wire'[i] = wire[i] /\ Before(wire', i, injected) = Before(wire, i, injected)
        BY <1>2, <1>6, <3>2
      <4> QED
        BY <4>1 DEF WireLeads
    <3> QED
      BY <3>1, <3>2
  <2>2. reported' = End(wire', injected)
    BY <1>2, <1>4 DEF End
  <2> QED
    BY <1>3, <2>1, <2>2 DEF WireLeads
<1>8. PressedOnce'
  <2> SUFFICES ASSUME ~missed
               PROVE  /\ reported' \cap Modifiers \subseteq held'
                      /\ \A i \in 1..Len(wire') :
                           wire'[i].input \in Modifiers /\ wire'[i].pressed
                             => wire'[i].input \notin Before(wire', i, injected)
    BY <1>3 DEF PressedOnce
  <2>1. reported' \cap Modifiers \subseteq held'
    BY <1>4 DEF PressedOnce, With
  <2>2. ASSUME NEW i \in 1..Len(wire'), wire'[i].input \in Modifiers, wire'[i].pressed
        PROVE  wire'[i].input \notin Before(wire', i, injected)
    <3>1. CASE i = Len(wire) + 1
      <4>1. wire'[i].input = input /\ wire'[i].pressed = pressed
        BY <1>2, <3>1
      <4>2. input \notin reported
        BY <4>1, <2>2 DEF PressedOnce
      <4> QED
        BY <1>2, <1>6, <3>1, <4>1, <4>2
    <3>2. CASE i # Len(wire) + 1
      BY <1>2, <1>6, <2>2, <3>2 DEF PressedOnce
    <3> QED
      BY <3>1, <3>2
  <2> QED
    BY <2>1, <2>2
<1>9. Routed' /\ RequestsLead' /\ Announced' /\ CountsInjected' /\ HeldModifiersTold' /\ ExactUnlessMissed'
  <2>1. Routed' /\ Announced' /\ CountsInjected'
    BY <1>3 DEF Routed, Announced, CountsInjected
  <2>2. RequestsLead'
    BY <1>3 DEF RequestsLead, Outcome, Before, End
  <2>3. HeldModifiersTold' /\ ExactUnlessMissed'
    BY <1>3 DEF HeldModifiersTold, ExactUnlessMissed, NoneTold
  <2> QED
    BY <2>1, <2>2, <2>3
<1> QED
  BY <1>5, <1>7, <1>8, <1>9

\* The steps of the person, whether or not the window sees them.
LEMMA PersonKeepsIInv ==
  ASSUME IInv,
         \/ \E input \in Inputs :
              Press(input) \/ Release(input) \/ PressElsewhere(input) \/ ReleaseElsewhere(input)
         \/ \E key \in Keys : Repeat(key)
         \/ MovePointer \/ FocusChanges
  PROVE  IInv'
<1>1. ASSUME NEW input \in Inputs, Press(input) \/ Release(input) PROVE IInv'
  <2> DEFINE pressed == input \notin held
  <2>1. Report(input, pressed) /\ UNCHANGED <<focused, missed>> /\ held' = With(held, input, pressed)
    BY <1>1 DEF Press, Release, With
  <2>2. held' \in SUBSET Inputs /\ (input \notin Modifiers => held' \cap Modifiers = held \cap Modifiers)
    BY <2>1 DEF IInv, TypeOK, With
  <2>3. pressed \in BOOLEAN /\ (pressed => input \notin held)
    OBVIOUS
  <2> HIDE DEF pressed
  <2> QED
    BY <2>1, <2>2, <2>3, ReportStep
<1>2. ASSUME NEW key \in Keys, Repeat(key) PROVE IInv'
  BY <1>2, ReportStep, Apart DEF Repeat, personVars, Inputs, IInv, TypeOK
<1>3. CASE MovePointer
  BY <1>3, ReportStep, Apart DEF MovePointer, personVars, IInv, TypeOK
<1>4. CASE FocusChanges \/ \E input \in Inputs : PressElsewhere(input) \/ ReleaseElsewhere(input)
  <2>1. UNCHANGED <<reported, reports, wire, injected, count, unwritten, requests, down, mods>>
    BY <1>4 DEF FocusChanges, PressElsewhere, ReleaseElsewhere, reportVars, serverVars, compositorVars
  <2>2. held' \in SUBSET Inputs /\ missed' \in BOOLEAN /\ focused' \in BOOLEAN
    BY <1>4 DEF FocusChanges, PressElsewhere, ReleaseElsewhere, IInv, TypeOK
  <2>3. missed => missed'
    BY <1>4 DEF FocusChanges, PressElsewhere, ReleaseElsewhere
  <2>4. ~missed' => reported \cap Modifiers \cap held \subseteq held'
    BY <1>4 DEF FocusChanges, PressElsewhere, ReleaseElsewhere
  <2>5. TypeOK' /\ WireLeads' /\ Routed' /\ RequestsLead'
    <3>1. TypeOK'
      BY <2>1, <2>2 DEF IInv, TypeOK
    <3>2. WireLeads'
      BY <2>1 DEF IInv, WireLeads, Before, End
    <3>3. Routed'
      BY <2>1 DEF IInv, Routed
    <3>4. RequestsLead'
      BY <2>1 DEF IInv, RequestsLead, Before, End, Outcome
    <3> QED
      BY <3>1, <3>2, <3>3, <3>4
  <2>6. Announced' /\ CountsInjected' /\ HeldModifiersTold' /\ ExactUnlessMissed'
    BY <2>1, <2>3 DEF IInv, Announced, CountsInjected, HeldModifiersTold, ExactUnlessMissed, NoneTold
  <2>7. PressedOnce'
    BY <2>1, <2>3, <2>4 DEF IInv, PressedOnce
  <2> QED
    BY <2>5, <2>6, <2>7 DEF IInv
<1> QED
  BY <1>1, <1>2, <1>3, <1>4

-----------------------------------------------------------------------------
(* Injection.                                                                *)

\* The event to be injected, the device it belongs to, and what that device
\* has down once it is.
Oldest == Head(wire)

Target == DeviceOf(Oldest.input)

DownNext == With(injected, Oldest.input, Oldest.pressed) \cap InputsOf(Target)

\* What is injected is the oldest event of the stream.
LEMMA InjectFacts ==
  ASSUME IInv, Inject
  PROVE  /\ Oldest = wire[1] /\ Oldest \in Event /\ Target \in Device
         /\ Oldest.pressed \in BOOLEAN
         /\ Oldest.input \in InputsOf(Target) \/ (Oldest.input = Motion /\ ~Oldest.pressed)
         /\ injected' = With(injected, Oldest.input, Oldest.pressed)
         /\ injected' = wire[1].after
         /\ injected' \in SUBSET Inputs
         /\ DownNext = injected' \cap InputsOf(Target)
         /\ wire' \in Seq(Event) /\ Len(wire) \in Nat \ {0} /\ Len(wire') = Len(wire) - 1
         /\ \A i \in 1..Len(wire') : wire'[i] = wire[i + 1]
<1>1. wire \in Seq(Event) /\ wire # <<>> /\ wire' = Tail(wire)
  BY DEF IInv, TypeOK, Inject
<1>2. /\ Oldest = wire[1] /\ Oldest \in Event /\ Len(wire) \in Nat \ {0}
      /\ wire' \in Seq(Event) /\ Len(wire') = Len(wire) - 1
      /\ \A i \in 1..Len(wire') : wire'[i] = wire[i + 1]
  BY <1>1, Taken DEF Oldest
<1>3. /\ Oldest.pressed \in BOOLEAN /\ Oldest.after \in SUBSET Inputs
      /\ Oldest.input \in Inputs \/ (Oldest.input = Motion /\ ~Oldest.pressed)
  BY <1>2 DEF Event
<1>4. Target \in Device /\ (Oldest.input \in InputsOf(Target) \/ (Oldest.input = Motion /\ ~Oldest.pressed))
  BY <1>3, Apart DEF Target
<1>5. injected' = With(injected, Oldest.input, Oldest.pressed)
  BY DEF Inject, Oldest
<1>6. wire[1].after = With(injected, Oldest.input, Oldest.pressed)
  BY <1>2 DEF IInv, WireLeads, Before
<1> QED
  BY <1>2, <1>3, <1>4, <1>5, <1>6 DEF DownNext

\* The rest of the stream leads on from what is injected now.
LEMMA InjectLeads ==
  ASSUME IInv, Inject
  PROVE  WireLeads' /\ PressedOnce'
<1> USE DEF IInv
<1>1. /\ injected' = wire[1].after
      /\ wire' \in Seq(Event) /\ Len(wire) \in Nat \ {0} /\ Len(wire') = Len(wire) - 1
      /\ \A i \in 1..Len(wire') : wire'[i] = wire[i + 1]
  BY InjectFacts
<1>2. UNCHANGED <<reported, held, missed>>
  BY DEF Inject, reportVars, personVars
<1>3. \A i \in 1..Len(wire') : Before(wire', i, injected') = Before(wire, i + 1, injected)
  BY <1>1 DEF Before
<1>4. reported = End(wire', injected')
  BY <1>1 DEF WireLeads, End
<1>5. WireLeads'
  <2> SUFFICES ASSUME NEW i \in 1..Len(wire')
               PROVE  wire'[i].after = With(Before(wire', i, injected'), wire'[i].input, wire'[i].pressed)
    BY <1>2, <1>4 DEF WireLeads
  <2>1. i + 1 \in 1..Len(wire) /\ wire'[i] = wire[i + 1]
    BY <1>1
  <2> QED
    BY <1>3, <2>1 DEF WireLeads
<1>6. PressedOnce'
  <2> SUFFICES ASSUME ~missed, NEW i \in 1..Len(wire'), wire'[i].input \in Modifiers, wire'[i].pressed
               PROVE  wire'[i].input \notin Before(wire', i, injected')
    BY <1>2 DEF PressedOnce
  <2>1. i + 1 \in 1..Len(wire) /\ wire'[i] = wire[i + 1]
    BY <1>1
  <2> QED
    BY <1>3, <2>1 DEF PressedOnce
<1> QED
  BY <1>5, <1>6

\* xkb_state follows what is injected, and so do the modifiers it tells.
LEMMA InjectCounts ==
  ASSUME IInv, Inject
  PROVE  /\ count' \in [Modifiers -> Nat]
         /\ CountsInjected'
         /\ injected' \cap Modifiers \subseteq Active(count')
         /\ ~missed => Active(count') = injected' \cap Modifiers
<1> USE DEF IInv
<1>1. /\ Oldest = wire[1] /\ Oldest.pressed \in BOOLEAN /\ 1 \in 1..Len(wire)
      /\ injected' = With(injected, Oldest.input, Oldest.pressed)
  BY InjectFacts
<1>2. count' = Counted(Oldest) /\ missed' = missed
  BY DEF Inject, personVars, Oldest
<1>3. ~missed /\ Oldest.input \in Modifiers /\ Oldest.pressed => Oldest.input \notin injected
  BY <1>1 DEF PressedOnce, Before
<1>4. count \in [Modifiers -> Nat]
  BY DEF TypeOK
<1>5. count' \in [Modifiers -> Nat]
  BY <1>2, <1>4 DEF Counted
<1>6. ASSUME NEW m \in Modifiers
      PROVE  /\ m \in injected' => count'[m] > 0
             /\ ~missed => count'[m] = IF m \in injected' THEN 1 ELSE 0
  <2>1. CASE Oldest.input = m
    <3>1. count'[m] = IF Oldest.pressed THEN count[m] + 1 ELSE IF count[m] > 0 THEN count[m] - 1 ELSE 0
      BY <1>2, <1>4, <2>1 DEF Counted
    <3>2. m \in injected' <=> Oldest.pressed
      BY <1>1, <2>1 DEF With
    <3>3. ~missed => count[m] = IF m \in injected THEN 1 ELSE 0
      BY DEF CountsInjected
    <3>4. count[m] \in Nat
      BY <1>4
    <3> QED
      BY <1>1, <1>3, <2>1, <3>1, <3>2, <3>3, <3>4
  <2>2. CASE Oldest.input # m
    <3>1. count'[m] = count[m]
      BY <1>2, <1>4, <2>2 DEF Counted
    <3>2. m \in injected' <=> m \in injected
      BY <1>1, <2>2 DEF With
    <3> QED
      BY <3>1, <3>2 DEF CountsInjected
  <2> QED
    BY <2>1, <2>2
<1>7. CountsInjected'
  BY <1>2, <1>6 DEF CountsInjected
<1>8. /\ injected' \cap Modifiers \subseteq Active(count')
      /\ ~missed => Active(count') = injected' \cap Modifiers
  BY <1>6 DEF Active
<1> QED
  BY <1>5, <1>7, <1>8

\* The requests of the device the event belongs to, place by place.
LEMMA InjectPlaces ==
  ASSUME IInv, Inject
  PROVE  /\ requests[Target] \in Seq(Request) /\ requests'[Target] \in Seq(Request)
         /\ Len(requests[Target]) \in Nat
         /\ Len(requests'[Target]) = Len(requests[Target]) + (IF Target = "keyboard" THEN 2 ELSE 1)
         /\ \A i \in 1..Len(requests[Target]) : requests'[Target][i] = requests[Target][i]
         /\ requests'[Target][Len(requests[Target]) + 1] = InputRequest(Oldest, DownNext)
         /\ Target = "keyboard" =>
              requests'[Target][Len(requests[Target]) + 2] = ModifiersRequest(Active(count'), DownNext)
         /\ \A x \in Device \ {Target} : requests'[x] = requests[x] /\ unwritten'[x] = unwritten[x]
         /\ requests' \in [Device -> Seq(Request)] /\ unwritten' \in [Device -> Nat]
         /\ unwritten'[Target] <= Len(requests'[Target])
<1> DEFINE key == InputRequest(Oldest, DownNext)
           told == ModifiersRequest(Active(count'), DownNext)
           new == RequestsFor(Oldest, DownNext)
           q == requests[Target]
           r == requests'[Target]
<1>1. Oldest \in Event /\ Target \in Device /\ DownNext \in SUBSET Inputs
  BY InjectFacts
<1>2. key \in Request
  BY <1>1 DEF InputRequest, Event, Request
<1>3. told \in Request
  BY <1>1 DEF ModifiersRequest, Request, Active
<1>4. new = IF Target = "keyboard" THEN <<key, told>> ELSE <<key>>
  BY DEF RequestsFor, KeyRequests, PointerRequests, Inject, Target, Oldest
<1>5. requests' = [requests EXCEPT ![Target] = @ \o new]
  BY DEF Inject, Target, Oldest, DownNext
<1>6. \E n \in 0..unwritten[Target] + Len(new) : unwritten' = [unwritten EXCEPT ![Target] = n]
  BY DEF Inject, Target, Oldest, DownNext
<1>7. /\ requests \in [Device -> Seq(Request)] /\ unwritten \in [Device -> Nat]
      /\ q \in Seq(Request) /\ Len(q) \in Nat
      /\ unwritten[Target] \in Nat /\ unwritten[Target] <= Len(q)
  BY <1>1 DEF IInv, TypeOK
<1>8. r = q \o new
  BY <1>1, <1>5, <1>7
<1> HIDE DEF key, told, new, q, r
<1>9. /\ r \in Seq(Request) /\ Len(new) \in Nat /\ Len(r) = Len(q) + Len(new)
      /\ Len(new) = IF Target = "keyboard" THEN 2 ELSE 1
      /\ \A i \in 1..Len(q) : r[i] = q[i]
      /\ r[Len(q) + 1] = key
      /\ Target = "keyboard" => r[Len(q) + 2] = told
  <2>1. CASE Target = "keyboard"
    BY <1>2, <1>3, <1>4, <1>7, <1>8, <2>1, Concatenated
  <2>2. CASE Target # "keyboard"
    BY <1>2, <1>3, <1>4, <1>7, <1>8, <2>2, Concatenated
  <2> QED
    BY <2>1, <2>2
<1>10. /\ \A x \in Device \ {Target} : unwritten'[x] = unwritten[x]
       /\ unwritten' \in [Device -> Nat] /\ unwritten'[Target] <= Len(r)
  <2>1. PICK n \in 0..unwritten[Target] + Len(new) : unwritten' = [unwritten EXCEPT ![Target] = n]
    BY <1>6
  <2>2. n \in Nat /\ n <= Len(r)
    BY <1>7, <1>9, <2>1
  <2> QED
    BY <1>1, <1>7, <2>1, <2>2
<1>11. /\ \A x \in Device \ {Target} : requests'[x] = requests[x]
       /\ requests' \in [Device -> Seq(Request)]
  BY <1>1, <1>5, <1>7, <1>8, <1>9 DEF q
<1> QED
  BY <1>7, <1>9, <1>10, <1>11 DEF key, told, q, r

\* The queues still lead to what is injected, each to its own inputs.
LEMMA InjectRequestsLead ==
  ASSUME IInv, Inject
  PROVE  Routed' /\ RequestsLead'
<1> DEFINE q == requests[Target]
           r == requests'[Target]
           start == down \cap InputsOf(Target)
<1>1. /\ Target \in Device /\ Oldest.pressed \in BOOLEAN
      /\ Oldest.input \in InputsOf(Target) \/ (Oldest.input = Motion /\ ~Oldest.pressed)
      /\ injected' = With(injected, Oldest.input, Oldest.pressed)
      /\ injected \in SUBSET Inputs
      /\ DownNext = injected' \cap InputsOf(Target)
  BY InjectFacts DEF IInv, TypeOK
<1>2. /\ Len(q) \in Nat /\ Len(r) = Len(q) + (IF Target = "keyboard" THEN 2 ELSE 1)
      /\ \A i \in 1..Len(q) : r[i] = q[i]
      /\ r[Len(q) + 1] = InputRequest(Oldest, DownNext)
      /\ Target = "keyboard" => r[Len(q) + 2] = ModifiersRequest(Active(count'), DownNext)
      /\ \A x \in Device \ {Target} : requests'[x] = requests[x]
      /\ q = <<>> <=> Len(q) = 0
      /\ r = <<>> <=> Len(r) = 0
  <2>1. q \in Seq(Request) /\ r \in Seq(Request)
    BY InjectPlaces
  <2>2. (q = <<>> <=> Len(q) = 0) /\ (r = <<>> <=> Len(r) = 0)
    BY <2>1
  <2> QED
    BY <2>2, InjectPlaces
<1>3. /\ With(injected \cap InputsOf(Target), Oldest.input, Oldest.pressed) = DownNext
      /\ \A x \in Device \ {Target} : injected' \cap InputsOf(x) = injected \cap InputsOf(x)
  <2>1. \A x \in Device : Motion \notin InputsOf(x)
    BY Apart
  <2>2. \A x \in Device \ {Target} : Oldest.input \notin InputsOf(x)
    BY <1>1, <2>1, Apart
  <2> QED
    BY <1>1, <2>1, <2>2 DEF With
<1>4. UNCHANGED <<down, mods, missed>>
  BY DEF Inject, compositorVars, personVars
<1>5. /\ r[Len(q) + 1].kind = "input" /\ r[Len(q) + 1].input = Oldest.input
      /\ r[Len(q) + 1].pressed = Oldest.pressed /\ r[Len(q) + 1].after = DownNext
      /\ Target = "keyboard" => r[Len(q) + 2].kind = "modifiers" /\ r[Len(q) + 2].after = DownNext
  BY <1>2 DEF InputRequest, ModifiersRequest
<1>6. /\ injected \cap InputsOf(Target) = End(q, start)
      /\ \A i \in 1..Len(q) : q[i].after = Outcome(q[i], Before(q, i, start))
      /\ \A i \in 1..Len(q) : IF q[i].kind = "input" THEN q[i].input \in InputsOf(Target) \cup {Motion}
                                                     ELSE Target = "keyboard"
  BY <1>1 DEF IInv, RequestsLead, Routed
<1>7. \A x \in Device \ {Target} :
        /\ injected \cap InputsOf(x) = End(requests[x], down \cap InputsOf(x))
        /\ \A i \in 1..Len(requests[x]) :
             requests[x][i].after = Outcome(requests[x][i], Before(requests[x], i, down \cap InputsOf(x)))
        /\ \A i \in 1..Len(requests[x]) :
             IF requests[x][i].kind = "input" THEN requests[x][i].input \in InputsOf(x) \cup {Motion}
                                              ELSE x = "keyboard"
  BY DEF IInv, RequestsLead, Routed
<1> HIDE DEF q, r, start
<1>8. \A i \in 1..Len(r) : IF r[i].kind = "input" THEN r[i].input \in InputsOf(Target) \cup {Motion}
                                                  ELSE Target = "keyboard"
  <2> SUFFICES ASSUME NEW i \in 1..Len(r)
               PROVE  IF r[i].kind = "input" THEN r[i].input \in InputsOf(Target) \cup {Motion}
                                             ELSE Target = "keyboard"
    OBVIOUS
  <2>1. CASE i \in 1..Len(q)
    BY <1>2, <1>6, <2>1
  <2>2. CASE i = Len(q) + 1
    BY <1>1, <1>5, <2>2
  <2>3. CASE Target = "keyboard" /\ i = Len(q) + 2
    BY <1>5, <2>3
  <2> QED
    BY <1>2, <2>1, <2>2, <2>3
<1>9. /\ \A i \in 1..Len(q) : Before(r, i, start) = Before(q, i, start)
      /\ Before(r, Len(q) + 1, start) = injected \cap InputsOf(Target)
      /\ Before(r, Len(q) + 2, start) = DownNext
      /\ End(r, start) = DownNext
  <2>1. \A i \in 1..Len(q) : Before(r, i, start) = Before(q, i, start)
    BY <1>2 DEF Before
  <2>2. Before(r, Len(q) + 1, start) = injected \cap InputsOf(Target)
    BY <1>2, <1>6 DEF Before, End
  <2>3. Before(r, Len(q) + 2, start) = DownNext
    BY <1>2, <1>5 DEF Before
  <2>4. End(r, start) = DownNext
    BY <1>2, <1>5 DEF End
  <2> QED
    BY <2>1, <2>2, <2>3, <2>4
<1>10. \A i \in 1..Len(r) : r[i].after = Outcome(r[i], Before(r, i, start))
  <2> SUFFICES ASSUME NEW i \in 1..Len(r) PROVE r[i].after = Outcome(r[i], Before(r, i, start))
    OBVIOUS
  <2>1. CASE i \in 1..Len(q)
    BY <1>2, <1>6, <1>9, <2>1
  <2>2. CASE i = Len(q) + 1
    BY <1>3, <1>5, <1>9, <2>2 DEF Outcome
  <2>3. CASE Target = "keyboard" /\ i = Len(q) + 2
    BY <1>5, <1>9, <2>3 DEF Outcome
  <2> QED
    BY <1>2, <2>1, <2>2, <2>3
<1>11. Routed'
  <2> SUFFICES ASSUME NEW x \in Device, NEW i \in 1..Len(requests'[x])
               PROVE  IF requests'[x][i].kind = "input"
                      THEN requests'[x][i].input \in InputsOf(x) \cup {Motion} ELSE x = "keyboard"
    BY DEF Routed
  <2>1. CASE x = Target
    BY <1>8, <2>1 DEF r
  <2>2. CASE x # Target
    <3>1. x \in Device \ {Target} /\ requests'[x] = requests[x] /\ i \in 1..Len(requests[x])
      BY <1>2, <2>2
    <3>2. IF requests[x][i].kind = "input" THEN requests[x][i].input \in InputsOf(x) \cup {Motion}
                                           ELSE x = "keyboard"
      BY <1>7, <3>1
    <3> QED
      BY <3>1, <3>2
  <2> QED
    BY <2>1, <2>2
<1>12. RequestsLead'
  <2> SUFFICES ASSUME NEW x \in Device
               PROVE  /\ \A i \in 1..Len(requests'[x]) :
                           requests'[x][i].after
                             = Outcome(requests'[x][i], Before(requests'[x], i, down \cap InputsOf(x)))
                      /\ injected' \cap InputsOf(x) = End(requests'[x], down \cap InputsOf(x))
    BY <1>4 DEF RequestsLead
  <2>1. CASE x = Target
    BY <1>1, <1>9, <1>10, <2>1 DEF r, start
  <2>2. CASE x # Target
    <3>1. requests'[x] = requests[x] /\ injected' \cap InputsOf(x) = injected \cap InputsOf(x)
      BY <1>2, <1>3, <2>2
    <3>2. x \in Device \ {Target}
      BY <2>2
    <3> QED
      BY <1>7, <3>1, <3>2
  <2> QED
    BY <2>1, <2>2
<1> QED
  BY <1>11, <1>12

\* The keyboard's requests still come in pairs, and tell what they must.
LEMMA InjectTells ==
  ASSUME IInv, Inject
  PROVE  Announced' /\ HeldModifiersTold' /\ ExactUnlessMissed'
<1> DEFINE q == requests["keyboard"]
           r == requests'["keyboard"]
<1>1. UNCHANGED <<down, mods, missed>>
  BY DEF Inject, compositorVars, personVars
<1>2. \A i \in 1..Len(q) :
        /\ q[i].kind = "input" => i < Len(q) /\ q[i + 1].kind = "modifiers"
        /\ q[i].kind = "modifiers" =>
             /\ q[i].after \cap Modifiers \subseteq q[i].mods
             /\ ~missed => q[i].mods = q[i].after \cap Modifiers
  BY DEF IInv, Announced
<1>3. CASE Target # "keyboard"
  <2>1. requests'["keyboard"] = requests["keyboard"]
    BY <1>3, InjectPlaces, InjectFacts DEF Device
  <2> QED
    BY <1>1, <2>1 DEF IInv, Announced, HeldModifiersTold, ExactUnlessMissed, NoneTold
<1>4. CASE Target = "keyboard"
  <2>1. /\ q \in Seq(Request) /\ r \in Seq(Request)
        /\ Len(q) \in Nat /\ Len(r) = Len(q) + 2
        /\ \A i \in 1..Len(q) : r[i] = q[i]
        /\ r[Len(q) + 1] = InputRequest(Oldest, DownNext)
        /\ r[Len(q) + 2] = ModifiersRequest(Active(count'), DownNext)
    BY <1>4, InjectPlaces
  <2>2. /\ r[Len(q) + 1].kind = "input" /\ r[Len(q) + 2].kind = "modifiers"
        /\ r[Len(q) + 2].after = DownNext /\ r[Len(q) + 2].mods = Active(count')
    BY <2>1 DEF InputRequest, ModifiersRequest
  <2>3. DownNext \cap Modifiers = injected' \cap Modifiers
    BY <1>4, InjectFacts DEF InputsOf
  <2>4. /\ DownNext \cap Modifiers \subseteq Active(count')
        /\ ~missed => Active(count') = DownNext \cap Modifiers
    BY <2>3, InjectCounts
  <2>5. (q = <<>> <=> Len(q) = 0) /\ (q # <<>> => Head(q) = q[1]) /\ r # <<>> /\ Head(r) = r[1]
    BY <2>1
  <2> HIDE DEF q, r
  <2>6. \A i \in 1..Len(r) :
          /\ r[i].kind = "input" => i < Len(r) /\ r[i + 1].kind = "modifiers"
          /\ r[i].kind = "modifiers" =>
               /\ r[i].after \cap Modifiers \subseteq r[i].mods
               /\ ~missed => r[i].mods = r[i].after \cap Modifiers
    <3> SUFFICES ASSUME NEW i \in 1..Len(r)
                 PROVE  /\ r[i].kind = "input" => i < Len(r) /\ r[i + 1].kind = "modifiers"
                        /\ r[i].kind = "modifiers" =>
                             /\ r[i].after \cap Modifiers \subseteq r[i].mods
                             /\ ~missed => r[i].mods = r[i].after \cap Modifiers
      OBVIOUS
    <3>1. CASE i \in 1..Len(q)
      BY <1>2, <2>1, <3>1
    <3>2. CASE i = Len(q) + 1
      BY <2>1, <2>2, <3>2
    <3>3. CASE i = Len(q) + 2
      BY <2>1, <2>2, <2>4, <3>3
    <3> QED
      BY <2>1, <3>1, <3>2, <3>3
  <2>7. Announced'
    BY <1>1, <2>6 DEF Announced, r
  <2>8. NoneTold' => NoneTold
    <3>1. q # <<>> => Head(r) = Head(q)
      BY <2>1, <2>5
    <3> QED
      BY <2>5, <3>1 DEF NoneTold, q, r
  <2> QED
    BY <1>1, <2>7, <2>8 DEF IInv, HeldModifiersTold, ExactUnlessMissed
<1> QED
  BY <1>3, <1>4

\* Injecting an event keeps the invariant.
LEMMA InjectKeepsIInv == ASSUME IInv, Inject PROVE IInv'
<1>1. /\ injected' \in SUBSET Inputs /\ wire' \in Seq(Event) /\ Target \in Device
      /\ count' \in [Modifiers -> Nat]
      /\ requests' \in [Device -> Seq(Request)] /\ unwritten' \in [Device -> Nat]
      /\ unwritten'[Target] <= Len(requests'[Target])
      /\ \A x \in Device \ {Target} : requests'[x] = requests[x] /\ unwritten'[x] = unwritten[x]
  BY InjectFacts, InjectCounts, InjectPlaces
<1>2. \A x \in Device : unwritten'[x] <= Len(requests'[x])
  BY <1>1 DEF IInv, TypeOK
<1>3. TypeOK'
  BY <1>1, <1>2 DEF IInv, TypeOK, Inject, personVars, reportVars, compositorVars
<1> QED
  BY <1>3, InjectLeads, InjectCounts, InjectRequestsLead, InjectTells DEF IInv

-----------------------------------------------------------------------------
(* The compositor.                                                           *)

\* The request a device's connection hands over, and what follows it.
LEMMA ApplyFacts ==
  ASSUME IInv, NEW d \in Device, Apply(d)
  PROVE  /\ requests[d] \in Seq(Request) /\ Len(requests[d]) \in Nat \ {0}
         /\ Head(requests[d]) = requests[d][1] /\ requests[d][1] \in Request
         /\ requests'[d] \in Seq(Request)
         /\ Len(requests'[d]) = Len(requests[d]) - 1
         /\ \A i \in 1..Len(requests'[d]) : requests'[d][i] = requests[d][i + 1]
         /\ \A x \in Device \ {d} : requests'[x] = requests[x]
         /\ requests' \in [Device -> Seq(Request)]
         /\ unwritten[d] \in Nat /\ unwritten[d] <= Len(requests'[d])
<1>1. /\ requests \in [Device -> Seq(Request)] /\ unwritten \in [Device -> Nat]
      /\ requests[d] \in Seq(Request) /\ unwritten[d] \in Nat /\ Len(requests[d]) > unwritten[d]
      /\ requests' = [requests EXCEPT ![d] = Tail(requests[d])]
  BY DEF IInv, TypeOK, Apply
<1>2. requests[d] # <<>> /\ Len(requests[d]) \in Nat
  BY <1>1
<1>3. requests'[d] = Tail(requests[d])
  BY <1>1
<1>4. /\ Len(requests[d]) \in Nat \ {0}
      /\ Head(requests[d]) = requests[d][1] /\ requests[d][1] \in Request
      /\ requests'[d] \in Seq(Request)
      /\ Len(requests'[d]) = Len(requests[d]) - 1
      /\ \A i \in 1..Len(requests'[d]) : requests'[d][i] = requests[d][i + 1]
  BY <1>1, <1>2, <1>3, Taken
<1>5. /\ \A x \in Device \ {d} : requests'[x] = requests[x]
      /\ requests' \in [Device -> Seq(Request)]
  BY <1>1, <1>4
<1> QED
  BY <1>1, <1>4, <1>5

\* What is down for a device is what its oldest request leaves there.
LEMMA ApplyDown ==
  ASSUME IInv, NEW d \in Device, Apply(d)
  PROVE  /\ down' \in SUBSET Inputs /\ mods' \in SUBSET Modifiers
         /\ down' \cap InputsOf(d) = requests[d][1].after
         /\ \A x \in Device \ {d} : down' \cap InputsOf(x) = down \cap InputsOf(x)
<1> DEFINE r == requests[d][1]
<1>1. /\ Head(requests[d]) = r /\ r \in Request /\ 1 \in 1..Len(requests[d])
  BY ApplyFacts
<1>2. r.after = Outcome(r, down \cap InputsOf(d))
  BY <1>1 DEF IInv, RequestsLead, Before
<1>3. IF r.kind = "input" THEN r.input \in InputsOf(d) \cup {Motion} ELSE d = "keyboard"
  BY <1>1 DEF IInv, Routed
<1>4. /\ r.kind \in {"input", "modifiers"}
      /\ r.kind = "input" => (r.input \in Inputs /\ r.pressed \in BOOLEAN) \/ (r.input = Motion /\ r.pressed = FALSE)
      /\ r.kind = "modifiers" => r.mods \in SUBSET Modifiers
  BY <1>1 DEF Request
<1>5. \/ r.kind = "input" /\ down' = With(down, r.input, r.pressed) /\ mods' = mods
      \/ r.kind = "modifiers" /\ mods' = r.mods /\ down' = down
  BY <1>1 DEF Apply
<1>6. down \in SUBSET Inputs /\ mods \in SUBSET Modifiers
  BY DEF IInv, TypeOK
<1> HIDE DEF r
<1>7. CASE r.kind = "input"
  <2>1. \A x \in Device : Motion \notin InputsOf(x)
    BY Apart
  <2>2. \A x \in Device \ {d} : r.input \notin InputsOf(x)
    BY <1>3, <1>7, <2>1, Apart
  <2>3. r.input \in InputsOf(d) \/ r.pressed = FALSE
    BY <1>3, <1>4, <1>7, <2>1, Apart
  <2>4. down' = With(down, r.input, r.pressed) /\ mods' = mods
    BY <1>5, <1>7
  <2>5. down' \in SUBSET Inputs /\ mods' \in SUBSET Modifiers
    BY <1>4, <1>6, <1>7, <2>4 DEF With
  <2>6. down' \cap InputsOf(d) = r.after
    BY <1>2, <1>7, <2>3, <2>4 DEF With, Outcome
  <2>7. \A x \in Device \ {d} : down' \cap InputsOf(x) = down \cap InputsOf(x)
    BY <2>2, <2>4 DEF With
  <2> QED
    BY <2>5, <2>6, <2>7 DEF r
<1>8. CASE r.kind = "modifiers"
  BY <1>2, <1>4, <1>5, <1>6, <1>8 DEF Outcome, r
<1> QED
  BY <1>4, <1>7, <1>8

\* The queues lead on from what is down now.
LEMMA ApplyRequestsLead ==
  ASSUME IInv, NEW d \in Device, Apply(d)
  PROVE  Routed' /\ RequestsLead'
<1> DEFINE q == requests[d]
           r == requests'[d]
           start == down \cap InputsOf(d)
           next == down' \cap InputsOf(d)
<1>1. /\ Len(q) \in Nat \ {0} /\ Len(r) = Len(q) - 1
      /\ \A i \in 1..Len(r) : r[i] = q[i + 1]
      /\ \A x \in Device \ {d} : requests'[x] = requests[x]
      /\ r = <<>> <=> Len(r) = 0
      /\ q # <<>>
  <2>1. q \in Seq(Request) /\ r \in Seq(Request) /\ Len(q) \in Nat \ {0}
    BY ApplyFacts
  <2>2. (r = <<>> <=> Len(r) = 0) /\ q # <<>>
    BY <2>1
  <2> QED
    BY <2>1, <2>2, ApplyFacts
<1>2. /\ next = q[1].after
      /\ \A x \in Device \ {d} : down' \cap InputsOf(x) = down \cap InputsOf(x)
  BY ApplyDown
<1>3. UNCHANGED injected
  BY DEF Apply, serverVars
<1>4. /\ injected \cap InputsOf(d) = End(q, start)
      /\ \A i \in 1..Len(q) : q[i].after = Outcome(q[i], Before(q, i, start))
      /\ \A i \in 1..Len(q) : IF q[i].kind = "input" THEN q[i].input \in InputsOf(d) \cup {Motion}
                                                     ELSE d = "keyboard"
  BY DEF IInv, RequestsLead, Routed
<1>5. \A x \in Device \ {d} :
        /\ injected \cap InputsOf(x) = End(requests[x], down \cap InputsOf(x))
        /\ \A i \in 1..Len(requests[x]) :
             requests[x][i].after = Outcome(requests[x][i], Before(requests[x], i, down \cap InputsOf(x)))
        /\ \A i \in 1..Len(requests[x]) :
             IF requests[x][i].kind = "input" THEN requests[x][i].input \in InputsOf(x) \cup {Motion}
                                              ELSE x = "keyboard"
  BY DEF IInv, RequestsLead, Routed
<1> HIDE DEF q, r, start, next
<1>6. \A i \in 1..Len(r) : Before(r, i, next) = Before(q, i + 1, start)
  BY <1>1, <1>2 DEF Before
<1>7. injected \cap InputsOf(d) = End(r, next)
  BY <1>1, <1>2, <1>4 DEF End
<1>8. \A i \in 1..Len(r) :
        /\ r[i].after = Outcome(r[i], Before(r, i, next))
        /\ IF r[i].kind = "input" THEN r[i].input \in InputsOf(d) \cup {Motion} ELSE d = "keyboard"
  <2> SUFFICES ASSUME NEW i \in 1..Len(r)
               PROVE  /\ r[i].after = Outcome(r[i], Before(r, i, next))
                      /\ IF r[i].kind = "input" THEN r[i].input \in InputsOf(d) \cup {Motion}
                                                ELSE d = "keyboard"
    OBVIOUS
  <2>1. i + 1 \in 1..Len(q) /\ r[i] = q[i + 1] /\ Before(r, i, next) = Before(q, i + 1, start)
    BY <1>1, <1>6
  <2> QED
    BY <1>4, <2>1
<1>9. \A x \in Device :
        /\ injected' \cap InputsOf(x) = End(requests'[x], down' \cap InputsOf(x))
        /\ \A i \in 1..Len(requests'[x]) :
             /\ requests'[x][i].after
                  = Outcome(requests'[x][i], Before(requests'[x], i, down' \cap InputsOf(x)))
             /\ IF requests'[x][i].kind = "input" THEN requests'[x][i].input \in InputsOf(x) \cup {Motion}
                                                   ELSE x = "keyboard"
  <2> SUFFICES ASSUME NEW x \in Device
               PROVE  /\ injected \cap InputsOf(x) = End(requests'[x], down' \cap InputsOf(x))
                      /\ \A i \in 1..Len(requests'[x]) :
                           /\ requests'[x][i].after
                                = Outcome(requests'[x][i], Before(requests'[x], i, down' \cap InputsOf(x)))
                           /\ IF requests'[x][i].kind = "input"
                              THEN requests'[x][i].input \in InputsOf(x) \cup {Motion} ELSE x = "keyboard"
    BY <1>3
  <2>1. CASE x = d
    BY <1>7, <1>8, <2>1 DEF r, next
  <2>2. CASE x # d
    <3>1. x \in Device \ {d} /\ requests'[x] = requests[x] /\ down' \cap InputsOf(x) = down \cap InputsOf(x)
      BY <1>1, <1>2, <2>2
    <3>2. /\ injected \cap InputsOf(x) = End(requests[x], down \cap InputsOf(x))
          /\ \A i \in 1..Len(requests[x]) :
               requests[x][i].after = Outcome(requests[x][i], Before(requests[x], i, down \cap InputsOf(x)))
          /\ \A i \in 1..Len(requests[x]) :
               IF requests[x][i].kind = "input" THEN requests[x][i].input \in InputsOf(x) \cup {Motion}
                                                ELSE x = "keyboard"
      BY <1>5, <3>1
    <3> QED
      BY <3>1, <3>2
  <2> QED
    BY <2>1, <2>2
<1> QED
  BY <1>9 DEF Routed, RequestsLead

\* Whether the compositor comes to a key, or to the modifiers told after it.
LEMMA ApplyTells ==
  ASSUME IInv, NEW d \in Device, Apply(d)
  PROVE  Announced' /\ HeldModifiersTold' /\ ExactUnlessMissed'
<1> DEFINE q == requests["keyboard"]
           r == requests'["keyboard"]
<1>1. UNCHANGED missed
  BY DEF Apply, personVars
<1>2. \A i \in 1..Len(q) :
        /\ q[i].kind = "input" => i < Len(q) /\ q[i + 1].kind = "modifiers"
        /\ q[i].kind = "modifiers" =>
             /\ q[i].after \cap Modifiers \subseteq q[i].mods
             /\ ~missed => q[i].mods = q[i].after \cap Modifiers
  BY DEF IInv, Announced
<1>3. Modifiers \subseteq InputsOf("keyboard") /\ "keyboard" \in Device
  BY DEF InputsOf, Device
<1>4. CASE d # "keyboard"
  <2>1. requests'["keyboard"] = requests["keyboard"] /\ down' \cap InputsOf("keyboard") = down \cap InputsOf("keyboard")
    BY <1>3, <1>4, ApplyFacts, ApplyDown
  <2>2. down' \cap Modifiers = down \cap Modifiers
    BY <1>3, <2>1
  <2>3. requests[d][1].kind = "input"
    BY <1>4, ApplyFacts DEF IInv, Routed
  <2>4. mods' = mods
    BY <2>3, ApplyFacts DEF Apply
  <2> QED
    BY <1>1, <2>1, <2>2, <2>4 DEF IInv, Announced, HeldModifiersTold, ExactUnlessMissed, NoneTold
<1>5. CASE d = "keyboard"
  <2>1. /\ q \in Seq(Request) /\ r \in Seq(Request) /\ Len(q) \in Nat \ {0}
        /\ Head(q) = q[1] /\ q[1] \in Request
        /\ Len(r) = Len(q) - 1 /\ \A i \in 1..Len(r) : r[i] = q[i + 1]
    BY <1>5, ApplyFacts
  <2>2. /\ q[1].kind = "input" => mods' = mods
        /\ q[1].kind = "modifiers" => mods' = q[1].mods
        /\ q[1].kind \in {"input", "modifiers"}
    BY <1>5, <2>1 DEF Apply, Request
  <2>3. down' \cap Modifiers = q[1].after \cap Modifiers
    BY <1>3, <1>5, ApplyDown
  <2>4. r # <<>> => Head(r) = r[1]
    BY <2>1
  <2> HIDE DEF q, r
  <2>5. r = <<>> <=> Len(r) = 0
    BY <2>1
  <2>6. \A i \in 1..Len(r) :
          /\ r[i].kind = "input" => i < Len(r) /\ r[i + 1].kind = "modifiers"
          /\ r[i].kind = "modifiers" =>
               /\ r[i].after \cap Modifiers \subseteq r[i].mods
               /\ ~missed => r[i].mods = r[i].after \cap Modifiers
    <3> SUFFICES ASSUME NEW i \in 1..Len(r)
                 PROVE  /\ r[i].kind = "input" => i < Len(r) /\ r[i + 1].kind = "modifiers"
                        /\ r[i].kind = "modifiers" =>
                             /\ r[i].after \cap Modifiers \subseteq r[i].mods
                             /\ ~missed => r[i].mods = r[i].after \cap Modifiers
      OBVIOUS
    <3>1. i + 1 \in 1..Len(q) /\ r[i] = q[i + 1] /\ (i < Len(r) => r[i + 1] = q[i + 2])
      BY <2>1
    <3>2. q[i + 1].kind = "input" => i + 1 < Len(q) /\ q[i + 2].kind = "modifiers"
      BY <1>2, <3>1
    <3> QED
      BY <1>2, <2>1, <3>1, <3>2
  <2>7. Announced'
    BY <1>1, <2>6 DEF Announced, r
  <2>8. CASE q[1].kind = "input"
    <3>1. r # <<>> /\ Head(r).kind = "modifiers"
      BY <1>2, <2>1, <2>4, <2>5, <2>8
    <3> QED
      BY <2>7, <3>1 DEF HeldModifiersTold, ExactUnlessMissed, NoneTold, r
  <2>9. CASE q[1].kind = "modifiers"
    <3>1. q[1].after \cap Modifiers \subseteq q[1].mods /\ (~missed => q[1].mods = q[1].after \cap Modifiers)
      BY <1>2, <2>1, <2>9
    <3> QED
      BY <1>1, <2>2, <2>3, <2>7, <2>9, <3>1 DEF HeldModifiersTold, ExactUnlessMissed
  <2> QED
    BY <2>2, <2>8, <2>9
<1> QED
  BY <1>4, <1>5

\* Applying a request keeps the invariant.
LEMMA ApplyKeepsIInv == ASSUME IInv, NEW d \in Device, Apply(d) PROVE IInv'
<1>1. UNCHANGED <<focused, held, missed, reported, reports, wire, injected, count, unwritten>>
  BY DEF Apply, personVars, reportVars, serverVars
<1>2. TypeOK'
  <2>1. \A x \in Device : unwritten[x] <= Len(requests'[x])
    BY ApplyFacts DEF IInv, TypeOK
  <2> QED
    BY <1>1, <2>1, ApplyFacts, ApplyDown DEF IInv, TypeOK
<1>3. WireLeads'
  BY <1>1 DEF IInv, WireLeads, Before, End
<1>4. CountsInjected' /\ PressedOnce'
  BY <1>1 DEF IInv, CountsInjected, PressedOnce, Before
<1> QED
  BY <1>2, <1>3, <1>4, ApplyRequestsLead, ApplyTells DEF IInv

-----------------------------------------------------------------------------
(* The theorems.                                                             *)

\* Every step keeps the invariant.
LEMMA NextIInv == IInv /\ [Next]_vars => IInv'
<1> SUFFICES ASSUME IInv, [Next]_vars PROVE IInv'
  OBVIOUS
<1>1. CASE UNCHANGED vars
  <2>1. UNCHANGED <<focused, held, missed, reported, reports, wire, injected, count, unwritten, requests, down, mods>>
    BY <1>1 DEF vars, personVars, reportVars, serverVars, compositorVars
  <2>2. TypeOK'
    BY <2>1 DEF IInv, TypeOK
  <2>3. WireLeads' /\ PressedOnce'
    BY <2>1 DEF IInv, WireLeads, PressedOnce, Before, End
  <2>4. Routed' /\ CountsInjected' /\ Announced'
    BY <2>1 DEF IInv, Routed, CountsInjected, Announced
  <2>5. RequestsLead'
    BY <2>1 DEF IInv, RequestsLead, Outcome, Before, End
  <2>6. HeldModifiersTold' /\ ExactUnlessMissed'
    BY <2>1 DEF IInv, HeldModifiersTold, ExactUnlessMissed, NoneTold
  <2> QED
    BY <2>2, <2>3, <2>4, <2>5, <2>6 DEF IInv
<1>2. CASE Next
  BY <1>2, PersonKeepsIInv, InjectKeepsIInv, ApplyKeepsIInv DEF Next
<1> QED
  BY <1>1, <1>2

\* The stream and both queues always lead from what is down for the
\* compositor to what the person's window reported.
THEOREM Safety == Spec => []IInv
  BY InitIInv, NextIInv, PTL DEF Spec

\* A key never acts without a modifier pressed before it.
THEOREM ModifiersArrive == Spec => []HeldModifiersTold
<1>1. IInv => HeldModifiersTold
  BY DEF IInv
<1> QED
  BY <1>1, Safety, PTL

\* The modifiers are exact unless one was released out of the window's sight.
THEOREM ModifiersAreExact == Spec => []ExactUnlessMissed
<1>1. IInv => ExactUnlessMissed
  BY DEF IInv
<1> QED
  BY <1>1, Safety, PTL

\* Once all has arrived, what is down is what was reported down.
THEOREM KeysArrive == Spec => []KeysFollowReports
<1>1. IInv => KeysFollowReports
  <2> SUFFICES ASSUME IInv, wire = <<>>, \A d \in Device : requests[d] = <<>> PROVE down = reported
    BY DEF KeysFollowReports
  <2>1. injected = reported
    BY DEF IInv, WireLeads, End
  <2>2. \A d \in Device : injected \cap InputsOf(d) = down \cap InputsOf(d)
    BY DEF IInv, RequestsLead, End
  <2>3. injected \cap Keys = down \cap Keys /\ injected \cap Buttons = down \cap Buttons
    BY <2>2 DEF Device, InputsOf
  <2>4. injected \subseteq Keys \cup Buttons /\ down \subseteq Keys \cup Buttons
    BY DEF IInv, TypeOK, Inputs
  <2> QED
    BY <2>1, <2>3, <2>4
<1> QED
  BY <1>1, Safety, PTL
=============================================================================
