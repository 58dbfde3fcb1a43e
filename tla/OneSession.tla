----------------------------- MODULE OneSession -----------------------------
(***************************************************************************)
(* What the server promises about its single slot ("one session, one       *)
(* client"): a connection is either admitted to the free slot or refused   *)
(* while another one holds it, never both; the holder opens at most one    *)
(* desktop session; and the slot passes on only once that session is over. *)
(* Only the death of the server process takes the slot from its holder.    *)
(***************************************************************************)

CONSTANTS
  Conn,       \* connection attempts
  NoConn      \* the slot is free

VARIABLES
  up,         \* the server process runs
  holder,     \* the connection that holds the slot, or NoConn
  session,    \* the holder's desktop session
  admitted,   \* connections that were ever given the slot
  refused     \* connections turned away

slot == <<up, holder, session, admitted, refused>>

Init ==
  /\ up = TRUE
  /\ holder = NoConn
  /\ session = "none"
  /\ admitted = {}
  /\ refused = {}

Admit(c) ==
  /\ up
  /\ holder = NoConn
  /\ c \notin admitted \cup refused
  /\ holder' = c
  /\ admitted' = admitted \cup {c}
  /\ UNCHANGED <<up, session, refused>>

Refuse(c) ==
  /\ up
  /\ holder # NoConn
  /\ c \notin admitted \cup refused
  /\ refused' = refused \cup {c}
  /\ UNCHANGED <<up, holder, session, admitted>>

OpenSession ==
  /\ holder # NoConn
  /\ session = "none"
  /\ session' = "open"
  /\ UNCHANGED <<up, holder, admitted, refused>>

EndSession ==
  /\ session = "open"
  /\ session' = "over"
  /\ UNCHANGED <<up, holder, admitted, refused>>

Release ==
  /\ holder # NoConn
  /\ session # "open"
  /\ holder' = NoConn
  /\ session' = "none"
  /\ UNCHANGED <<up, admitted, refused>>

Down ==
  /\ up
  /\ up' = FALSE
  /\ holder' = NoConn
  /\ session' = "none"
  /\ UNCHANGED <<admitted, refused>>

Up ==
  /\ ~up
  /\ up' = TRUE
  /\ UNCHANGED <<holder, session, admitted, refused>>

Next ==
  \/ \E c \in Conn : Admit(c) \/ Refuse(c)
  \/ OpenSession \/ EndSession \/ Release
  \/ Down \/ Up

Spec == Init /\ [][Next]_slot
=============================================================================
