-------------------------------- MODULE Trust --------------------------------
(***************************************************************************)
(* Who is paired with whom: the server's PairedClients file, each client's *)
(* TrustStore file, the decision both sides take from their own file, the  *)
(* pairing ceremony (dragonvnc-net/src/pairing.rs) and the Hello/Welcome   *)
(* exchange that follow it in handle_connection() and                      *)
(* connect_and_handshake(), and `dragonvnc-server clients revoke`, which   *)
(* is a process of its own on the server's file.                           *)
(*                                                                         *)
(* The server has one slot, so it handshakes with one client at a time. A  *)
(* frame is its kind, a confirmation also its value: that of the key which *)
(* the server's code gives in this exchange, or of another. What is on the *)
(* other end of a connection is a program of this repository, which sends  *)
(* the value it derived itself. Files are written by fs::write, which      *)
(* truncates first.                                                        *)
(***************************************************************************)
EXTENDS Naturals, Sequences

CONSTANTS
  Client,      \* client devices, each with its own certificate
  Nobody,
  MaxDials,    \* bound on connection attempts
  MaxRevokes,  \* bound on runs of `clients revoke`
  MaxCrashes   \* bound on crashes of server, clients and CLI and on failed writes

ASSUME TrustAssumption ==
  /\ Nobody \notin Client
  /\ MaxDials \in Nat /\ MaxRevokes \in Nat /\ MaxCrashes \in Nat

VARIABLES
  paired,     \* the server's file: a set of fingerprints, or Torn
  pin,        \* each client's file, as to this server
  cpc,        \* each client's place in connect_and_handshake()
  typed,      \* the client was given the right code for this attempt
  link,       \* the client's connection is up
  up, down,   \* frames on their way to the server, to the client
  peer,       \* the client whose connection the server handles, or Nobody
  spc,        \* the server's place in handle_connection()
  store,      \* the handler's PairedClients, read when it started
  cli,        \* `clients revoke`: its place
  cliStore,   \* and what it read
  victim,     \* and whom it revokes
  entered,    \* history: clients that derived the server's key in some ceremony
  revoked,    \* history: clients revoked since they last paired
  dials, revokes, crashes

clientVars == <<pin, cpc, typed>>
netVars == <<link, up, down>>
serverVars == <<peer, spc, store>>
cliVars == <<cli, cliStore, victim>>
boundVars == <<dials, revokes, crashes>>
vars == <<paired, clientVars, netVars, serverVars, cliVars, entered, revoked, boundVars>>

\* A truncated file, which does not deserialize: no set of clients.
Torn == {Nobody}

\* A ceremony's confirmation is "confirm" where it was made from the key the
\* server derives, and "other" where another code went into it.
Confirmation == {"confirm", "other"}

Frame == {"spake", "hello", "welcome"} \cup Confirmation

TypeOK ==
  /\ paired \in (SUBSET Client) \cup {Torn}
  /\ pin \in [Client -> {"none", "pinned", "torn"}]
  /\ cpc \in [Client -> {"away", "exchange", "confirm", "save", "writing", "welcome", "session"}]
  /\ typed \in [Client -> BOOLEAN]
  /\ link \in [Client -> BOOLEAN]
  /\ up \in [Client -> Seq(Frame)]
  /\ down \in [Client -> Seq(Frame)]
  /\ peer \in Client \cup {Nobody}
  /\ spc \in {"idle", "load", "accept", "exchange", "confirm", "save", "writing", "hello", "session"}
  /\ store \in SUBSET Client
  /\ cli \in {"none", "loaded", "writing"}
  /\ cliStore \in SUBSET Client
  /\ victim \in Client \cup {Nobody}
  /\ cli # "none" => victim \in Client
  /\ entered \in SUBSET Client
  /\ revoked \in SUBSET Client
  /\ dials \in 0..MaxDials /\ revokes \in 0..MaxRevokes /\ crashes \in 0..MaxCrashes

Init ==
  /\ paired = {}
  /\ pin = [c \in Client |-> "none"]
  /\ cpc = [c \in Client |-> "away"]
  /\ typed = [c \in Client |-> FALSE]
  /\ link = [c \in Client |-> FALSE]
  /\ up = [c \in Client |-> <<>>]
  /\ down = [c \in Client |-> <<>>]
  /\ peer = Nobody /\ spc = "idle" /\ store = {}
  /\ cli = "none" /\ cliStore = {} /\ victim = Nobody
  /\ entered = {} /\ revoked = {}
  /\ dials = 0 /\ revokes = 0 /\ crashes = 0

-----------------------------------------------------------------------------
(* The client: connect_and_handshake().                                    *)

ClientAt(c, from, to) == cpc[c] = from /\ cpc' = [cpc EXCEPT ![c] = to]

\* What is written to a connection that is gone arrives nowhere.
ToServer(c, frame) == up' = [up EXCEPT ![c] = IF link[c] THEN Append(@, frame) ELSE @]

FromServer(c, frame) ==
  /\ down[c] # <<>> /\ Head(down[c]) = frame
  /\ down' = [down EXCEPT ![c] = Tail(@)]

\* The client decides from its own file whether to pair. A file it cannot
\* read ends it before it connects.
Dial(c) ==
  /\ dials < MaxDials
  /\ dials' = dials + 1
  /\ peer = Nobody /\ peer' = c /\ spc' = "load"
  /\ cpc[c] = "away"
  /\ \/ /\ pin[c] = "pinned"
        /\ cpc' = [cpc EXCEPT ![c] = "welcome"]
        /\ up' = [up EXCEPT ![c] = <<"hello">>]
     \/ /\ pin[c] = "none"
        /\ cpc' = [cpc EXCEPT ![c] = "exchange"]
        /\ up' = [up EXCEPT ![c] = <<"spake">>]
  /\ down' = [down EXCEPT ![c] = <<>>]
  /\ link' = [link EXCEPT ![c] = TRUE]
  /\ \E right \in BOOLEAN : typed' = [typed EXCEPT ![c] = right]
  /\ UNCHANGED <<paired, pin, store, cliVars, entered, revoked, revokes, crashes>>

\* my_confirm on the two ends: SPAKE2 gives both the same key exactly when
\* both were given the same code.
ServersConfirm == "confirm"

ClientsConfirm(c) == IF typed[c] THEN ServersConfirm ELSE "other"

ClientExchange(c) ==
  /\ ClientAt(c, "exchange", "confirm")
  /\ FromServer(c, "spake")
  /\ ToServer(c, ClientsConfirm(c))
  /\ entered' = IF typed[c] THEN entered \cup {c} ELSE entered
  /\ UNCHANGED <<paired, pin, typed, link, serverVars, cliVars, revoked, boundVars>>

\* The server's value is compared with the client's own.
ClientConfirm(c) ==
  /\ ClientAt(c, "confirm", "save")
  /\ FromServer(c, ClientsConfirm(c))
  /\ UNCHANGED <<paired, pin, typed, link, up, serverVars, cliVars, entered, revoked, boundVars>>

ClientTruncates(c) ==
  /\ ClientAt(c, "save", "writing")
  /\ pin' = [pin EXCEPT ![c] = "torn"]
  /\ UNCHANGED <<paired, typed, netVars, serverVars, cliVars, entered, revoked, boundVars>>

\* The server is pinned; Hello follows on the control stream.
ClientPins(c) ==
  /\ ClientAt(c, "writing", "welcome")
  /\ pin' = [pin EXCEPT ![c] = "pinned"]
  /\ ToServer(c, "hello")
  /\ UNCHANGED <<paired, typed, link, down, serverVars, cliVars, entered, revoked, boundVars>>

ClientWelcomed(c) ==
  /\ ClientAt(c, "welcome", "session")
  /\ FromServer(c, "welcome")
  /\ UNCHANGED <<paired, pin, typed, link, up, serverVars, cliVars, entered, revoked, boundVars>>

\* A wrong code, a pairing frame in place of Welcome, or the connection is
\* gone: the client exits, and closes.
ClientGivesUp(c) ==
  /\ \/ cpc[c] = "confirm" /\ down[c] # <<>> /\ Head(down[c]) # ClientsConfirm(c)
     \/ cpc[c] = "welcome" /\ down[c] # <<>> /\ Head(down[c]) # "welcome"
     \/ cpc[c] \in {"exchange", "confirm", "welcome", "session"} /\ ~link[c]
  /\ cpc' = [cpc EXCEPT ![c] = "away"]
  /\ link' = [link EXCEPT ![c] = FALSE]
  /\ UNCHANGED <<paired, pin, typed, up, down, serverVars, cliVars, entered, revoked, boundVars>>

\* Quit, killed at any point, or ended by a failing write: the file may be
\* left truncated.
ClientCrash(c) ==
  /\ cpc[c] # "away"
  /\ crashes < MaxCrashes /\ crashes' = crashes + 1
  /\ cpc' = [cpc EXCEPT ![c] = "away"]
  /\ link' = [link EXCEPT ![c] = FALSE]
  /\ UNCHANGED <<paired, pin, typed, up, down, serverVars, cliVars, entered, revoked, dials, revokes>>

-----------------------------------------------------------------------------
(* The network.                                                            *)

\* The connection breaks; some of what is on its way still arrives.
Lose(c) ==
  /\ link[c]
  /\ link' = [link EXCEPT ![c] = FALSE]
  /\ \E n \in 0..Len(up[c]) : up' = [up EXCEPT ![c] = SubSeq(@, 1, n)]
  /\ \E n \in 0..Len(down[c]) : down' = [down EXCEPT ![c] = SubSeq(@, 1, n)]
  /\ UNCHANGED <<paired, clientVars, serverVars, cliVars, entered, revoked, boundVars>>

-----------------------------------------------------------------------------
(* The server: handle_connection() up to the session.                      *)

ServerAt(from, to) == spc = from /\ spc' = to /\ UNCHANGED peer

ToClient(frame) == down' = [down EXCEPT ![peer] = IF link[peer] THEN Append(@, frame) ELSE @]

FromClient(frame) ==
  /\ up[peer] # <<>> /\ Head(up[peer]) = frame
  /\ up' = [up EXCEPT ![peer] = Tail(@)]

\* The handler returns: its connection is dropped and the slot is free.
HandlerReturns ==
  /\ spc' = "idle" /\ peer' = Nobody
  /\ link' = [link EXCEPT ![peer] = FALSE]

LoadPairsAlways ==               \* Mutant: a known client is not looked up
  /\ paired # Torn
  /\ store' = paired
  /\ ServerAt("load", "accept")
  /\ UNCHANGED <<paired, clientVars, netVars, cliVars, entered, revoked, boundVars>>

Load ==
  /\ paired # Torn
  /\ store' = paired
  /\ ServerAt("load", IF peer \in paired THEN "hello" ELSE "accept")
  /\ UNCHANGED <<paired, clientVars, netVars, cliVars, entered, revoked, boundVars>>

AcceptClientsChoice ==           \* Mutant: the client's first stream says if it pairs
  /\ spc = "accept" /\ up[peer] # <<>>
  /\ ServerAt("accept", IF Head(up[peer]) = "hello" THEN "hello" ELSE "exchange")
  /\ IF Head(up[peer]) = "hello" THEN UNCHANGED down ELSE ToClient("spake")
  /\ UNCHANGED <<paired, clientVars, link, up, store, cliVars, entered, revoked, boundVars>>

\* accept_bi() returns once the client wrote to a stream, whatever it wrote.
Accept ==
  /\ spc = "accept" /\ up[peer] # <<>>
  /\ ServerAt("accept", "exchange")
  /\ ToClient("spake")
  /\ UNCHANGED <<paired, clientVars, link, up, store, cliVars, entered, revoked, boundVars>>

ExchangeUnanswered ==            \* Mutant: the server's own confirmation is not sent
  /\ ServerAt("exchange", "confirm")
  /\ FromClient("spake")
  /\ UNCHANGED <<paired, clientVars, link, down, store, cliVars, entered, revoked, boundVars>>

Exchange ==
  /\ ServerAt("exchange", "confirm")
  /\ FromClient("spake")
  /\ ToClient(ServersConfirm)
  /\ UNCHANGED <<paired, clientVars, link, store, cliVars, entered, revoked, boundVars>>

ConfirmAnything ==               \* Mutant: the confirmation is not compared
  /\ ServerAt("confirm", "save")
  /\ \E value \in Confirmation : FromClient(value)
  /\ store' = store \cup {peer}
  /\ UNCHANGED <<paired, clientVars, link, down, cliVars, entered, revoked, boundVars>>

ConfirmUnstored ==               \* Mutant: PairedClients::pair() is forgotten
  /\ ServerAt("confirm", "save")
  /\ FromClient(ServersConfirm)
  /\ UNCHANGED <<paired, clientVars, link, down, store, cliVars, entered, revoked, boundVars>>

\* The client's value is compared with the server's own.
Confirm ==
  /\ ServerAt("confirm", "save")
  /\ FromClient(ServersConfirm)
  /\ store' = store \cup {peer}
  /\ UNCHANGED <<paired, clientVars, link, down, cliVars, entered, revoked, boundVars>>

Truncate ==
  /\ ServerAt("save", "writing")
  /\ paired' = Torn
  /\ UNCHANGED <<clientVars, netVars, store, cliVars, entered, revoked, boundVars>>

\* What was read when the handler started, and the new client.
Pin ==
  /\ ServerAt("writing", "hello")
  /\ paired' = store
  /\ revoked' = revoked \ {peer}
  /\ UNCHANGED <<clientVars, netVars, store, cliVars, entered, boundVars>>

Hello ==
  /\ ServerAt("hello", "session")
  /\ FromClient("hello")
  /\ ToClient("welcome")
  /\ UNCHANGED <<paired, clientVars, link, store, cliVars, entered, revoked, boundVars>>

\* A frame other than the one this place reads: the control stream taken for
\* the pairing stream, or the reverse.
Misread ==
  /\ up[peer] # <<>>
  /\ \/ spc = "exchange" /\ Head(up[peer]) # "spake"
     \/ spc = "confirm" /\ Head(up[peer]) \notin Confirmation
     \/ spc = "hello" /\ Head(up[peer]) # "hello"

\* The confirmation is of another key.
Mismatch ==
  spc = "confirm" /\ up[peer] # <<>> /\ Head(up[peer]) \in Confirmation \ {ServersConfirm}

MisreadIgnored ==                \* Mutant: the handler waits for a better frame
  /\ \/ spc = "load" /\ paired = Torn
     \/ peer # Nobody /\ Mismatch
     \/ spc \in {"accept", "exchange", "confirm", "hello", "session"} /\ ~link[peer]
  /\ HandlerReturns
  /\ UNCHANGED <<paired, clientVars, up, down, store, cliVars, entered, revoked, boundVars>>

\* Any `?` on the way, or the end of the session.
HandlerFails ==
  /\ \/ spc = "load" /\ paired = Torn
     \/ peer # Nobody /\ (Misread \/ Mismatch)
     \/ spc \in {"accept", "exchange", "confirm", "hello", "session"} /\ ~link[peer]
  /\ HandlerReturns
  /\ UNCHANGED <<paired, clientVars, up, down, store, cliVars, entered, revoked, boundVars>>

\* The disk is full: `?` leaves the handler with the file truncated.
WriteFails ==
  /\ spc = "writing"
  /\ crashes < MaxCrashes /\ crashes' = crashes + 1
  /\ HandlerReturns
  /\ UNCHANGED <<paired, clientVars, up, down, store, cliVars, entered, revoked, dials, revokes>>

\* The server dies and is started again: a new code, the same identity.
ServerCrash ==
  /\ crashes < MaxCrashes /\ crashes' = crashes + 1
  /\ spc' = "idle" /\ peer' = Nobody /\ store' = {}
  /\ link' = [c \in Client |-> FALSE]
  /\ UNCHANGED <<paired, clientVars, up, down, cliVars, entered, revoked, dials, revokes>>

-----------------------------------------------------------------------------
(* clients_command(): load, revoke, save.                                  *)

RevokeLoad(c) ==
  /\ cli = "none"
  /\ revokes < MaxRevokes /\ revokes' = revokes + 1
  /\ paired # Torn /\ c \in paired
  /\ cli' = "loaded" /\ cliStore' = paired /\ victim' = c
  /\ UNCHANGED <<paired, clientVars, netVars, serverVars, entered, revoked, dials, crashes>>

RevokeTruncates ==
  /\ cli = "loaded" /\ cli' = "writing"
  /\ paired' = Torn
  /\ UNCHANGED <<clientVars, netVars, serverVars, cliStore, victim, entered, revoked, boundVars>>

RevokeWrites ==
  /\ cli = "writing" /\ cli' = "none"
  /\ paired' = cliStore \ {victim}
  /\ revoked' = revoked \cup {victim}
  /\ UNCHANGED <<clientVars, netVars, serverVars, cliStore, victim, entered, boundVars>>

RevokeCrash ==
  /\ cli # "none" /\ cli' = "none"      \* killed, or its write fails
  /\ crashes < MaxCrashes /\ crashes' = crashes + 1
  /\ UNCHANGED <<paired, clientVars, netVars, serverVars, cliStore, victim, entered, revoked, dials, revokes>>

-----------------------------------------------------------------------------
ClientStep(c) ==
  \/ ClientExchange(c) \/ ClientConfirm(c) \/ ClientTruncates(c) \/ ClientPins(c)
  \/ ClientWelcomed(c) \/ ClientGivesUp(c)

ServerStep ==
  \/ Load \/ Accept \/ Exchange \/ Confirm \/ Truncate \/ Pin \/ Hello \/ HandlerFails

Next ==
  \/ \E c \in Client : Dial(c) \/ ClientStep(c) \/ ClientCrash(c) \/ Lose(c) \/ RevokeLoad(c)
  \/ ServerStep \/ WriteFails \/ ServerCrash
  \/ RevokeTruncates \/ RevokeWrites \/ RevokeCrash

Spec == Init /\ [][Next]_vars

\* Programs that can go on do.
FairSpec == Spec /\ (\A c \in Client : WF_vars(ClientStep(c))) /\ WF_vars(ServerStep)
              /\ WF_vars(RevokeTruncates \/ RevokeWrites)

-----------------------------------------------------------------------------
(* Safety.                                                                 *)

On(queue, frame) == \E i \in DOMAIN queue : queue[i] = frame

\* The slot: only the client being handled has a live connection, and a
\* handler exists exactly while there is one to handle.
OneHandled ==
  /\ spc = "idle" <=> peer = Nobody
  /\ \A c \in Client : link[c] => peer = c

\* Whoever sent the confirmation of the server's key derived that key; so did
\* whoever is past comparing the server's, which sends no other.
CeremonyProves ==
  \A c \in Client :
    /\ On(up[c], ServersConfirm) => c \in entered
    /\ cpc[c] \in {"confirm", "save", "writing"} /\ typed[c] => c \in entered
    /\ ~On(down[c], "other")
    /\ cpc[c] \in {"save", "writing"} => typed[c]
    /\ cpc[c] \in {"welcome", "session"} => pin[c] = "pinned"

\* Past the ceremony the server knows the client, and has welcomed it only in
\* the session: what is on its way to a client on a live connection is of
\* this handshake.
WelcomeIsOfThisHandshake ==
  /\ spc \in {"save", "writing", "hello", "session"} => peer \in store
  /\ \A c \in Client :
       link[c] /\ (On(down[c], "welcome") \/ cpc[c] = "session") => spc = "session"

\* A mistyped code pairs neither end. Between programs of this repository a
\* client is in the server's file, or has the server in its own, only if it
\* was given the server's code and derived the server's key in some ceremony:
\* the value compared is the other end's of this exchange, and what was
\* compared is what is saved, whatever is lost, misread, crashed or written
\* over in between. It says nothing of a peer that sends what it did not
\* derive: both ends send the same value, so the comparison (pairing.rs:
\* 122-130) shows that the peer returned it, not that the peer made it.
PairedByCode ==
  /\ paired # Torn => paired \subseteq entered
  /\ \A c \in Client : pin[c] = "pinned" => c \in entered

\* A session never starts half paired: a client that was welcomed on a live
\* connection has the server pinned, and is the one client the server serves
\* and knows.
SessionIsMutual ==
  \A c \in Client :
    cpc[c] = "session" /\ link[c] =>
      /\ pin[c] = "pinned"
      /\ peer = c /\ spc = "session"
      /\ c \in store

\* Each side decides from its own file whether to pair and never says so. A
\* frame of one stream is taken for one of the other only where the files
\* disagree about the client.
MisreadMeansDisagreement ==
  peer # Nobody /\ Misread => (pin[peer] = "pinned") # (peer \in store)

\* What is said of files and of who proved what is inductive by itself.
TrustInv ==
  /\ TypeOK
  /\ OneHandled
  /\ CeremonyProves
  /\ WelcomeIsOfThisHandshake
  /\ PairedByCode
  /\ store \subseteq entered /\ cliStore \subseteq entered

\* What is unread of the stream a client opened with, until the server
\* answers it: Hello from a client that has the server pinned, or the start of
\* the ceremony from one that has not and cannot come to the end of it.
Unanswered ==
  \/ up[peer] = <<>> /\ ~link[peer]
  \/ up[peer] = <<"hello">> /\ pin[peer] = "pinned" /\ cpc[peer] \in {"welcome", "session", "away"}
  \/ /\ \/ /\ up[peer] = <<"spake">> /\ cpc[peer] \in {"exchange", "confirm", "away"}
           /\ link[peer] => cpc[peer] = "exchange"
        \/ /\ up[peer] = <<"spake", ClientsConfirm(peer)>> /\ cpc[peer] \in {"confirm", "away"}
           /\ link[peer] => cpc[peer] = "confirm"
     /\ pin[peer] = "none"
     /\ ~On(down[peer], ServersConfirm)

\* What is unread while the server awaits the confirmation,
AwaitsConfirm ==
  /\ up[peer] \in {<<>>, <<ClientsConfirm(peer)>>, <<ClientsConfirm(peer), "hello">>}
  /\ link[peer] =>
       \/ up[peer] = <<>> /\ cpc[peer] = "exchange"
       \/ up[peer] = <<ClientsConfirm(peer)>> /\ cpc[peer] \in {"confirm", "save", "writing"}
       \/ up[peer] = <<ClientsConfirm(peer), "hello">> /\ cpc[peer] = "welcome"

\* and once it has it.
AwaitsHello ==
  /\ up[peer] \in {<<>>, <<"hello">>}
  /\ link[peer] =>
       \/ up[peer] = <<>> /\ cpc[peer] \in {"confirm", "save", "writing"}
       \/ up[peer] = <<"hello">> /\ cpc[peer] = "welcome"

\* The two sides never lose their place in one another's stream: what a client
\* has sent that the server has not read is what the server's place calls for,
\* or the opening of a stream that the server has not answered.
Conversation ==
  /\ spc \in {"load", "accept", "exchange"} => Unanswered
  /\ spc = "confirm" => AwaitsConfirm
  /\ spc \in {"save", "writing"} => AwaitsHello
  /\ spc = "hello" => AwaitsHello \/ Unanswered
  /\ spc \in {"accept", "exchange"} => peer \notin store

\* And the other way round: what the server has said on a live connection and
\* the client has not read.
Answers ==
  \A c \in Client : link[c] =>
    /\ cpc[c] # "away"
    /\ spc \in {"load", "accept"} => cpc[c] \in {"exchange", "welcome"} /\ down[c] = <<>>
    /\ spc = "exchange" => down[c] = IF cpc[c] = "confirm" THEN <<>> ELSE <<"spake">>
    /\ spc = "confirm" =>
         \/ cpc[c] = "exchange" /\ down[c] = <<"spake", ServersConfirm>>
         \/ cpc[c] = "confirm" /\ down[c] = <<ServersConfirm>>
         \/ cpc[c] \in {"save", "writing", "welcome"} /\ down[c] = <<>>
    /\ spc \in {"save", "writing", "hello"} =>
         down[c] = IF cpc[c] = "confirm" THEN <<ServersConfirm>> ELSE <<>>
    /\ spc = "session" =>
         \/ cpc[c] = "welcome" /\ down[c] = <<"welcome">>
         \/ cpc[c] = "session" /\ down[c] = <<>>

\* What the theorems of Trust_proofs are proved by: inductive.
IInv == TrustInv /\ Conversation /\ Answers

\* The client has the frame it waits for, or one it gives up upon.
ClientHears(c) ==
  /\ down[c] # <<>>
  /\ \/ cpc[c] = "exchange" /\ Head(down[c]) = "spake"
     \/ cpc[c] \in {"confirm", "welcome"}

\* Both ends of the ceremony wait for frames of the other, with no timeout
\* anywhere (main.rs:600-628, pairing.rs:150-160). Never for each other at the
\* same time: until both are in the session, one of them is not waiting, or
\* there is a frame it can act upon, even where the two disagree about which
\* stream this is and what comes next.
NoStandoff ==
  \A c \in Client : link[c] /\ ~(spc = "session" /\ cpc[c] = "session") =>
    \/ spc \in {"load", "save", "writing"} \/ cpc[c] \in {"save", "writing"}
    \/ spc \in {"accept", "exchange", "confirm", "hello"} /\ up[c] # <<>>
    \/ ClientHears(c)

\* What `clients revoke` says of itself (main.rs:86-87): a revoked client must
\* pair again before it can connect. A handler that read the file before the
\* revocation writes the fingerprint back when its own client has paired.
RevokedStaysOut == paired # Torn => paired \cap revoked = {}

-----------------------------------------------------------------------------
(* Liveness.                                                               *)

\* The ceremony is symmetric and both sides wait for each other's frames, yet
\* neither waits for ever: each handshake ends in a session or an error, even
\* where the two disagree about what comes next.
HandshakeEnds ==
  /\ spc \notin {"idle", "session"} ~> spc \in {"idle", "session"}
  /\ \A c \in Client :
       cpc[c] \notin {"away", "session"} ~> cpc[c] \in {"away", "session"}
=============================================================================
