---------------------------- MODULE Trust_proofs ----------------------------
(***************************************************************************)
(* Proof of PairedByCode, SessionIsMutual, MisreadMeansDisagreement and    *)
(* NoStandoff, for any clients and any number of dials, revocations,       *)
(* crashes and failed writes.                                              *)
(***************************************************************************)
EXTENDS Trust, SequenceTheorems, TLAPS

-----------------------------------------------------------------------------
(* Queues of frames.                                                       *)

\* What is put at the end of a queue is on it, with what was there.
LEMMA OnAppend ==
  ASSUME NEW q \in Seq(Frame), NEW g \in Frame
  PROVE  /\ Append(q, g) \in Seq(Frame)
         /\ \A f : On(Append(q, g), f) => On(q, f) \/ f = g
  BY DEF On

\* Taking the first frame leaves only what was there.
LEMMA OnTail ==
  ASSUME NEW q \in Seq(Frame), q # <<>>
  PROVE  /\ Tail(q) \in Seq(Frame)
         /\ On(q, Head(q))
         /\ \A f : On(Tail(q), f) => On(q, f)
  BY DEF On

\* A queue cut short holds only what was there.
LEMMA OnSubSeq ==
  ASSUME NEW q \in Seq(Frame), NEW n \in 0..Len(q)
  PROVE  /\ SubSeq(q, 1, n) \in Seq(Frame)
         /\ \A f : On(SubSeq(q, 1, n), f) => On(q, f)
  BY DEF On

\* A connection starts with one frame and nothing to answer it.
LEMMA OnNew ==
  /\ <<>> \in Seq(Frame) /\ <<"hello">> \in Seq(Frame) /\ <<"spake">> \in Seq(Frame)
  /\ \A f : ~On(<<>>, f)
  /\ \A f : On(<<"hello">>, f) => f = "hello"
  /\ \A f : On(<<"spake">>, f) => f = "spake"
  BY DEF On, Frame, Confirmation

\* What the two ends send are frames, and their values differ unless the client
\* was given the server's code.
LEMMA Values ==
  /\ {"spake", "hello", "welcome", "confirm", "other"} \subseteq Frame
  /\ ServersConfirm = "confirm"
  /\ \A c \in Client :
       /\ ClientsConfirm(c) \in Frame /\ ClientsConfirm(c) \in {"confirm", "other"}
       /\ typed[c] => ClientsConfirm(c) = "confirm"
       /\ ~typed[c] => ClientsConfirm(c) = "other"
  BY DEF ServersConfirm, ClientsConfirm, Frame, Confirmation

-----------------------------------------------------------------------------
(* The invariant.                                                          *)

\* With nobody paired and nobody connected there is nothing to prove.
LEMMA InitTrustInv == Init => TrustInv
BY TrustAssumption, OnNew
   DEF Init, TrustInv, TypeOK, OneHandled, CeremonyProves, WelcomeIsOfThisHandshake, PairedByCode, Torn

\* A new connection is the only one, with nothing of an earlier one on it.
LEMMA DialTrustInv ==
  ASSUME TrustInv, NEW c \in Client, Dial(c)
  PROVE  TrustInv'
<1>. USE DEF TrustInv, TypeOK
<1>0. PICK first \in Seq(Frame) : up' = [up EXCEPT ![c] = first] /\ ~On(first, ServersConfirm)
  <2>1. CASE up' = [up EXCEPT ![c] = <<"hello">>]
    BY <2>1, OnNew, Values
  <2>2. CASE up' = [up EXCEPT ![c] = <<"spake">>]
    BY <2>2, OnNew, Values
  <2>. QED BY <2>1, <2>2 DEF Dial
<1>1. TypeOK'
  <2>1. cpc' \in [Client -> {"away", "exchange", "confirm", "save", "writing", "welcome", "session"}]
    BY DEF Dial
  <2>2. up' \in [Client -> Seq(Frame)] /\ down' \in [Client -> Seq(Frame)]
    BY <1>0, OnNew DEF Dial
  <2>3. link' \in [Client -> BOOLEAN] /\ typed' \in [Client -> BOOLEAN]
    BY DEF Dial
  <2>4. dials' \in 0..MaxDials
    BY TrustAssumption DEF Dial
  <2>. QED BY <2>1, <2>2, <2>3, <2>4 DEF Dial, cliVars
<1>2. OneHandled'
  BY TrustAssumption DEF Dial, OneHandled
<1>3. /\ ~On(up'[c], ServersConfirm) /\ ~On(down'[c], "other")
      /\ cpc'[c] \notin {"confirm", "save", "writing", "session"}
  BY <1>0, OnNew DEF Dial
<1>4. CeremonyProves'
  <2>1. \A d \in Client \ {c} : up'[d] = up[d] /\ typed'[d] = typed[d] /\ cpc'[d] = cpc[d]
                               /\ down'[d] = down[d] /\ pin'[d] = pin[d]
    BY DEF Dial
  <2>2. cpc'[c] = "welcome" => pin[c] = "pinned"
    BY DEF Dial
  <2>. QED BY <1>3, <2>1, <2>2 DEF Dial, CeremonyProves
<1>5. WelcomeIsOfThisHandshake'
  BY OnNew DEF Dial, WelcomeIsOfThisHandshake, OneHandled
<1>6. PairedByCode' /\ (store \subseteq entered)' /\ (cliStore \subseteq entered)'
  BY DEF Dial, PairedByCode, cliVars
<1>. QED BY <1>1, <1>2, <1>4, <1>5, <1>6

\* A client sends its confirmation only with the key derived, and pins only
\* after comparing the server's.
LEMMA ClientTrustInv ==
  ASSUME TrustInv, NEW c \in Client, ClientStep(c) \/ ClientCrash(c)
  PROVE  TrustInv'
<1>. USE TrustAssumption
     DEF TrustInv, TypeOK, OneHandled, CeremonyProves, WelcomeIsOfThisHandshake, PairedByCode,
         netVars, serverVars, cliVars, boundVars, ClientAt
<1>1. CASE ClientExchange(c)
  <2>1. CASE typed[c]
    BY OnAppend, OnTail, Values, <1>1, <2>1 DEF ClientExchange, ToServer, FromServer
  <2>2. CASE ~typed[c]
    BY OnAppend, OnTail, Values, <1>1, <2>2 DEF ClientExchange, ToServer, FromServer
  <2>. QED BY <2>1, <2>2
<1>2. CASE ClientConfirm(c)
  <2>1. typed[c]
    BY OnTail, Values, <1>2 DEF ClientConfirm, FromServer
  <2>. QED BY OnTail, <1>2, <2>1 DEF ClientConfirm, FromServer
<1>3. CASE ClientTruncates(c)
  BY <1>3 DEF ClientTruncates
<1>4. CASE ClientPins(c)
  BY OnAppend, Values, <1>4 DEF ClientPins, ToServer
<1>5. CASE ClientWelcomed(c)
  BY OnTail, <1>5 DEF ClientWelcomed, FromServer
<1>6. CASE ClientGivesUp(c)
  BY <1>6 DEF ClientGivesUp
<1>7. CASE ClientCrash(c)
  BY <1>7 DEF ClientCrash
<1>. QED BY <1>1, <1>2, <1>3, <1>4, <1>5, <1>6, <1>7 DEF ClientStep

\* A broken connection delivers at most what was sent.
LEMMA LoseTrustInv ==
  ASSUME TrustInv, NEW c \in Client, Lose(c)
  PROVE  TrustInv'
BY TrustAssumption, OnSubSeq
   DEF Lose, TrustInv, TypeOK, OneHandled, CeremonyProves, WelcomeIsOfThisHandshake, PairedByCode,
       clientVars, serverVars, cliVars, boundVars

\* The server stores a client only after its confirmation, and welcomes none
\* it has not stored.
LEMMA ServerTrustInv ==
  ASSUME TrustInv, ServerStep \/ WriteFails \/ ServerCrash
  PROVE  TrustInv'
<1>. USE TrustAssumption
     DEF TrustInv, TypeOK, OneHandled, CeremonyProves, WelcomeIsOfThisHandshake, PairedByCode,
         clientVars, netVars, cliVars, boundVars, ServerAt
<1>1. CASE Load
  BY <1>1 DEF Load, Torn
<1>2. CASE Accept
  BY OnAppend, Values, <1>2 DEF Accept, ToClient
<1>3. CASE Exchange
  BY OnAppend, OnTail, Values, <1>3 DEF Exchange, ToClient, FromClient
<1>4. CASE Confirm
  BY OnTail, <1>4 DEF Confirm, FromClient
<1>5. CASE Truncate
  BY <1>5 DEF Truncate, Torn
<1>6. CASE Pin
  BY <1>6 DEF Pin, Torn
<1>7. CASE Hello
  BY OnAppend, OnTail, Values, <1>7 DEF Hello, ToClient, FromClient
<1>8. CASE HandlerFails
  BY <1>8 DEF HandlerFails, HandlerReturns
<1>9. CASE WriteFails
  BY <1>9 DEF WriteFails, HandlerReturns
<1>10. CASE ServerCrash
  BY <1>10 DEF ServerCrash
<1>. QED BY <1>1, <1>2, <1>3, <1>4, <1>5, <1>6, <1>7, <1>8, <1>9, <1>10 DEF ServerStep

\* The CLI only ever takes fingerprints out of what it read.
LEMMA CliTrustInv ==
  ASSUME TrustInv,
         (\E c \in Client : RevokeLoad(c)) \/ RevokeTruncates \/ RevokeWrites \/ RevokeCrash
  PROVE  TrustInv'
<1>. USE TrustAssumption
     DEF TrustInv, TypeOK, OneHandled, CeremonyProves, WelcomeIsOfThisHandshake, PairedByCode,
         clientVars, netVars, serverVars, boundVars
<1>1. ASSUME NEW c \in Client, RevokeLoad(c) PROVE TrustInv'
  BY <1>1 DEF RevokeLoad, Torn
<1>2. CASE RevokeTruncates
  BY <1>2 DEF RevokeTruncates, Torn
<1>3. CASE RevokeWrites
  BY <1>3 DEF RevokeWrites, Torn
<1>4. CASE RevokeCrash
  BY <1>4 DEF RevokeCrash
<1>. QED BY <1>1, <1>2, <1>3, <1>4

\* A step that changes nothing changes no part of the invariant.
LEMMA StutterTrust ==
  ASSUME TrustInv, UNCHANGED vars
  PROVE  TrustInv'
BY DEF vars, clientVars, netVars, serverVars, cliVars, boundVars,
       TrustInv, TypeOK, OneHandled, CeremonyProves, WelcomeIsOfThisHandshake, PairedByCode

\* Files and sessions hold only what was derived from the code, in every interleaving of
\* client, server, CLI, network and crashes.
LEMMA NextTrust ==
  ASSUME TrustInv, [Next]_vars
  PROVE  TrustInv'
BY DialTrustInv, ClientTrustInv, LoseTrustInv, ServerTrustInv, CliTrustInv, StutterTrust DEF Next

-----------------------------------------------------------------------------
(* What the two sides have said to each other.                             *)

\* The queues a conversation goes through, one frame at a time.
LEMMA Queues ==
  ASSUME NEW f \in Frame, NEW g \in Frame
  PROVE  /\ Append(<<>>, f) = <<f>> /\ Tail(<<f>>) = <<>> /\ Head(<<f>>) = f /\ <<f>> # <<>>
         /\ Append(<<f>>, g) = <<f, g>>
         /\ Tail(<<f, g>>) = <<g>> /\ Head(<<f, g>>) = f /\ <<f, g>> # <<>>
<1>1. Append(<<>>, f) = <<f>> /\ Tail(<<f>>) = <<>> /\ Head(<<f>>) = f /\ <<f>> # <<>>
  OBVIOUS
<1>2. Append(<<f>>, g) = <<f, g>>
  <2>1. <<f>> \in Seq(Frame) /\ <<f, g>> \in Seq(Frame) /\ Append(<<f>>, g) \in Seq(Frame)
    OBVIOUS
  <2>2. Len(Append(<<f>>, g)) = 2 /\ Append(<<f>>, g)[1] = f /\ Append(<<f>>, g)[2] = g
    BY <2>1
  <2>3. Len(<<f, g>>) = 2 /\ <<f, g>>[1] = f /\ <<f, g>>[2] = g
    OBVIOUS
  <2>4. \A i \in 1..Len(Append(<<f>>, g)) : Append(<<f>>, g)[i] = <<f, g>>[i]
    BY <2>2, <2>3
  <2>. QED BY <2>1, <2>2, <2>3, <2>4, SeqEqual
<1>3. Tail(<<f, g>>) = <<g>> /\ Head(<<f, g>>) = f /\ <<f, g>> # <<>>
  OBVIOUS
<1>. QED BY <1>1, <1>2, <1>3

\* The same of the frames a client sends before it is welcomed.
LEMMA OpeningQueues ==
  /\ Append(<<>>, "hello") = <<"hello">> /\ Tail(<<"spake">>) = <<>>
  /\ Head(<<"spake">>) = "spake" /\ Head(<<"hello">>) = "hello"
  /\ <<"spake">> # <<>> /\ <<"hello">> # <<>>
  BY Queues DEF Frame

\* And with its confirmation, whatever its value.
LEMMA ClientQueues ==
  ASSUME NEW v \in Confirmation
  PROVE  /\ Append(<<>>, v) = <<v>> /\ Append(<<"spake">>, v) = <<"spake", v>>
         /\ Append(<<v>>, "hello") = <<v, "hello">>
         /\ Tail(<<v>>) = <<>> /\ Tail(<<"spake", v>>) = <<v>> /\ Tail(<<v, "hello">>) = <<"hello">>
         /\ Head(<<v>>) = v /\ Head(<<"spake", v>>) = "spake" /\ Head(<<v, "hello">>) = v
         /\ <<v>> # <<>> /\ <<"spake", v>> # <<>> /\ <<v, "hello">> # <<>>
  BY Queues DEF Frame

\* A queue of a conversation cut short.
LEMMA CutQueues ==
  ASSUME NEW f \in Frame, NEW g \in Frame, NEW n \in Nat
  PROVE  /\ n \in 0..Len(<<>>) => SubSeq(<<>>, 1, n) = <<>>
         /\ n \in 0..Len(<<f>>) => SubSeq(<<f>>, 1, n) \in {<<>>, <<f>>}
         /\ n \in 0..Len(<<f, g>>) => SubSeq(<<f, g>>, 1, n) \in {<<>>, <<f>>, <<f, g>>}
<1>1. \A q \in Seq(Frame) : SubSeq(q, 1, 0) = <<>> /\ SubSeq(q, 1, Len(q)) = q
  BY SubSeqEmpty, SubSeqFull
<1>2. /\ <<>> \in Seq(Frame) /\ <<f>> \in Seq(Frame) /\ <<f, g>> \in Seq(Frame)
      /\ Len(<<>>) = 0 /\ Len(<<f>>) = 1 /\ Len(<<f, g>>) = 2
  OBVIOUS
<1>3. SubSeq(<<f, g>>, 1, 1) = <<f>>
  <2>1. /\ SubSeq(<<f, g>>, 1, 1) \in Seq(Frame) /\ Len(SubSeq(<<f, g>>, 1, 1)) = 1
        /\ SubSeq(<<f, g>>, 1, 1)[1] = f
    BY <1>2
  <2>2. \A i \in 1..Len(SubSeq(<<f, g>>, 1, 1)) : SubSeq(<<f, g>>, 1, 1)[i] = <<f>>[i]
    BY <2>1
  <2>. QED BY <1>2, <2>1, <2>2, SeqEqual
<1>4. n \in 0..0 => n = 0
  OBVIOUS
<1>5. n \in 0..1 => n = 0 \/ n = 1
  OBVIOUS
<1>6. n \in 0..2 => n = 0 \/ n = 1 \/ n = 2
  OBVIOUS
<1>. QED BY <1>1, <1>2, <1>3, <1>4, <1>5, <1>6

\* A client opens with what its file says, to a server that has said nothing.
LEMMA DialConversation ==
  ASSUME TrustInv, Conversation, NEW c \in Client, Dial(c)
  PROVE  Conversation'
<1>1. peer' = c /\ spc' = "load" /\ link'[c] = TRUE /\ down'[c] = <<>> /\ pin' = pin
  BY DEF Dial, TrustInv, TypeOK
<1>2. \/ pin[c] = "pinned" /\ cpc'[c] = "welcome" /\ up'[c] = <<"hello">>
      \/ pin[c] = "none" /\ cpc'[c] = "exchange" /\ up'[c] = <<"spake">>
  BY DEF Dial, TrustInv, TypeOK
<1>3. Unanswered'
  BY <1>1, <1>2, OnNew DEF Unanswered
<1>. QED BY <1>1, <1>3 DEF Conversation

\* The connected client's own steps move its stream on; another client has no
\* connection, and says nothing.
LEMMA ClientConversation ==
  ASSUME TrustInv, Conversation, NEW c \in Client, ClientStep(c) \/ ClientCrash(c)
  PROVE  Conversation'
<1>. USE DEF TrustInv, TypeOK, Conversation
<1>0. /\ UNCHANGED <<spc, peer, store, typed>>
      /\ ClientsConfirm(peer)' = ClientsConfirm(peer)
  BY DEF ClientStep, ClientExchange, ClientConfirm, ClientTruncates, ClientPins, ClientWelcomed,
         ClientGivesUp, ClientCrash, serverVars, ClientsConfirm
<1>1. CASE spc = "idle"
  BY <1>0, <1>1
<1>2. CASE spc # "idle" /\ peer # c
  <2>1. /\ peer \in Client
        /\ up'[peer] = up[peer] /\ down'[peer] = down[peer] /\ link'[peer] = link[peer]
        /\ cpc'[peer] = cpc[peer] /\ pin'[peer] = pin[peer]
    BY <1>2
     DEF OneHandled, netVars, ClientStep, ClientExchange, ClientConfirm, ClientTruncates, ClientPins,
         ClientWelcomed, ClientGivesUp, ClientCrash, ClientAt, ToServer, FromServer
  <2>. QED BY <1>0, <2>1 DEF Unanswered, AwaitsConfirm, AwaitsHello
<1>3. CASE spc # "idle" /\ peer = c
  <2>0. PICK v \in Confirmation : ClientsConfirm(peer) = v /\ ClientsConfirm(peer)' = v
    BY <1>0, <1>3 DEF ClientsConfirm, ServersConfirm, Confirmation
  <2>01. /\ Append(<<>>, v) = <<v>> /\ Append(<<"spake">>, v) = <<"spake", v>>
         /\ Append(<<>>, "hello") = <<"hello">> /\ Append(<<v>>, "hello") = <<v, "hello">>
    BY ClientQueues, OpeningQueues
  <2>. USE <1>0, <1>3
  <2>1. CASE ClientExchange(c)
    <3>1. /\ cpc[c] = "exchange" /\ cpc'[c] = "confirm" /\ UNCHANGED <<link, pin>>
          /\ up'[c] = IF link[c] THEN Append(up[c], v) ELSE up[c]
          /\ ~On(down[c], ServersConfirm) => ~On(down'[c], ServersConfirm)
      BY <2>0, <2>1, OnTail DEF ClientExchange, ClientAt, ToServer, FromServer
    <3>. HIDE DEF TrustInv, TypeOK, Conversation
    <3>2. Unanswered => Unanswered'
      BY <2>0, <2>01, <3>1 DEF Unanswered
    <3>3. AwaitsConfirm => AwaitsConfirm'
      BY <2>0, <2>01, <3>1 DEF AwaitsConfirm
    <3>4. AwaitsHello => AwaitsHello'
      BY <3>1 DEF AwaitsHello
    <3>. QED BY <3>2, <3>3, <3>4 DEF Conversation
  <2>2. CASE ClientConfirm(c)
    <3>0. On(down[c], ServersConfirm)
      <4>1. On(down[c], ClientsConfirm(c))
        BY <2>2, OnTail DEF ClientConfirm, FromServer
      <4>2. ClientsConfirm(c) \in {"other", ServersConfirm}
        BY Values
      <4>3. ~On(down[c], "other")
        BY DEF CeremonyProves
      <4>. HIDE DEF TrustInv, TypeOK, Conversation
      <4>. QED BY <4>1, <4>2, <4>3
    <3>1. cpc[c] = "confirm" /\ cpc'[c] = "save" /\ UNCHANGED <<up, link, pin>>
      BY <2>2 DEF ClientConfirm, ClientAt
    <3>. HIDE DEF TrustInv, TypeOK, Conversation
    <3>2. Unanswered => Unanswered'
      BY <3>0, <3>1 DEF Unanswered
    <3>3. AwaitsConfirm => AwaitsConfirm'
      BY <3>1 DEF AwaitsConfirm
    <3>4. AwaitsHello => AwaitsHello'
      BY <3>1 DEF AwaitsHello
    <3>. QED BY <3>2, <3>3, <3>4 DEF Conversation
  <2>3. CASE ClientTruncates(c)
    BY <2>3 DEF ClientTruncates, ClientAt, netVars, Unanswered, AwaitsConfirm, AwaitsHello
  <2>4. CASE ClientPins(c)
    <3>1. /\ cpc[c] = "writing" /\ cpc'[c] = "welcome" /\ UNCHANGED <<link, down>>
          /\ up'[c] = IF link[c] THEN Append(up[c], "hello") ELSE up[c]
      BY <2>4 DEF ClientPins, ClientAt, ToServer
    <3>. HIDE DEF TrustInv, TypeOK, Conversation
    <3>2. Unanswered => Unanswered'
      BY <3>1 DEF Unanswered
    <3>3. AwaitsConfirm => AwaitsConfirm'
      BY <2>0, <2>01, <3>1 DEF AwaitsConfirm
    <3>4. AwaitsHello => AwaitsHello'
      BY <2>01, <3>1 DEF AwaitsHello
    <3>. QED BY <3>2, <3>3, <3>4 DEF Conversation
  <2>5. CASE ClientWelcomed(c)
    BY <2>5, OnTail DEF ClientWelcomed, ClientAt, FromServer, WelcomeIsOfThisHandshake, OneHandled,
                        Unanswered, AwaitsConfirm, AwaitsHello
  <2>6. CASE ClientGivesUp(c)
    BY <2>6 DEF ClientGivesUp, Unanswered, AwaitsConfirm, AwaitsHello
  <2>7. CASE ClientCrash(c)
    BY <2>7 DEF ClientCrash, Unanswered, AwaitsConfirm, AwaitsHello
  <2>. QED BY <2>1, <2>2, <2>3, <2>4, <2>5, <2>6, <2>7 DEF ClientStep
<1>. QED BY <1>1, <1>2, <1>3

\* What a broken connection still delivers is the beginning of what was said.
LEMMA LoseConversation ==
  ASSUME TrustInv, Conversation, NEW c \in Client, Lose(c)
  PROVE  Conversation'
<1>. USE DEF TrustInv, TypeOK
<1>0. /\ ClientsConfirm(peer)' = ClientsConfirm(peer) /\ ClientsConfirm(peer) \in Frame
      /\ {"spake", "hello", ServersConfirm} \subseteq Frame
  BY Values DEF Lose, clientVars, serverVars, ClientsConfirm, ServersConfirm, OneHandled
<1>1. UNCHANGED <<spc, peer, store, pin, cpc>>
  BY DEF Lose, clientVars, serverVars
<1>2. peer = c /\ ~link'[c]
  BY DEF Lose, OneHandled
<1>3. PICK n \in 0..Len(up[c]) : up'[c] = SubSeq(up[c], 1, n)
  BY DEF Lose
<1>4. ~On(down[c], ServersConfirm) => ~On(down'[c], ServersConfirm)
  BY OnSubSeq DEF Lose
<1>5. /\ up[c] = <<>> => up'[c] = <<>>
      /\ \A f \in Frame : up[c] = <<f>> => up'[c] \in {<<>>, <<f>>}
      /\ \A f, g \in Frame : up[c] = <<f, g>> => up'[c] \in {<<>>, <<f>>, <<f, g>>}
  <2>0. n \in Nat
    BY <1>3
  <2>1. up[c] = <<>> => up'[c] = <<>>
    BY <1>3, <2>0, CutQueues DEF Frame
  <2>2. ASSUME NEW f \in Frame, up[c] = <<f>> PROVE up'[c] \in {<<>>, <<f>>}
    BY <1>3, <2>2, <2>0, CutQueues
  <2>3. ASSUME NEW f \in Frame, NEW g \in Frame, up[c] = <<f, g>>
        PROVE  up'[c] \in {<<>>, <<f>>, <<f, g>>}
    BY <1>3, <2>3, <2>0, CutQueues
  <2>. QED BY <2>1, <2>2, <2>3
<1>. HIDE DEF TrustInv, TypeOK
<1>6. Unanswered => Unanswered'
  BY <1>0, <1>1, <1>2, <1>4, <1>5 DEF Unanswered
<1>7. AwaitsConfirm => AwaitsConfirm'
  <2>1. /\ up[c] = <<ClientsConfirm(peer)>> => up'[c] \in {<<>>, <<ClientsConfirm(peer)>>}
        /\ up[c] = <<ClientsConfirm(peer), "hello">> =>
             up'[c] \in {<<>>, <<ClientsConfirm(peer)>>, <<ClientsConfirm(peer), "hello">>}
    BY <1>0, <1>5
  <2>. QED BY <1>0, <1>1, <1>2, <1>5, <2>1 DEF AwaitsConfirm
<1>8. AwaitsHello => AwaitsHello'
  BY <1>0, <1>1, <1>2, <1>5 DEF AwaitsHello
<1>. QED BY <1>1, <1>6, <1>7, <1>8 DEF Conversation

\* The server goes on from one place to the next with the frame it called for.
LEMMA ServerConversation ==
  ASSUME TrustInv, Conversation, ServerStep \/ WriteFails \/ ServerCrash
  PROVE  Conversation'
<1>. USE DEF TrustInv, TypeOK, Conversation, ServerAt
<1>0. PICK v \in Confirmation : ClientsConfirm(peer) = v
  BY DEF ClientsConfirm, ServersConfirm, Confirmation
<1>01. ASSUME peer' = peer, typed' = typed PROVE ClientsConfirm(peer)' = v
  BY <1>0, <1>01 DEF ClientsConfirm
<1>1. CASE Load
  BY <1>0, <1>01, <1>1 DEF Load, clientVars, netVars, Unanswered
<1>2. CASE Accept
  <2>1. ~On(down[peer], ServersConfirm) => ~On(down'[peer], ServersConfirm)
    BY <1>2, OnAppend, Values DEF Accept, ToClient
  <2>. QED BY <1>0, <1>01, <1>2, <2>1 DEF Accept, Unanswered, clientVars
<1>3. CASE Exchange
  <2>1. /\ up[peer] # <<>> /\ Head(up[peer]) = "spake" /\ up'[peer] = Tail(up[peer])
        /\ peer' = peer /\ spc' = "confirm" /\ UNCHANGED <<link, cpc, typed>>
    BY <1>3 DEF Exchange, FromClient, clientVars, OneHandled
  <2>2. Unanswered
    BY <1>3 DEF Exchange
  <2>3. /\ Tail(<<"spake">>) = <<>> /\ Tail(<<"spake", v>>) = <<v>>
        /\ Head(<<"spake">>) = "spake" /\ Head(<<"hello">>) = "hello"
    BY ClientQueues, OpeningQueues
  <2>4. AwaitsConfirm'
    <3>. HIDE DEF TrustInv, TypeOK, Conversation
    <3>. QED BY <1>0, <1>01, <2>1, <2>2, <2>3 DEF Unanswered, AwaitsConfirm
  <2>. QED BY <2>1, <2>4
<1>4. CASE Confirm
  <2>1. /\ up[peer] # <<>> /\ Head(up[peer]) = ServersConfirm /\ up'[peer] = Tail(up[peer])
        /\ peer' = peer /\ spc' = "save" /\ UNCHANGED <<link, cpc>>
    BY <1>4 DEF Confirm, FromClient, clientVars, OneHandled
  <2>2. AwaitsConfirm
    BY <1>4 DEF Confirm
  <2>3. /\ Tail(<<v>>) = <<>>
        /\ Tail(<<v, "hello">>) = <<"hello">>
    BY ClientQueues
  <2>4. AwaitsHello'
    <3>. HIDE DEF TrustInv, TypeOK, Conversation
    <3>. QED BY <1>0, <2>1, <2>2, <2>3 DEF AwaitsConfirm, AwaitsHello
  <2>. QED BY <2>1, <2>4
<1>5. CASE Truncate
  BY <1>5 DEF Truncate, AwaitsHello, clientVars, netVars
<1>6. CASE Pin
  BY <1>6 DEF Pin, AwaitsHello, clientVars, netVars
<1>7. CASE Hello
  BY <1>7 DEF Hello
<1>8. CASE HandlerFails
  BY <1>8 DEF HandlerFails, HandlerReturns
<1>9. CASE WriteFails
  BY <1>9 DEF WriteFails, HandlerReturns
<1>10. CASE ServerCrash
  BY <1>10 DEF ServerCrash
<1>. QED BY <1>1, <1>2, <1>3, <1>4, <1>5, <1>6, <1>7, <1>8, <1>9, <1>10 DEF ServerStep

\* The CLI says nothing to anybody, and neither does a step that changes nothing.
LEMMA OthersConversation ==
  ASSUME Conversation,
         \/ (\E c \in Client : RevokeLoad(c)) \/ RevokeTruncates \/ RevokeWrites \/ RevokeCrash
         \/ UNCHANGED vars
  PROVE  Conversation'
BY DEF RevokeLoad, RevokeTruncates, RevokeWrites, RevokeCrash, vars, clientVars, netVars, serverVars,
       Conversation, Unanswered, AwaitsConfirm, AwaitsHello, ClientsConfirm

\* The two sides never lose their place in one another's stream, whatever is
\* lost, crashed, revoked or written over.
LEMMA NextConversation ==
  ASSUME TrustInv, Conversation, [Next]_vars
  PROVE  Conversation'
BY DialConversation, ClientConversation, LoseConversation, ServerConversation, OthersConversation
   DEF Next

-----------------------------------------------------------------------------
(* What the server has answered.                                           *)

\* The queues of the server's frames.
LEMMA ServerQueues ==
  /\ Append(<<>>, "spake") = <<"spake">> /\ Append(<<>>, ServersConfirm) = <<ServersConfirm>>
  /\ Append(<<>>, "welcome") = <<"welcome">>
  /\ Append(<<"spake">>, ServersConfirm) = <<"spake", ServersConfirm>>
  /\ Tail(<<"spake">>) = <<>> /\ Tail(<<ServersConfirm>>) = <<>> /\ Tail(<<"welcome">>) = <<>>
  /\ Tail(<<"spake", ServersConfirm>>) = <<ServersConfirm>>
  /\ Head(<<"spake">>) = "spake" /\ Head(<<"spake", ServersConfirm>>) = "spake"
  /\ <<"spake">> # <<>> /\ <<ServersConfirm>> # <<>> /\ <<"welcome">> # <<>>
  /\ <<"spake", ServersConfirm>> # <<>>
  BY Queues, Values

\* Nothing is answered on a new connection.
LEMMA DialAnswers ==
  ASSUME TrustInv, NEW c \in Client, Dial(c)
  PROVE  Answers'
<1>. USE DEF TrustInv, TypeOK
<1>1. spc' = "load" /\ down'[c] = <<>> /\ cpc'[c] \in {"exchange", "welcome"}
  BY DEF Dial
<1>2. \A d \in Client : link'[d] => d = c
  BY TrustAssumption DEF Dial, OneHandled
<1>. QED BY <1>1, <1>2 DEF Answers

\* A client reads the answers in the order they were given. Nobody else's
\* connection is up.
LEMMA ClientAnswers ==
  ASSUME TrustInv, Answers, NEW c \in Client, ClientStep(c) \/ ClientCrash(c)
  PROVE  Answers'
<1>. USE DEF TrustInv, TypeOK
<1>0. spc' = spc /\ \A d \in Client : link'[d] => link[d]
  BY DEF ClientStep, ClientExchange, ClientConfirm, ClientTruncates, ClientPins, ClientWelcomed,
         ClientGivesUp, ClientCrash, serverVars, netVars
<1>1. CASE ~link'[c]
  <2>1. \A d \in Client : link'[d] => d # c /\ down'[d] = down[d] /\ cpc'[d] = cpc[d]
    BY <1>1
       DEF ClientStep, ClientExchange, ClientConfirm, ClientTruncates, ClientPins, ClientWelcomed,
           ClientGivesUp, ClientCrash, ClientAt, FromServer, netVars
  <2>. QED BY <1>0, <2>1 DEF Answers
<1>2. CASE link'[c]
  <2>0. link[c] /\ \A d \in Client : link'[d] => d = c
    BY <1>0, <1>2 DEF OneHandled
  <2>. USE <1>0, <2>0 DEF Answers, ClientAt
  <2>1. CASE ClientExchange(c)
    BY <2>1, ServerQueues DEF ClientExchange, FromServer
  <2>2. CASE ClientConfirm(c)
    BY <2>2, ServerQueues DEF ClientConfirm, FromServer
  <2>3. CASE ClientTruncates(c)
    BY <2>3 DEF ClientTruncates, netVars
  <2>4. CASE ClientPins(c)
    BY <2>4 DEF ClientPins
  <2>5. CASE ClientWelcomed(c)
    BY <2>5, ServerQueues DEF ClientWelcomed, FromServer
  <2>6. CASE ClientGivesUp(c) \/ ClientCrash(c)
    BY <1>2, <2>6 DEF ClientGivesUp, ClientCrash
  <2>. QED BY <2>1, <2>2, <2>3, <2>4, <2>5, <2>6 DEF ClientStep
<1>. QED BY <1>1, <1>2

\* The server answers the frame its place calls for, and then stands where
\* the client expects it.
LEMMA ServerAnswers ==
  ASSUME TrustInv, Conversation, Answers, ServerStep \/ WriteFails \/ ServerCrash
  PROVE  Answers'
<1>. USE DEF TrustInv, TypeOK
<1>1. CASE HandlerFails \/ WriteFails \/ ServerCrash
  <2>1. \A d \in Client : ~link'[d]
    BY <1>1, TrustAssumption DEF HandlerFails, WriteFails, ServerCrash, HandlerReturns, OneHandled
  <2>. QED BY <2>1 DEF Answers
<1>2. CASE Load \/ Accept \/ Exchange \/ Confirm \/ Truncate \/ Pin \/ Hello
  <2>0. /\ peer \in Client /\ peer' = peer
        /\ UNCHANGED <<link, cpc>>
        /\ \A d \in Client : link'[d] => d = peer
    BY <1>2
       DEF Load, Accept, Exchange, Confirm, Truncate, Pin, Hello, ServerAt, OneHandled, clientVars,
           netVars
  <2>. SUFFICES ASSUME link[peer]
                PROVE  Answers'
    BY <2>0 DEF Answers
  <2>. USE <2>0 DEF ServerAt
  <2>1. CASE Load
    BY <2>1 DEF Load, Answers, netVars
  <2>2. CASE Accept
    BY <2>2, ServerQueues DEF Accept, ToClient, Answers
  <2>3. CASE Exchange
    <3>1. spc = "exchange" /\ spc' = "confirm" /\ up[peer] # <<>> /\ Head(up[peer]) = "spake"
      BY <2>3 DEF Exchange, FromClient
    <3>2. down'[peer] = Append(down[peer], ServersConfirm)
      BY <2>3 DEF Exchange, ToClient
    <3>3. \/ cpc[peer] = "exchange" /\ down[peer] = <<"spake">>
          \/ cpc[peer] = "confirm" /\ down[peer] = <<>>
      BY <3>1, OpeningQueues DEF Answers, Conversation, Unanswered
    <3>. QED BY <3>1, <3>2, <3>3, ServerQueues DEF Answers
  <2>4. CASE Confirm
    <3>1. /\ spc = "confirm" /\ spc' = "save" /\ up[peer] # <<>>
          /\ Head(up[peer]) = ServersConfirm /\ down' = down
      BY <2>4 DEF Confirm, FromClient
    <3>2. cpc[peer] \in {"confirm", "save", "writing", "welcome"}
      BY <3>1 DEF Conversation, AwaitsConfirm
    <3>. QED BY <3>1, <3>2 DEF Answers
  <2>5. CASE Truncate
    BY <2>5 DEF Truncate, Answers, netVars
  <2>6. CASE Pin
    BY <2>6 DEF Pin, Answers, netVars
  <2>7. CASE Hello
    <3>1. spc = "hello" /\ spc' = "session" /\ up[peer] # <<>> /\ Head(up[peer]) = "hello"
      BY <2>7 DEF Hello, FromClient
    <3>2. down'[peer] = Append(down[peer], "welcome")
      BY <2>7 DEF Hello, ToClient
    <3>3. cpc[peer] = "welcome"
      BY <3>1, OpeningQueues, ClientQueues
         DEF Conversation, AwaitsHello, Unanswered, Answers, WelcomeIsOfThisHandshake
    <3>. QED BY <3>1, <3>2, <3>3, ServerQueues DEF Answers
  <2>. QED BY <1>2, <2>1, <2>2, <2>3, <2>4, <2>5, <2>6, <2>7
<1>. QED BY <1>1, <1>2 DEF ServerStep

\* A broken connection has no answers to keep, and nobody else gives any.
LEMMA NextAnswers ==
  ASSUME TrustInv, Conversation, Answers, [Next]_vars
  PROVE  Answers'
<1>1. ASSUME NEW c \in Client, Lose(c) PROVE Answers'
  <2>1. \A d \in Client : ~link'[d]
    BY <1>1 DEF Lose, TrustInv, TypeOK, OneHandled
  <2>. QED BY <2>1 DEF Answers
<1>2. CASE \/ (\E c \in Client : RevokeLoad(c)) \/ RevokeTruncates \/ RevokeWrites \/ RevokeCrash
           \/ UNCHANGED vars
  BY <1>2 DEF RevokeLoad, RevokeTruncates, RevokeWrites, RevokeCrash, vars, clientVars, netVars,
              serverVars, Answers
<1>. QED BY <1>1, <1>2, DialAnswers, ClientAnswers, ServerAnswers DEF Next

-----------------------------------------------------------------------------
(* The theorems.                                                           *)

\* IInv holds throughout: what is in the files came of the code, and what is on its
\* way in either direction is what the place of the other side calls for.
THEOREM Safety == Spec => []IInv
<1>1. Init => IInv
  BY InitTrustInv DEF IInv, Init, Conversation, Answers
<1>2. IInv /\ [Next]_vars => IInv'
  BY NextTrust, NextConversation, NextAnswers DEF IInv
<1>. QED BY <1>1, <1>2, PTL DEF Spec

\* A mistyped code pairs neither end. Between programs of this repository a
\* client is in either file only if it was given the server's code and derived
\* the server's key, whatever is lost, misread, crashed or written over.
THEOREM OnlyByCode == Spec => []PairedByCode
<1>1. IInv => PairedByCode
  BY DEF IInv, TrustInv
<1>. QED BY <1>1, Safety, PTL

\* A session on a live connection is one both sides know of, between two that
\* have each other in their files.
THEOREM Mutual == Spec => []SessionIsMutual
<1>1. IInv => SessionIsMutual
  BY DEF IInv, TrustInv, SessionIsMutual, OneHandled, CeremonyProves, WelcomeIsOfThisHandshake
<1>. QED BY <1>1, Safety, PTL

\* The two sides never lose their place in one another's stream.
THEOREM InPlace == Spec => [](Conversation /\ Answers)
<1>1. IInv => Conversation /\ Answers
  BY DEF IInv
<1>. QED BY <1>1, Safety, PTL

\* A frame of one stream is taken for one of the other only where the two files
\* disagree about the client.
THEOREM MisreadsExplained == Spec => []MisreadMeansDisagreement
<1>1. IInv => MisreadMeansDisagreement
  <2>. SUFFICES ASSUME IInv, peer # Nobody, Misread
                PROVE  (pin[peer] = "pinned") # (peer \in store)
    BY DEF MisreadMeansDisagreement
  <2>. USE OpeningQueues DEF IInv, TrustInv, Conversation
  <2>1. CASE spc = "exchange" /\ Head(up[peer]) # "spake"
    BY <2>1 DEF Misread, Unanswered
  <2>2. CASE spc = "confirm" /\ Head(up[peer]) \notin Confirmation
    <3>1. ClientsConfirm(peer) \in Confirmation
      BY DEF ClientsConfirm, ServersConfirm, Confirmation
    <3>2. /\ Head(<<ClientsConfirm(peer)>>) = ClientsConfirm(peer)
          /\ Head(<<ClientsConfirm(peer), "hello">>) = ClientsConfirm(peer)
      BY <3>1, ClientQueues
    <3>. QED BY <2>2, <3>1, <3>2 DEF Misread, AwaitsConfirm
  <2>3. CASE spc = "hello" /\ Head(up[peer]) # "hello"
    BY <2>3 DEF Misread, AwaitsHello, Unanswered, WelcomeIsOfThisHandshake
  <2>. QED BY <2>1, <2>2, <2>3 DEF Misread
<1>. QED BY <1>1, Safety, PTL

\* Client and server never wait for each other at the same time. This is the
\* safe half of HandshakeEnds: the two programs need only go on when they can.
THEOREM NobodyStuck == Spec => []NoStandoff
<1>1. IInv => NoStandoff
  <2>. SUFFICES ASSUME IInv, NEW c \in Client, link[c], ~(spc = "session" /\ cpc[c] = "session"),
                       spc \notin {"load", "save", "writing"}, cpc[c] \notin {"save", "writing"},
                       up[c] = <<>> \/ spc \notin {"accept", "exchange", "confirm", "hello"}
                PROVE  ClientHears(c)
    BY DEF NoStandoff
  <2>. USE ServerQueues DEF IInv, TrustInv, TypeOK, ClientHears
  <2>0. peer = c /\ spc \in {"accept", "exchange", "confirm", "hello", "session"}
    BY TrustAssumption DEF OneHandled
  <2>01. \A f, g : <<f>> # <<>> /\ <<f, g>> # <<>>
    OBVIOUS
  <2>1. CASE spc \in {"accept", "exchange"}
    BY <2>0, <2>01, <2>1 DEF Conversation, Unanswered
  <2>2. CASE spc = "confirm"
    BY <2>0, <2>2 DEF Conversation, AwaitsConfirm, Answers
  <2>3. CASE spc = "hello"
    <3>1. up[c] = <<>>
      BY <2>3
    <3>2. AwaitsHello
      BY <2>0, <2>01, <2>3, <3>1 DEF Conversation, Unanswered
    <3>3. cpc[c] = "confirm"
      BY <2>0, <2>01, <3>1, <3>2 DEF AwaitsHello
    <3>4. down[c] = <<ServersConfirm>>
      BY <2>3, <3>3 DEF Answers
    <3>. QED BY <3>3, <3>4
  <2>4. CASE spc = "session"
    BY <2>0, <2>4 DEF Answers
  <2>. QED BY <2>0, <2>1, <2>2, <2>3, <2>4
<1>. QED BY <1>1, Safety, PTL
=============================================================================
