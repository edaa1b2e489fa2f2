----------------------- MODULE BupRegistrationProofs ------------------------
(***************************************************************************)
(* Proofs about the private channels.  Until something fails, a thread of  *)
(* the server misses its client only when an announcement has replaced its *)
(* message: the server takes private messages of registered clients only.  *)
(* And the key that is retained for a client in its first run stays until  *)
(* the client has subscribed, so that a client whose start nothing         *)
(* disturbs finds it.  What is copied was asked for, and what is answered  *)
(* was copied; what a client takes for the key is the key, unless it comes *)
(* from an earlier run; and a request is lost only when it is replaced.    *)
(***************************************************************************)
EXTENDS BupSystemProofs

\* RegFacts: what RegistrationInv says before the first failure.
RegFacts ==
  /\ RetainedTopicInv /\ HeardAreRegistered /\ QueuedAreHeard
  /\ TakenIsRegistered /\ ThreadsAreRegistered

-----------------------------------------------------------------------------
(* The retained messages.                                                  *)

\* publish() retains the message, if any, under its own topic.
LEMMA PublishRetains ==
  ASSUME NetTypeOK, RetainedTopicInv, NEW s, NEW t \in Topic, NEW body,
         Publish(s, t, body)
  PROVE  RetainedTopicInv'
  BY DEF Publish, NetTypeOK, RetainedTopicInv

\* The end of a session only changes whose the retained messages are.
LEMMA EndSessionRetains ==
  ASSUME NetTypeOK, RetainedTopicInv, NEW s, NEW rest, EndSession(s, rest)
  PROVE  RetainedTopicInv'
<1> SUFFICES ASSUME NEW t \in Topic, retained'[t] # Null
             PROVE  retained'[t].topic = t
  BY DEF RetainedTopicInv
<1>1. retained'[t] = IF retained[t] # Null /\ retained[t].from = s
                     THEN [retained[t] EXCEPT !.from = Nobody] ELSE retained[t]
  BY DEF EndSession
<1>2. CASE retained[t] # Null
  <2>1. retained[t] \in Message /\ retained[t].topic = t
    BY <1>2 DEF NetTypeOK, RetainedTopicInv
  <2>2. [retained[t] EXCEPT !.from = Nobody].topic = retained[t].topic
    BY <2>1 DEF Message
  <2> QED BY <1>1, <2>1, <2>2
<1>3. CASE retained[t] = Null
  BY <1>1, <1>3
<1> QED BY <1>2, <1>3

-----------------------------------------------------------------------------
(* The steps of a client.                                                  *)

\* What a client does to the others: at most, they hear a message.
LEMMA ClientEffect ==
  ASSUME IInv, NEW c \in Client, ClientNext(c), RetainedTopicInv
  PROVE  OthersHear(c) /\ RetainedTopicInv'
<1>0. /\ NetTypeOK /\ ClientTypeOK /\ ClientOK(c)
      /\ c \in Session /\ c \in Topic /\ Public \in Topic
  BY IInvParts DEF ClientPart, Session, Topic
<1>1. CASE UNCHANGED netVars
  BY <1>1 DEF netVars, OthersHear, RetainedTopicInv
<1>2. ASSUME NEW rest, EndSession(c, rest) PROVE OthersHear(c) /\ RetainedTopicInv'
  <2>1. /\ sub' = [sub EXCEPT ![c] = [t \in Topic |-> "none"]]
        /\ inbox' = [inbox EXCEPT ![c] = rest]
    BY <1>2 DEF EndSession
  <2>2. OthersHear(c)
    BY <1>0, <2>1 DEF OthersHear, NetTypeOK
  <2> QED BY <1>0, <1>2, <2>2, EndSessionRetains
<1>3. CASE Take(c)
  BY <1>0, <1>3 DEF Take, OthersHear, NetTypeOK, RetainedTopicInv
<1>4. CASE ClientPublish(c)
  <2>1. infoLine[c] \in InfoLine
    BY <1>0, <1>4 DEF ClientPublish, ClientOK, ClientTypeOK
  <2>2. Publish(c, Public, SubscribeBody(c, infoLine[c]))
    BY <1>4 DEF ClientPublish
  <2>3. [topic |-> Public, body |-> SubscribeBody(c, infoLine[c]), from |-> c]
          \in Message
    BY <1>0, <2>1, Announcement
  <2> QED BY <1>0, <2>2, <2>3, PublishHeard, PublishRetains
<1>5. CASE ClientRequest(c)
  <2>1. PICK line \in Lines : Publish(c, c, line) \/ UNCHANGED netVars
    BY <1>5 DEF ClientRequest, netVars
  <2>2. line \in PrivateBody
    BY TypedLine
  <2>3. [topic |-> c, body |-> line, from |-> c] \in Message
    BY <1>0, <2>2, PrivateMessage
  <2> QED BY <1>0, <1>1, <2>1, <2>3, PublishHeard, PublishRetains
<1>6. CASE Subscribe(c, c, "local")
  BY <1>0, <1>6 DEF Subscribe, OthersHear, NetTypeOK, RetainedTopicInv
<1>7. CASE ClientSubscribe(c)
  BY <1>1, <1>6, <1>7 DEF ClientSubscribe
<1>8. CASE ClientPublishFails(c) \/ ClientLinkLost(c) \/ ClientStop(c)
  BY <1>2, <1>8 DEF ClientPublishFails, ClientLinkLost, ClientStop
<1>9. CASE ClientConnect(c) \/ ClientStartConsuming(c)
  BY <1>1, <1>9 DEF ClientConnect, ClientStartConsuming, brokerVars, netVars
<1>10. CASE ClientWaitKey(c) \/ ClientReceive(c)
  BY <1>3, <1>10 DEF ClientWaitKey, ClientReceive
<1> QED BY <1>4, <1>5, <1>7, <1>8, <1>9, <1>10 DEF ClientNext, ClientMain

\* So no client makes the server hear a channel it has not registered.
LEMMA ClientKeepsRegistered ==
  ASSUME IInv, RegFacts, NEW c \in Client, ClientNext(c), UNCHANGED serverVars
  PROVE  RegFacts'
<1>0. NetTypeOK /\ ServerPart /\ inbox[Server] \in Seq(Message \cup {Null})
  BY IInvParts DEF NetTypeOK, Session
<1> USE DEF serverVars
<1>1. OthersHear(c) /\ RetainedTopicInv'
  BY ClientEffect DEF RegFacts
<1>2. Server \in Session \ {c}
  BY NamesAreDistinct DEF Session
<1>3. sub'[Server] = sub[Server]
  BY <1>1, <1>2 DEF OthersHear
<1>4. HeardAreRegistered' /\ TakenIsRegistered' /\ ThreadsAreRegistered'
  BY <1>3 DEF RegFacts, HeardAreRegistered, TakenIsRegistered,
     ThreadsAreRegistered, Registered
<1>5. QueuedAreHeard'
  <2>1. CASE inbox'[Server] = inbox[Server]
    BY <1>3, <2>1 DEF RegFacts, QueuedAreHeard
  <2>2. CASE inbox'[Server] # inbox[Server]
    <3>1. PICK m \in Message, t \in Topic :
            /\ m.topic = t /\ sub[Server][t] # "none"
            /\ inbox'[Server] = Append(inbox[Server], m)
      BY <1>1, <1>2, <2>2 DEF OthersHear
    <3>2. sub[Server][m.topic] = "nolocal"
      <4>1. sub[Server][t] \in SubMode /\ sub[Server][t] # "local"
        BY <1>0 DEF NetTypeOK, Session, ServerPart, ServerSessionInv
      <4> QED BY <3>1, <4>1 DEF SubMode
    <3>3. \A i \in 1..Len(inbox[Server]) : inbox[Server][i].topic # Public =>
            sub[Server][inbox[Server][i].topic] = "nolocal"
      BY DEF RegFacts, QueuedAreHeard
    <3> QED BY <1>0, <1>3, <3>1, <3>2, <3>3, AppendElements DEF QueuedAreHeard
  <2> QED BY <2>1, <2>2
<1> QED BY <1>1, <1>4, <1>5 DEF RegFacts

-----------------------------------------------------------------------------
(* The steps of the server.                                                *)

\* The main thread goes on, without registering, with the network unchanged.
LEMMA GotoKeepsRegistered ==
  ASSUME RegFacts, UNCHANGED <<netVars, m_msgPtr, m_clients, th>>,
         spc \notin {"publishKey", "register"}
  PROVE  RegFacts'
  BY DEF netVars, RegFacts, RetainedTopicInv, HeardAreRegistered, QueuedAreHeard,
     TakenIsRegistered, ThreadsAreRegistered, Registered

\* KnowsTopic: the program counters of a thread that has read a topic.
KnowsTopic == {"readPayload", "search", "exec", "reply"}

\* A thread goes on: it may learn a topic only from m_msgPtr.
LEMMA ThreadLearns ==
  ASSUME IInv, NEW h \in Handler,
         HandlerReadTopic(h) \/ HandlerReadPayload(h) \/ HandlerSearch(h)
           \/ HandlerExec(h)
  PROVE  /\ \A g \in Handler \ {h} : th'[g] = th[g]
         /\ th'[h].pc \in KnowsTopic =>
              \/ th'[h].subscriberIp = m_msgPtr.topic /\ m_msgPtr # Null
              \/ /\ th[h].pc \in KnowsTopic
                 /\ th'[h].subscriberIp = th[h].subscriberIp
<1> USE DEF KnowsTopic
<1>0. th \in [Handler -> Thread] /\ ThreadInv
  BY IInvParts DEF ServerPart, ServerTypeOK
<1>1. \A g \in Handler \ {h} : th'[g] = th[g]
  BY <1>0 DEF HandlerReadTopic, HandlerReadPayload, HandlerSearch, HandlerExec
<1>2. th[h] \in Thread
  BY <1>0
<1>3. CASE HandlerReadTopic(h)
  <2>1. th'[h].subscriberIp = m_msgPtr.topic /\ m_msgPtr # Null
    BY <1>0, <1>2, <1>3 DEF HandlerReadTopic, ThreadInv, Thread
  <2> QED BY <1>1, <2>1
<1>4. CASE HandlerReadPayload(h)
  <2>1. th[h].pc = "readPayload"
        /\ (th'[h].subscriberIp = th[h].subscriberIp \/ th'[h].pc = "idle")
    BY <1>0, <1>2, <1>4 DEF HandlerReadPayload, IdleThread, Thread
  <2> QED BY <1>1, <2>1
<1>5. CASE HandlerSearch(h)
  <2>1. PICK i \in 1..Len(m_clients) :
          th' = [th EXCEPT ![h].pc = "exec",
                           ![h].cmnd = CopyCommand(th[h].subscriberIp,
                                         m_clients[i], th[h].backUpPath)]
    BY <1>5 DEF HandlerSearch
  <2>2. th'[h] = [th[h] EXCEPT !.pc = "exec",
                               !.cmnd = CopyCommand(th[h].subscriberIp,
                                          m_clients[i], th[h].backUpPath)]
    BY <1>0, <2>1
  <2>3. th[h].pc = "search" /\ th'[h].subscriberIp = th[h].subscriberIp
    BY <1>2, <1>5, <2>2 DEF HandlerSearch, Thread
  <2> QED BY <1>1, <2>3
<1>6. CASE HandlerExec(h)
  <2>1. PICK ok \in BOOLEAN : th' = [th EXCEPT ![h].pc = "reply", ![h].ok = ok]
    BY <1>6 DEF HandlerExec
  <2>2. th'[h] = [th[h] EXCEPT !.pc = "reply", !.ok = ok]
    BY <1>0, <2>1
  <2>3. th[h].pc = "exec" /\ th'[h].subscriberIp = th[h].subscriberIp
    BY <1>2, <1>6, <2>2 DEF HandlerExec, Thread
  <2> QED BY <1>1, <2>3
<1> QED BY <1>3, <1>4, <1>5, <1>6

LEMMA ThreadKeepsRegistered ==
  ASSUME IInv, RegFacts, UNCHANGED <<netVars, spc, m_msgPtr, m_clients>>,
         NEW h \in Handler,
         HandlerReadTopic(h) \/ HandlerReadPayload(h) \/ HandlerSearch(h)
           \/ HandlerExec(h)
  PROVE  RegFacts'
<1>1. ThreadsAreRegistered'
  BY ThreadLearns
     DEF RegFacts, TakenIsRegistered, ThreadsAreRegistered, Registered, KnowsTopic
<1> QED BY <1>1 DEF netVars, RegFacts, RetainedTopicInv, HeardAreRegistered,
           QueuedAreHeard, TakenIsRegistered, Registered

LEMMA SpawnKeepsRegistered ==
  ASSUME IInv, RegFacts, NEW h \in Handler, ServerSpawn(h)
  PROVE  RegFacts'
<1>0. th \in [Handler -> Thread]
  BY IInvParts DEF ServerPart, ServerTypeOK
<1>1. /\ spc = "assign" /\ UNCHANGED <<netVars, m_msgPtr, m_clients>>
      /\ \A g \in Handler \ {h} : th'[g] = th[g]
      /\ th'[h].pc = "readTopic"
  BY <1>0 DEF ServerSpawn, brokerVars, netVars, IdleThread
<1>2. ThreadsAreRegistered'
  BY <1>1 DEF RegFacts, ThreadsAreRegistered, Registered
<1> QED BY <1>1, <1>2 DEF netVars, RegFacts, RetainedTopicInv, HeardAreRegistered,
           QueuedAreHeard, TakenIsRegistered, Registered

\* The server takes a message of a channel it hears: one it has registered,
\* since it is not registering now.
LEMMA TakeKeepsRegistered ==
  ASSUME IInv, RegFacts, ServerDiscardArrived \/ ServerConsume
  PROVE  RegFacts'
<1>0. /\ NetTypeOK /\ inbox[Server] \in Seq(Message \cup {Null})
      /\ Server \in Session
  BY IInvParts DEF NetTypeOK, Session
<1>1. /\ Take(Server) /\ UNCHANGED <<m_clients, th>>
      /\ spc \notin {"publishKey", "register"}
      /\ m_msgPtr' \in {m_msgPtr, Head(inbox[Server])}
  BY DEF ServerDiscardArrived, ServerConsume, serverVars
<1>2. /\ retained' = retained /\ sub' = sub
      /\ inbox[Server] # <<>> /\ inbox'[Server] = Tail(inbox[Server])
  BY <1>0, <1>1, TakeEffect DEF Take
<1>3. /\ Head(inbox[Server]) = inbox[Server][1] /\ 1 \in 1..Len(inbox[Server])
      /\ \A i \in 1..Len(Tail(inbox[Server])) :
           /\ i + 1 \in 1..Len(inbox[Server])
           /\ Tail(inbox[Server])[i] = inbox[Server][i + 1]
  BY <1>0, <1>2, TailElements
<1>4. \A i \in 1..Len(inbox[Server]) : inbox[Server][i].topic # Public =>
        sub[Server][inbox[Server][i].topic] = "nolocal"
  BY DEF RegFacts, QueuedAreHeard
<1>5. QueuedAreHeard'
  BY <1>2, <1>3, <1>4 DEF QueuedAreHeard
<1>6. Head(inbox[Server]).topic # Public => Registered(Head(inbox[Server]).topic)
  <2>1. Head(inbox[Server]) \in Message
    BY <1>1, ServerTakes
  <2>2. Head(inbox[Server]).topic # Public => Head(inbox[Server]).topic \in Client
    BY <2>1, MessageFacts
  <2> QED BY <1>1, <1>3, <1>4, <2>2 DEF RegFacts, HeardAreRegistered
<1>7. HeardAreRegistered' /\ ThreadsAreRegistered' /\ RetainedTopicInv'
  BY <1>1, <1>2 DEF RegFacts, HeardAreRegistered, ThreadsAreRegistered,
     RetainedTopicInv, Registered
<1>8. TakenIsRegistered'
  BY <1>1, <1>6 DEF RegFacts, TakenIsRegistered, Registered
<1> QED BY <1>5, <1>7, <1>8 DEF RegFacts

\* The server subscribes to t: it gets nothing but the retained message of t,
\* which it hears from now on.
LEMMA SubscribeQueues ==
  ASSUME IInv, RegFacts, NEW t \in Topic, Subscribe(Server, t, "nolocal")
  PROVE  /\ RetainedTopicInv' /\ QueuedAreHeard'
         /\ \A u \in Topic \ {t} : sub'[Server][u] = sub[Server][u]
<1>0. /\ NetTypeOK /\ inbox[Server] \in Seq(Message \cup {Null})
      /\ Server \in Session /\ "nolocal" \in SubMode
      /\ sub[Server] \in [Topic -> SubMode]
      /\ \A i \in 1..Len(inbox[Server]) : inbox[Server][i] \in Message
  <2>1. inbox[Server] \in Seq(Message \cup {Null})
    BY IInvParts DEF NetTypeOK, Session
  <2>2. \A i \in 1..Len(inbox[Server]) : inbox[Server][i] # Null
    BY IInvParts DEF ServerPart, ServerSessionInv
  <2> QED BY <2>1, <2>2, IInvParts DEF NetTypeOK, Session, SubMode
<1>1. /\ sub'[Server] = [sub[Server] EXCEPT ![t] = "nolocal"]
      /\ \/ inbox'[Server] = inbox[Server]
         \/ retained[t] \in Message /\ Receives(Server, retained[t], "nolocal")
  BY <1>0, SubscribeEffect
<1>2. RetainedTopicInv'
  BY DEF RegFacts, RetainedTopicInv, Subscribe
<1>3. \A i \in 1..Len(inbox[Server]) : inbox[Server][i].topic # Public =>
        sub'[Server][inbox[Server][i].topic] = "nolocal"
  <2> SUFFICES ASSUME NEW i \in 1..Len(inbox[Server]),
                      inbox[Server][i].topic # Public
               PROVE  sub'[Server][inbox[Server][i].topic] = "nolocal"
    OBVIOUS
  <2>1. inbox[Server][i].topic \in Topic
    BY <1>0, MessageFacts
  <2>2. sub[Server][inbox[Server][i].topic] = "nolocal"
    BY DEF RegFacts, QueuedAreHeard
  <2> QED BY <1>0, <1>1, <2>1, <2>2
<1>4. CASE inbox'[Server] = inbox[Server]
  BY <1>0, <1>1, <1>2, <1>3, <1>4 DEF QueuedAreHeard
<1>5. CASE inbox'[Server] # inbox[Server]
  <2>1. retained[t] \in Message /\ inbox'[Server] = Append(inbox[Server], retained[t])
    BY <1>1, <1>5 DEF Receives
  <2>2. retained[t].topic = t
    BY <2>1, NullIsNothingElse DEF RegFacts, RetainedTopicInv
  <2>3. sub'[Server][retained[t].topic] = "nolocal"
    BY <1>0, <1>1, <2>2
  <2>4. QueuedAreHeard'
    BY <1>0, <1>3, <2>1, <2>3, AppendElements DEF QueuedAreHeard
  <2> QED BY <1>0, <1>1, <1>2, <2>4
<1> QED BY <1>4, <1>5

LEMMA SetupsKeepRegistered ==
  ASSUME IInv, RegFacts, ServerSetups
  PROVE  RegFacts'
<1>1. /\ spc = "setup" /\ UNCHANGED <<m_msgPtr, m_clients, th>>
      /\ Subscribe(Server, Public, "nolocal") \/ UNCHANGED netVars
  BY DEF ServerSetups
<1>2. CASE Subscribe(Server, Public, "nolocal")
  <2>1. Public \in Topic /\ \A c \in Client : c \in Topic \ {Public}
    BY NamesAreDistinct DEF Topic
  <2>2. /\ RetainedTopicInv' /\ QueuedAreHeard'
        /\ \A c \in Client : sub'[Server][c] = sub[Server][c]
    BY <1>2, <2>1, SubscribeQueues
  <2>3. HeardAreRegistered' /\ TakenIsRegistered' /\ ThreadsAreRegistered'
    BY <1>1, <2>2 DEF RegFacts, HeardAreRegistered, TakenIsRegistered,
       ThreadsAreRegistered, Registered
  <2> QED BY <2>2, <2>3 DEF RegFacts
<1> QED BY <1>1, <1>2, GotoKeepsRegistered

\* From here to ServerRegister, the client is the one being registered.
LEMMA SubscribeClientKeepsRegistered ==
  ASSUME IInv, RegFacts, ServerSubscribeClient
  PROVE  RegFacts'
<1> DEFINE ip == m_msgPtr.body.ip
<1>1. /\ spc = "subscribe" /\ spc' = "publishKey"
      /\ Subscribe(Server, ip, "nolocal")
      /\ UNCHANGED <<m_msgPtr, m_clients, th>>
  BY DEF ServerSubscribeClient
<1>2. ip \in Topic
  BY <1>1, AnnouncedClient DEF Serving, Topic
<1>3. /\ RetainedTopicInv' /\ QueuedAreHeard'
      /\ \A u \in Topic \ {ip} : sub'[Server][u] = sub[Server][u]
  BY <1>1, <1>2, SubscribeQueues
<1>4. HeardAreRegistered'
  BY <1>1, <1>3 DEF RegFacts, HeardAreRegistered, Registered, Topic
<1>5. TakenIsRegistered' /\ ThreadsAreRegistered'
  BY <1>1 DEF RegFacts, TakenIsRegistered, ThreadsAreRegistered, Registered
<1> QED BY <1>3, <1>4, <1>5 DEF RegFacts

\* The server hears nothing of what it publishes.
LEMMA PublishKeepsRegistered ==
  ASSUME IInv, RegFacts, NEW c \in Client, NEW body \in PrivateBody,
         Publish(Server, c, body), UNCHANGED <<m_msgPtr, m_clients>>,
         spc' = spc \/ (spc = "publishKey" /\ spc' = "register"),
         \A h \in Handler : th'[h] = th[h] \/ th'[h].pc = "idle"
  PROVE  RegFacts'
<1>1. sub' = sub /\ inbox'[Server] = inbox[Server]
  BY ServerPublishes
<1>2. RetainedTopicInv'
  BY PublishRetains, IInvParts DEF RegFacts, Topic
<1>3. HeardAreRegistered' /\ QueuedAreHeard'
  BY <1>1 DEF RegFacts, HeardAreRegistered, QueuedAreHeard, Registered
<1>4. TakenIsRegistered' /\ ThreadsAreRegistered'
  BY DEF RegFacts, TakenIsRegistered, ThreadsAreRegistered, Registered
<1> QED BY <1>2, <1>3, <1>4 DEF RegFacts

LEMMA PublishKeyKeepsRegistered ==
  ASSUME IInv, RegFacts, ServerPublishKey
  PROVE  RegFacts'
<1>1. /\ spc = "publishKey" /\ spc' = "register"
      /\ Publish(Server, m_msgPtr.body.ip, m_publicKey)
      /\ UNCHANGED <<m_msgPtr, m_clients, th>>
  BY DEF ServerPublishKey
<1>2. m_msgPtr.body.ip \in Client /\ m_publicKey \in PrivateBody
  <2>1. m_msgPtr.body.ip \in Client
    BY <1>1, AnnouncedClient DEF Serving
  <2> QED BY <2>1, IInvParts DEF ServerPart, ServerTypeOK, PrivateBody, KeyBody,
             EmptyBody
<1> QED BY <1>1, <1>2, PublishKeepsRegistered

LEMMA ReplyKeepsRegistered ==
  ASSUME IInv, RegFacts, NEW h \in Handler, HandlerReply(h)
  PROVE  RegFacts'
<1> DEFINE body == ReplyBody(th[h].backUpPath.path, th[h].ok)
<1>0. ThreadInv /\ th \in [Handler -> Thread]
  BY IInvParts DEF ServerPart, ServerTypeOK
<1>1. /\ th[h].pc = "reply" /\ th' = [th EXCEPT ![h] = IdleThread]
      /\ Publish(Server, th[h].subscriberIp, body)
      /\ UNCHANGED <<spc, m_msgPtr, m_clients>>
  BY DEF HandlerReply
<1>2. th[h].subscriberIp \in Client /\ body \in PrivateBody
  <2>1. /\ th[h].subscriberIp \in Client /\ th[h] \in Thread
        /\ th[h].backUpPath \in [type : {"backup"}, path : Path]
    BY <1>0, <1>1 DEF ThreadInv
  <2> QED BY <2>1 DEF ReplyBody, PrivateBody, Thread
<1>3. \A g \in Handler : th'[g] = th[g] \/ th'[g].pc = "idle"
  BY <1>0, <1>1 DEF IdleThread
<1> HIDE DEF body
<1> QED BY <1>1, <1>2, <1>3, PublishKeepsRegistered

\* The client that was being registered now is.
LEMMA RegisterKeepsRegistered ==
  ASSUME IInv, RegFacts, ServerRegister
  PROVE  RegFacts'
<1> DEFINE new == NewRegistration(m_msgPtr.body)
<1>1. /\ spc = "register" /\ spc' = "consume"
      /\ m_clients' = Append(m_clients, new)
      /\ UNCHANGED <<retained, sub, inbox, m_msgPtr, th>>
  BY DEF ServerRegister, brokerVars
<1>2. m_clients \in Seq(Registration)
  BY IInvParts DEF ServerPart, ServerTypeOK
<1>3. new \in Registration /\ new.ip = m_msgPtr.body.ip
  <2>1. m_msgPtr.body \in PublicBody
    BY <1>1, AnnouncedClient DEF Serving
  <2> QED BY <2>1, RegistrationType
<1> HIDE DEF new
<1>4. /\ Len(m_clients') = Len(m_clients) + 1
      /\ \A i \in 1..Len(m_clients) : m_clients'[i] = m_clients[i]
      /\ m_clients'[Len(m_clients) + 1] = new
  BY <1>1, <1>2, <1>3, AppendElements
<1>5. Len(m_clients) \in Nat
  BY <1>2
<1>6. Registered(m_msgPtr.body.ip)'
  BY <1>1, <1>3, <1>4, <1>5 DEF Registered
<1>7. \A ip : Registered(ip) =>
        \E i \in 1..Len(m_clients') : m_clients'[i].ip = ip
  BY <1>4, <1>5 DEF Registered
<1>8. RetainedTopicInv' /\ QueuedAreHeard'
  BY <1>1 DEF RegFacts, RetainedTopicInv, QueuedAreHeard
<1>9. HeardAreRegistered'
  <2> SUFFICES ASSUME NEW c \in Client, sub'[Server][c] = "nolocal"
               PROVE  Registered(c)'
    BY DEF HeardAreRegistered
  <2>1. Registered(c) \/ m_msgPtr.body.ip = c
    BY <1>1 DEF RegFacts, HeardAreRegistered
  <2> QED BY <1>1, <1>6, <1>7, <2>1 DEF Registered
<1>10. TakenIsRegistered'
  <2> SUFFICES ASSUME m_msgPtr' # Null, m_msgPtr'.topic # Public
               PROVE  Registered(m_msgPtr.topic)'
    BY <1>1 DEF TakenIsRegistered
  <2>1. Registered(m_msgPtr.topic)
    BY <1>1 DEF RegFacts, TakenIsRegistered
  <2> QED BY <1>1, <1>7, <2>1 DEF Registered
<1>11. ThreadsAreRegistered'
  <2> SUFFICES ASSUME NEW h \in Handler,
                      th'[h].pc \in {"readPayload", "search", "exec", "reply"},
                      th'[h].subscriberIp # Public
               PROVE  Registered(th[h].subscriberIp)'
    BY <1>1 DEF ThreadsAreRegistered
  <2>1. Registered(th[h].subscriberIp)
    BY <1>1 DEF RegFacts, ThreadsAreRegistered
  <2> QED BY <1>1, <1>7, <2>1 DEF Registered
<1> QED BY <1>8, <1>9, <1>10, <1>11 DEF RegFacts

\* A server that ends hears nothing, and runs no thread.
LEMMA ExitKeepsRegistered ==
  ASSUME IInv, RegFacts, ServerExit
  PROVE  RegFacts'
<1>0. NetTypeOK /\ Server \in Session /\ <<>> \in Seq(Message \cup {Null})
  BY IInvParts DEF Session
<1>1. /\ EndSession(Server, <<>>) /\ m_msgPtr' = Null
      /\ th' = [h \in Handler |-> IdleThread]
  BY DEF ServerExit
<1>2. inbox'[Server] = <<>> /\ \A t \in Topic : sub'[Server][t] = "none"
  BY <1>0, <1>1, EndSessionEffect
<1>3. RetainedTopicInv'
  BY <1>0, <1>1, EndSessionRetains DEF RegFacts
<1>4. HeardAreRegistered' /\ QueuedAreHeard'
  BY <1>2 DEF HeardAreRegistered, QueuedAreHeard, Topic
<1>5. TakenIsRegistered' /\ ThreadsAreRegistered'
  BY <1>1 DEF TakenIsRegistered, ThreadsAreRegistered, IdleThread
<1> QED BY <1>3, <1>4, <1>5 DEF RegFacts

\* Every step of the server but a failure.
LEMMA ServerKeepsRegistered ==
  ASSUME IInv, RegFacts, ServerNext, ~Fault
  PROVE  RegFacts'
<1>1. ASSUME NEW h \in Handler, HandlerStep(h) PROVE RegFacts'
  <2>1. CASE HandlerSearchMisses(h)
    BY <2>1, ExitKeepsRegistered DEF HandlerSearchMisses
  <2>2. CASE HandlerReply(h)
    BY <2>2, ReplyKeepsRegistered
  <2>3. CASE \/ HandlerReadTopic(h) \/ HandlerReadPayload(h) \/ HandlerSearch(h)
             \/ HandlerExec(h)
    <3>1. UNCHANGED <<netVars, spc, m_msgPtr, m_clients>>
      BY <2>3 DEF HandlerReadTopic, HandlerReadPayload, HandlerSearch,
         HandlerExec, brokerVars, netVars
    <3> QED BY <2>3, <3>1, ThreadKeepsRegistered
  <2> QED BY <1>1, <2>1, <2>2, <2>3 DEF HandlerStep
<1>2. CASE \/ ServerConnect \/ ServerCannotReadKey \/ ServerDisableCallbacks
           \/ ServerInstallCallbacks \/ ServerNewSubscriber
  BY <1>2, GotoKeepsRegistered DEF ServerConnect, ServerCannotReadKey,
     ServerDisableCallbacks, ServerInstallCallbacks, ServerNewSubscriber, brokerVars,
     netVars
<1>3. CASE ServerMain
  BY <1>2, <1>3, SetupsKeepRegistered, TakeKeepsRegistered, SpawnKeepsRegistered,
     SubscribeClientKeepsRegistered, PublishKeyKeepsRegistered,
     RegisterKeepsRegistered DEF ServerMain
<1>4. CASE ServerFailure
  <2>1. ~ServerNewSubscriberFails /\ ~ServerLinkLost
        /\ \A h \in Handler : ~HandlerThrows(h)
    BY DEF ServerNewSubscriberFails, ServerLinkLost, HandlerThrows
  <2>2. ASSUME NEW h \in Handler, HandlerReadRaces(h) \/ HandlerSearchRaces(h)
        PROVE  RegFacts'
    BY <2>2, ExitKeepsRegistered DEF HandlerReadRaces, HandlerSearchRaces
  <2> QED BY <1>4, <2>1, <2>2, TakeKeepsRegistered DEF ServerFailure
<1> QED BY <1>1, <1>2, <1>3, <1>4 DEF ServerNext

-----------------------------------------------------------------------------
(* The theorem.                                                            *)

\* Failures are counted, and never uncounted.
LEMMA FaultsGrow == Next => faults' \in {faults, faults + 1}
<1>1. Fault \/ NoFault => faults' \in {faults, faults + 1}
  BY DEF Fault, NoFault
<1>2. ASSUME NEW c \in Client, ClientNext(c) PROVE faults' \in {faults, faults + 1}
  BY <1>1, <1>2 DEF ClientNext, ClientMain, ClientConnect, ClientPublish,
     ClientPublishFails, ClientStartConsuming, ClientSubscribe, ClientWaitKey,
     ClientRequest, ClientReceive, ClientLinkLost, ClientStop, brokerVars
<1>3. ASSUME NEW h \in Handler, HandlerStep(h) PROVE faults' \in {faults, faults + 1}
  BY <1>1, <1>3 DEF HandlerStep, HandlerReadTopic, HandlerReadPayload, HandlerSearch,
     HandlerSearchMisses, HandlerExec, HandlerReply, brokerVars
<1>4. CASE ServerMain
  BY <1>1, <1>4 DEF ServerMain, ServerSetups, ServerDisableCallbacks,
     ServerInstallCallbacks, ServerConsume, ServerNewSubscriber, ServerSpawn,
     ServerSubscribeClient, ServerPublishKey, ServerRegister, brokerVars
<1>5. CASE ServerFailure
  BY <1>1, <1>5 DEF ServerFailure, ServerDiscardArrived, ServerNewSubscriberFails,
     ServerLinkLost, HandlerReadRaces, HandlerSearchRaces, HandlerThrows
<1>6. CASE ServerConnect \/ ServerCannotReadKey
  BY <1>1, <1>6 DEF ServerConnect, ServerCannotReadKey, brokerVars
<1> QED BY <1>2, <1>3, <1>4, <1>5, <1>6 DEF Next, ServerNext

LEMMA InitRegistration == Init => RegistrationInv
<1> SUFFICES ASSUME Init PROVE RegFacts
  BY DEF RegistrationInv, RegFacts
<1>1. RetainedTopicInv /\ HeardAreRegistered /\ QueuedAreHeard
  BY DEF Init, BrokerInit, RetainedTopicInv, HeardAreRegistered, QueuedAreHeard,
     Session, Topic
<1>2. TakenIsRegistered /\ ThreadsAreRegistered
  BY DEF Init, ServerInit, TakenIsRegistered, ThreadsAreRegistered, IdleThread
<1> QED BY <1>1, <1>2 DEF RegFacts

\* The server hears, and its threads work for, registered clients only.
THEOREM RegistrationHolds == Spec => []RegistrationInv
<1>1. IInv /\ RegistrationInv /\ [Next]_vars => RegistrationInv'
  <2> SUFFICES ASSUME IInv, RegistrationInv, [Next]_vars, faults' = 0
               PROVE  RegFacts'
    BY DEF RegistrationInv, RegFacts
  <2>0. faults \in Nat
    BY IInvParts
  <2>1. CASE UNCHANGED vars
    <3>1. RegFacts
      BY <2>1 DEF RegistrationInv, RegFacts, vars, brokerVars
    <3> QED BY <2>1, <3>1 DEF vars, brokerVars, serverVars, RegFacts,
               RetainedTopicInv, HeardAreRegistered, QueuedAreHeard,
               TakenIsRegistered, ThreadsAreRegistered, Registered
  <2>2. CASE faults = 0
    <3>1. RegFacts /\ ~Fault
      BY <2>2 DEF RegistrationInv, RegFacts, Fault
    <3>2. CASE ServerNext /\ UNCHANGED clientVars
      BY <3>1, <3>2, ServerKeepsRegistered
    <3>3. ASSUME NEW c \in Client, ClientNext(c), UNCHANGED serverVars
          PROVE  RegFacts'
      BY <3>1, <3>3, ClientKeepsRegistered
    <3> QED BY <2>1, <3>2, <3>3 DEF Next
  <2> QED BY <2>0, <2>1, <2>2, FaultsGrow
<1> QED BY <1>1, InitRegistration, Invariance, PTL DEF Spec

\* Until something fails, a thread that does not find its client was misled by
\* an announcement that replaced its message.
THEOREM MissMeansReplaced == Spec => []MissOnlyOnReplacedMessage
<1>1. IInv /\ RegistrationInv => MissOnlyOnReplacedMessage
  BY DEF RegistrationInv, ThreadsAreRegistered, MissOnlyOnReplacedMessage,
     SearchMisses, Registered
<1> QED BY <1>1, Invariance, RegistrationHolds, PTL

-----------------------------------------------------------------------------
(* The key on the channel of a client that waits for it.                   *)

\* What a step may do to the retained message of c's channel when session s is
\* the one that acts: nothing, or make it nobody's, if it is the one of s.
KeptOn(c, s) ==
  \/ retained'[c] = retained[c]
  \/ /\ retained[c] # Null /\ retained[c].from = s
     /\ retained'[c] = [retained[c] EXCEPT !.from = Nobody]

\* The server gets nothing new, or one message of another channel.
HearsOther(c) ==
  \/ inbox'[Server] = inbox[Server]
  \/ \E m \in Message :
       m.topic # c /\ inbox'[Server] = Append(inbox[Server], m)

\* The end of session s keeps the retained messages, as somebody's or nobody's.
LEMMA EndSessionKeepsOn ==
  ASSUME NEW s, NEW rest, EndSession(s, rest), NEW c \in Client
  PROVE  KeptOn(c, s)
  BY DEF EndSession, KeptOn, Topic

\* A message that becomes nobody's says what it said.
LEMMA KeptBody ==
  ASSUME NetTypeOK, NEW c \in Client, NEW s, KeptOn(c, s)
  PROVE  /\ retained'[c] = Null <=> retained[c] = Null
         /\ KeyIsRetained(c) => KeyIsRetained(c)'
<1>1. CASE retained'[c] = retained[c]
  BY <1>1 DEF KeyIsRetained
<1>2. CASE /\ retained[c] # Null
           /\ retained'[c] = [retained[c] EXCEPT !.from = Nobody]
  <2>1. retained[c] \in Message
    BY <1>2 DEF NetTypeOK, Topic
  <2>2. retained'[c] \in Message /\ retained'[c].body = retained[c].body
    BY <1>2, <2>1 DEF Message
  <2> QED BY <1>2, <2>2, NullIsNothingElse DEF KeyIsRetained
<1> QED BY <1>1, <1>2 DEF KeptOn

\* Whatever a client does but send a request, nothing happens on its channel,
\* and nothing but that on the channel of any other.
LEMMA ClientOnChannel ==
  ASSUME IInv, NEW c \in Client, NEW d \in Client, ClientNext(d),
         c = d => ~ClientRequest(d)
  PROVE  KeptOn(c, d) /\ HearsOther(c)
<1>0. /\ NetTypeOK /\ ClientTypeOK /\ ClientOK(d)
      /\ d \in Session /\ Server \in Session /\ d # Server
      /\ d \in Topic /\ c \in Topic /\ Public \in Topic /\ c # Public
  BY IInvParts, NamesAreDistinct DEF ClientPart, Session, Topic
<1>1. CASE UNCHANGED netVars
  BY <1>1 DEF netVars, KeptOn, HearsOther
<1>2. ASSUME NEW rest, EndSession(d, rest) PROVE KeptOn(c, d) /\ HearsOther(c)
  <2>1. inbox'[Server] = inbox[Server]
    BY <1>0, <1>2 DEF EndSession, NetTypeOK
  <2> QED BY <1>2, <2>1, EndSessionKeepsOn DEF HearsOther
<1>3. CASE Take(d) \/ Subscribe(d, d, "local")
  BY <1>0, <1>3 DEF Take, Subscribe, KeptOn, HearsOther, NetTypeOK
<1>4. ASSUME NEW t \in Topic, t # c, NEW body, Publish(d, t, body),
             [topic |-> t, body |-> body, from |-> d] \in Message
      PROVE  KeptOn(c, d) /\ HearsOther(c)
  <2> DEFINE m == [topic |-> t, body |-> body, from |-> d]
  <2>1. retained'[c] = retained[c]
    BY <1>0, <1>4 DEF Publish, NetTypeOK
  <2>2. Receives(Server, m, sub[Server][t])
    BY <1>0, <1>4, PublishEffect
  <2>3. m \in Message /\ m.topic # c
    BY <1>4
  <2> HIDE DEF m
  <2> QED BY <2>1, <2>2, <2>3 DEF Receives, KeptOn, HearsOther
<1>5. CASE ClientPublish(d)
  <2>1. infoLine[d] \in InfoLine /\ Publish(d, Public, SubscribeBody(d, infoLine[d]))
    BY <1>0, <1>5 DEF ClientPublish, ClientOK, ClientTypeOK
  <2>2. [topic |-> Public, body |-> SubscribeBody(d, infoLine[d]), from |-> d]
          \in Message
    BY <1>0, <2>1, Announcement
  <2> QED BY <1>0, <1>4, <2>1, <2>2
<1>6. CASE ClientRequest(d)
  <2>1. PICK line \in Lines : Publish(d, d, line) \/ UNCHANGED netVars
    BY <1>6 DEF ClientRequest, netVars
  <2>2. line \in PrivateBody
    BY TypedLine
  <2>3. [topic |-> d, body |-> line, from |-> d] \in Message
    BY <1>0, <2>2, PrivateMessage
  <2> QED BY <1>0, <1>1, <1>4, <1>6, <2>1, <2>3
<1>7. CASE ClientConnect(d) \/ ClientStartConsuming(d) \/ ClientSubscribe(d)
  BY <1>1, <1>3, <1>7 DEF ClientConnect, ClientStartConsuming, ClientSubscribe,
     brokerVars, netVars
<1>8. CASE ClientPublishFails(d) \/ ClientLinkLost(d) \/ ClientStop(d)
  BY <1>2, <1>8 DEF ClientPublishFails, ClientLinkLost, ClientStop
<1>9. CASE ClientWaitKey(d) \/ ClientReceive(d)
  BY <1>3, <1>9 DEF ClientWaitKey, ClientReceive
<1> QED BY <1>5, <1>6, <1>7, <1>8, <1>9 DEF ClientNext, ClientMain

\* QueueUnused: the first part of ChannelUnused.
QueueUnused(c) ==
  \A i \in 1..Len(inbox[Server]) : inbox[Server][i].topic # c

LEMMA HearsOtherKeepsUnused ==
  ASSUME NetTypeOK, NEW c \in Client, QueueUnused(c), HearsOther(c)
  PROVE  QueueUnused(c)'
<1>1. inbox[Server] \in Seq(Message \cup {Null})
  BY DEF NetTypeOK, Session
<1>2. CASE inbox'[Server] = inbox[Server]
  BY <1>2 DEF QueueUnused
<1>3. ASSUME NEW m \in Message, m.topic # c,
             inbox'[Server] = Append(inbox[Server], m)
      PROVE  QueueUnused(c)'
  BY <1>1, <1>3, AppendElements DEF QueueUnused
<1> QED BY <1>2, <1>3 DEF HearsOther

\* A client that has asked nothing had asked nothing before the step, which was
\* no request of its.
LEMMA NothingAskedBefore ==
  ASSUME IInv, NEW c \in Client, clientRuns[c] = 0 => cpc[c] = "off",
         NEW d \in Client, ClientNext(d), UNCHANGED serverVars
  PROVE  /\ NothingAsked(c)' => NothingAsked(c) /\ (c = d => ~ClientRequest(d))
         /\ clientRuns'[c] = 0 => cpc'[c] = "off"
<1>0. ClientTypeOK /\ serverRuns' = serverRuns
  BY IInvParts DEF ClientPart, serverVars
<1>1. CASE c # d
  <2>1. cpc'[c] = cpc[c] /\ clientRuns'[c] = clientRuns[c]
    BY <1>0, <1>1 DEF ClientTypeOK, ClientNext, ClientMain, ClientConnect,
       ClientPublish, ClientPublishFails, ClientStartConsuming, ClientSubscribe,
       ClientWaitKey, ClientReceive, ClientRequest, ClientLinkLost, ClientStop, Goto
  <2> QED BY <1>0, <1>1, <2>1 DEF NothingAsked, FirstRuns
<1>2. CASE c = d
  <2>1. CASE ClientConnect(c)
    <3>1. /\ cpc[c] = "off" /\ clientRuns'[c] = clientRuns[c] + 1
          /\ cpc'[c] = "publish"
      BY <1>0, <2>1 DEF ClientConnect, ClientTypeOK
    <3>2. ~ClientRequest(c)
      BY <3>1 DEF ClientRequest
    <3>3. clientRuns[c] \in Nat
      BY <1>0 DEF ClientTypeOK
    <3> QED BY <1>0, <1>2, <3>1, <3>2, <3>3 DEF NothingAsked, FirstRuns
  <2>2. CASE ClientStop(c) \/ ClientPublishFails(c)
    <3>1. cpc[c] # "off" /\ cpc'[c] = "off" /\ clientRuns'[c] = clientRuns[c]
      BY <1>0, <2>2 DEF ClientStop, ClientPublishFails, ClientTypeOK
    <3> QED BY <3>1 DEF NothingAsked
  <2>3. CASE ClientRequest(c)
    <3>1. cpc[c] \in {"ready", "cmdOnly"} /\ UNCHANGED <<cpc, clientRuns>>
      BY <2>3 DEF ClientRequest
    <3> QED BY <3>1 DEF NothingAsked
  <2>4. CASE ClientWaitKey(c) \/ ClientReceive(c)
    <3>1. /\ \/ cpc[c] = "waitKey"
             \/ cpc[c] = "ready" /\ cpc'[c] \in {"ready", "cmdOnly"}
          /\ cpc'[c] \in {"waitKey", "ready", "cmdOnly"}
          /\ clientRuns' = clientRuns
      BY <1>0, <2>4 DEF ClientWaitKey, ClientReceive, ClientTypeOK
    <3>2. cpc[c] = "waitKey" => ~ClientRequest(c)
      BY DEF ClientRequest
    <3> QED BY <1>0, <1>2, <3>1, <3>2 DEF NothingAsked, FirstRuns
  <2>5. CASE \/ ClientPublish(c) \/ ClientStartConsuming(c) \/ ClientSubscribe(c)
             \/ ClientLinkLost(c)
    <3>1. clientRuns' = clientRuns /\ (cpc[c] = "off" => cpc' = cpc)
      BY <1>0, <2>5, IInvParts DEF ClientPublish, ClientStartConsuming,
         ClientSubscribe, ClientLinkLost, Goto
    <3>2. cpc[c] \in {"publish", "consume", "listen"} \/ cpc' = cpc
      BY <2>5 DEF ClientPublish, ClientStartConsuming, ClientSubscribe,
         ClientLinkLost
    <3>3. CASE ClientRequest(c)
      BY <2>3, <3>3
    <3>4. CASE ~ClientRequest(c)
      BY <1>0, <1>2, <3>1, <3>2, <3>4 DEF NothingAsked, FirstRuns
    <3> QED BY <3>3, <3>4
  <2> QED BY <1>2, <2>1, <2>2, <2>3, <2>4, <2>5 DEF ClientNext, ClientMain
<1> QED BY <1>1, <1>2

LEMMA ClientKeepsKeyChannel ==
  ASSUME IInv, KeyChannelInv, NEW d \in Client, ClientNext(d), UNCHANGED serverVars
  PROVE  KeyChannelInv'
<1> USE DEF serverVars
<1>0. NetTypeOK
  BY IInvParts
<1>1. RetainedTopicInv'
  BY ClientEffect DEF KeyChannelInv
<1>2. ASSUME NEW c \in Client PROVE clientRuns'[c] = 0 => cpc'[c] = "off"
  BY NothingAskedBefore DEF KeyChannelInv
<1>3. ASSUME NEW c \in Client, NothingAsked(c)' PROVE ChannelUnused(c)'
  <2>1. NothingAsked(c) /\ (c = d => ~ClientRequest(d))
    BY <1>3, NothingAskedBefore DEF KeyChannelInv
  <2>2. ChannelUnused(c) /\ KeptOn(c, d) /\ HearsOther(c)
    BY <2>1, ClientOnChannel DEF KeyChannelInv
  <2>3. QueueUnused(c)'
    BY <1>0, <2>2, HearsOtherKeepsUnused DEF ChannelUnused, QueueUnused
  <2>4. retained'[c] = Null <=> retained[c] = Null
    BY <1>0, <2>2, KeptBody
  <2>5. retained'[c] # Null /\ spc # "down" => retained'[c].from = Server
    BY <2>2, <2>4, NamesAreDistinct DEF KeptOn, ChannelUnused
  <2> QED BY <2>2, <2>3, <2>4, <2>5 DEF ChannelUnused, QueueUnused, ServerReady
<1> QED BY <1>1, <1>2, <1>3 DEF KeyChannelInv

-----------------------------------------------------------------------------
(* The steps of the server, for a client c that has asked nothing.  The    *)
(* server may end, and must not be started again.                          *)

\* What the steps of the server start from, and what they keep, for c.
Waiting(c) ==
  /\ RetainedTopicInv
  /\ serverRuns = 0 => spc = "down"
  /\ ChannelUnused(c)

\* The main thread goes on, or the server starts for the first time, and may end
\* at once.
LEMMA GotoKeepsUnused ==
  ASSUME IInv, NEW c \in Client, Waiting(c), UNCHANGED <<netVars, m_msgPtr, th>>,
         \/ /\ UNCHANGED serverRuns /\ spc # "down"
            /\ spc' # "down" /\ (ServerReady => ServerReady')
         \/ serverRuns' = serverRuns + 1 /\ serverRuns' <= 1
  PROVE  Waiting(c)'
<1>1. serverRuns \in Nat
  BY IInvParts DEF ServerPart, ServerTypeOK
<1>2. RetainedTopicInv' /\ (serverRuns' = 0 => spc' = "down")
  BY <1>1 DEF Waiting, RetainedTopicInv, netVars
<1>3. CASE UNCHANGED serverRuns
  BY <1>1, <1>2, <1>3 DEF Waiting, ChannelUnused, netVars, ServerReady
<1>4. CASE serverRuns' = serverRuns + 1 /\ serverRuns' <= 1
  <2>1. serverRuns = 0
    BY <1>1, <1>4
  <2>2. retained'[c] = Null
    BY <2>1 DEF Waiting, ChannelUnused, netVars
  <2> QED BY <1>2, <2>2 DEF Waiting, ChannelUnused, netVars
<1> QED BY <1>1, <1>3, <1>4

LEMMA TakeKeepsUnused ==
  ASSUME IInv, NEW c \in Client, Waiting(c), ServerDiscardArrived \/ ServerConsume
  PROVE  Waiting(c)'
<1>0. /\ NetTypeOK /\ inbox[Server] \in Seq(Message \cup {Null})
      /\ Server \in Session
  BY IInvParts DEF NetTypeOK, Session
<1>1. /\ Take(Server) /\ UNCHANGED <<th, serverRuns>>
      /\ m_msgPtr' \in {m_msgPtr, Head(inbox[Server])}
      /\ spc' = spc \/ (spc = "consume" /\ spc' = "assign")
  BY DEF ServerDiscardArrived, ServerConsume, serverVars
<1>2. /\ retained' = retained
      /\ inbox[Server] # <<>> /\ inbox'[Server] = Tail(inbox[Server])
  BY <1>0, <1>1, TakeEffect DEF Take
<1>3. /\ Head(inbox[Server]) = inbox[Server][1] /\ 1 \in 1..Len(inbox[Server])
      /\ \A i \in 1..Len(Tail(inbox[Server])) :
           /\ i + 1 \in 1..Len(inbox[Server])
           /\ Tail(inbox[Server])[i] = inbox[Server][i + 1]
  BY <1>0, <1>2, TailElements
<1>4. \A i \in 1..Len(inbox[Server]) : inbox[Server][i].topic # c
  BY DEF Waiting, ChannelUnused
<1>5. \A i \in 1..Len(inbox'[Server]) : inbox'[Server][i].topic # c
  BY <1>2, <1>3, <1>4
<1>6. m_msgPtr' # Null => m_msgPtr'.topic # c
  BY <1>1, <1>3, <1>4 DEF Waiting, ChannelUnused
<1> QED BY <1>1, <1>2, <1>5, <1>6 DEF Waiting, RetainedTopicInv, ChannelUnused,
           ServerReady

LEMMA ThreadKeepsUnused ==
  ASSUME IInv, NEW c \in Client, Waiting(c),
         UNCHANGED <<netVars, spc, m_msgPtr, serverRuns>>, NEW h \in Handler,
         \/ HandlerReadTopic(h) \/ HandlerReadPayload(h) \/ HandlerSearch(h)
         \/ HandlerExec(h)
         \/ th'[h].pc = "readTopic" /\ \A g \in Handler \ {h} : th'[g] = th[g]
  PROVE  Waiting(c)'
<1>1. \A g \in Handler : th'[g].pc \in KnowsTopic => th'[g].subscriberIp # c
  BY ThreadLearns DEF Waiting, ChannelUnused, KnowsTopic
<1>2. RetainedTopicInv' /\ (serverRuns' = 0 => spc' = "down")
  BY DEF Waiting, RetainedTopicInv, netVars
<1>3. ChannelUnused(c)'
  BY <1>1 DEF Waiting, ChannelUnused, netVars, KnowsTopic, ServerReady
<1> QED BY <1>2, <1>3 DEF Waiting

\* The server subscribes: what it may get from c's channel is its own, and
\* "no local" keeps that away.
LEMMA SubscribeKeepsUnused ==
  ASSUME IInv, NEW c \in Client, Waiting(c), ServerSetups \/ ServerSubscribeClient
  PROVE  Waiting(c)'
<1>0. NetTypeOK /\ Server \in Session /\ Public \in Topic /\ c \in Topic /\ c # Public
  BY IInvParts, NamesAreDistinct DEF Session, Topic
<1>1. /\ UNCHANGED <<m_msgPtr, th, serverRuns>>
      /\ \/ spc = "setup" /\ spc' = "start"
         \/ spc = "subscribe" /\ spc' = "publishKey"
  BY DEF ServerSetups, ServerSubscribeClient
<1>2. CASE UNCHANGED netVars
  BY <1>1, <1>2, GotoKeepsUnused DEF ServerReady
<1>3. ASSUME NEW t \in Topic, t = Public \/ spc = "subscribe",
             Subscribe(Server, t, "nolocal")
      PROVE  Waiting(c)'
  <2>1. retained' = retained
    BY <1>3 DEF Subscribe
  <2>2. HearsOther(c)
    <3>1. \/ inbox'[Server] = inbox[Server]
          \/ /\ retained[t] \in Message
             /\ Receives(Server, retained[t], "nolocal")
      BY <1>0, <1>3, SubscribeEffect DEF SubMode
    <3>2. CASE inbox'[Server] # inbox[Server]
      <4>1. /\ retained[t] \in Message /\ retained[t] # Null
            /\ inbox'[Server] = Append(inbox[Server], retained[t])
            /\ retained[t].from # Server
        BY <3>1, <3>2, NullIsNothingElse DEF Receives, Accepts
      <4>2. retained[t].topic = t
        BY <4>1 DEF Waiting, RetainedTopicInv
      <4>3. t # c
        BY <1>0, <1>3, <4>1 DEF Waiting, ChannelUnused
      <4> QED BY <4>1, <4>2, <4>3 DEF HearsOther
    <3> QED BY <3>2 DEF HearsOther
  <2>3. QueueUnused(c)'
    BY <1>0, <2>2, HearsOtherKeepsUnused DEF Waiting, ChannelUnused, QueueUnused
  <2>4. ChannelUnused(c)'
    BY <1>1, <2>1, <2>3 DEF Waiting, ChannelUnused, QueueUnused, ServerReady
  <2>5. RetainedTopicInv' /\ (serverRuns' = 0 => spc' = "down")
    BY <1>1, <2>1 DEF Waiting, RetainedTopicInv
  <2> QED BY <2>4, <2>5 DEF Waiting
<1>4. CASE ServerSubscribeClient
  <2>1. /\ spc = "subscribe"
        /\ Subscribe(Server, m_msgPtr.body.ip, "nolocal")
    BY <1>4 DEF ServerSubscribeClient
  <2>2. m_msgPtr.body.ip \in Topic
    BY <2>1, AnnouncedClient DEF Serving, Topic
  <2> QED BY <1>3, <2>1, <2>2
<1>5. CASE ServerSetups
  <2>1. Subscribe(Server, Public, "nolocal") \/ UNCHANGED netVars
    BY <1>5 DEF ServerSetups
  <2> QED BY <1>0, <1>2, <1>3, <2>1
<1> QED BY <1>4, <1>5

\* What the main thread and the threads publish: the key, and replies to others.
LEMMA ServerPublishesOn ==
  ASSUME IInv, ServerPublishKey \/ \E h \in Handler : HandlerReply(h)
  PROVE  \E d \in Client, body \in PrivateBody :
           /\ Publish(Server, d, body)
           /\ \/ spc = "publishKey" /\ d = m_msgPtr.body.ip /\ spc' = "register"
                 /\ th' = th
              \/ \E h \in Handler :
                   /\ th[h].pc = "reply" /\ d = th[h].subscriberIp
                   /\ spc' = spc /\ th' = [th EXCEPT ![h] = IdleThread]
<1>0. /\ ThreadInv /\ th \in [Handler -> Thread] /\ m_publicKey \in PrivateBody
  BY IInvParts DEF ServerPart, ServerTypeOK, PrivateBody, KeyBody, EmptyBody
<1>1. CASE ServerPublishKey
  <2>1. /\ spc = "publishKey" /\ spc' = "register" /\ th' = th
        /\ Publish(Server, m_msgPtr.body.ip, m_publicKey)
    BY <1>1 DEF ServerPublishKey
  <2>2. m_msgPtr.body.ip \in Client
    BY <2>1, AnnouncedClient DEF Serving
  <2> QED BY <1>0, <2>1, <2>2
<1>2. ASSUME NEW h \in Handler, HandlerReply(h)
      PROVE  \E d \in Client, body \in PrivateBody :
               /\ Publish(Server, d, body)
               /\ th[h].pc = "reply" /\ d = th[h].subscriberIp
               /\ spc' = spc /\ th' = [th EXCEPT ![h] = IdleThread]
  <2> DEFINE body == ReplyBody(th[h].backUpPath.path, th[h].ok)
  <2>1. /\ th[h].pc = "reply" /\ th' = [th EXCEPT ![h] = IdleThread]
        /\ Publish(Server, th[h].subscriberIp, body) /\ spc' = spc
    BY <1>2 DEF HandlerReply
  <2>2. /\ th[h].subscriberIp \in Client /\ th[h] \in Thread
        /\ th[h].backUpPath \in [type : {"backup"}, path : Path]
    BY <1>0, <2>1 DEF ThreadInv
  <2>3. body \in PrivateBody
    BY <2>2 DEF ReplyBody, PrivateBody, Thread
  <2> HIDE DEF body
  <2> QED BY <2>1, <2>2, <2>3
<1> QED BY <1>1, <1>2

LEMMA PublishKeepsUnused ==
  ASSUME IInv, NEW c \in Client, Waiting(c),
         ServerPublishKey \/ \E h \in Handler : HandlerReply(h)
  PROVE  Waiting(c)'
<1>0. NetTypeOK /\ th \in [Handler -> Thread] /\ c \in Topic
  BY IInvParts DEF ServerPart, ServerTypeOK, Topic
<1>1. PICK d \in Client, body \in PrivateBody :
        /\ Publish(Server, d, body)
        /\ \/ spc = "publishKey" /\ d = m_msgPtr.body.ip /\ spc' = "register"
              /\ th' = th
           \/ \E h \in Handler :
                /\ th[h].pc = "reply" /\ d = th[h].subscriberIp
                /\ spc' = spc /\ th' = [th EXCEPT ![h] = IdleThread]
  BY ServerPublishesOn
<1>2. UNCHANGED <<m_msgPtr, serverRuns>>
  BY DEF ServerPublishKey, HandlerReply
<1>3. inbox'[Server] = inbox[Server]
  BY <1>1, ServerPublishes
<1>4. RetainedTopicInv'
  BY <1>0, <1>1, PublishRetains DEF Waiting, Topic
<1>5. \A h \in Handler : th'[h] = th[h] \/ th'[h].pc = "idle"
  BY <1>0, <1>1 DEF IdleThread
<1>6. \A h \in Handler :
        th'[h].pc \in {"readPayload", "search", "exec", "reply"} =>
          th'[h].subscriberIp # c
  BY <1>5 DEF Waiting, ChannelUnused
<1>7. CASE d = c
  <2>1. spc = "publishKey" /\ spc' = "register"
    BY <1>1, <1>7 DEF Waiting, ChannelUnused
  <2>2. serverRuns > 0
    <3>1. serverRuns \in Nat
      BY IInvParts DEF ServerPart, ServerTypeOK
    <3> QED BY <2>1, <3>1 DEF Waiting
  <2>3. retained'[c] # Null => retained'[c].from = Server
    BY <1>0, <1>1, <1>7 DEF Publish, NetTypeOK
  <2> QED BY <1>2, <1>3, <1>4, <1>6, <2>1, <2>2, <2>3
      DEF Waiting, ChannelUnused, ServerReady
<1>8. CASE d # c
  <2>1. retained'[c] = retained[c]
    BY <1>0, <1>1, <1>8 DEF Publish, NetTypeOK
  <2>2. spc' = spc \/ (spc = "publishKey" /\ spc' = "register")
    BY <1>1
  <2> QED BY <1>2, <1>3, <1>4, <1>6, <2>1, <2>2
      DEF Waiting, ChannelUnused, ServerReady
<1> QED BY <1>7, <1>8

\* The session of the server ends, and its process too unless it has retained
\* nothing yet.
LEMMA EndKeepsUnused ==
  ASSUME IInv, NEW c \in Client, Waiting(c), EndSession(Server, <<>>),
         UNCHANGED serverRuns,
         \/ ServerExit
         \/ spc = "discard" /\ UNCHANGED <<spc, m_msgPtr, th>>
  PROVE  Waiting(c)'
<1>0. /\ NetTypeOK /\ Server \in Session /\ <<>> \in Seq(Message \cup {Null})
      /\ serverRuns \in Nat
  BY IInvParts DEF Session, ServerPart, ServerTypeOK
<1>1. inbox'[Server] = <<>> /\ RetainedTopicInv' /\ KeptOn(c, Server)
  BY <1>0, EndSessionEffect, EndSessionRetains, EndSessionKeepsOn DEF Waiting
<1>2. retained'[c] = Null <=> retained[c] = Null
  BY <1>0, <1>1, KeptBody
<1>3. retained'[c] # Null => serverRuns' > 0
  BY <1>2 DEF Waiting, ChannelUnused
<1>4. CASE ServerExit
  <2>1. spc' = "down" /\ m_msgPtr' = Null /\ \A h \in Handler : th'[h].pc = "idle"
    BY <1>4 DEF ServerExit, IdleThread
  <2> QED BY <1>1, <1>3, <2>1 DEF Waiting, ChannelUnused
<1>5. CASE spc = "discard" /\ UNCHANGED <<spc, m_msgPtr, th>>
  <2>1. retained'[c] = Null
    BY <1>2, <1>5 DEF Waiting, ChannelUnused, ServerReady
  <2>2. serverRuns' = 0 => spc' = "down"
    BY <1>5 DEF Waiting
  <2> QED BY <1>1, <1>5, <2>1, <2>2 DEF Waiting, ChannelUnused
<1> QED BY <1>4, <1>5

LEMMA ServerKeepsUnused ==
  ASSUME IInv, NEW c \in Client, Waiting(c), ServerNext, serverRuns' <= 1
  PROVE  Waiting(c)'
<1>1. CASE ServerConnect \/ ServerCannotReadKey
  BY <1>1, GotoKeepsUnused DEF ServerConnect, ServerCannotReadKey, brokerVars, netVars
<1>2. CASE \/ ServerDisableCallbacks \/ ServerInstallCallbacks \/ ServerNewSubscriber
           \/ ServerRegister \/ ServerNewSubscriberFails
  BY <1>2, GotoKeepsUnused DEF ServerDisableCallbacks, ServerInstallCallbacks,
     ServerNewSubscriber, ServerRegister, ServerNewSubscriberFails, brokerVars,
     netVars, ServerReady
<1>3. ASSUME NEW h \in Handler, ServerSpawn(h) PROVE Waiting(c)'
  <2>1. /\ spc = "assign" /\ spc' = "consume"
        /\ UNCHANGED <<netVars, m_msgPtr, serverRuns>>
    BY <1>3 DEF ServerSpawn, brokerVars, netVars
  <2>2. th'[h].pc = "readTopic" /\ \A g \in Handler \ {h} : th'[g] = th[g]
    <3>1. th \in [Handler -> Thread]
      BY IInvParts DEF ServerPart, ServerTypeOK
    <3> QED BY <1>3, <3>1 DEF ServerSpawn, IdleThread
  <2> QED BY <2>1, <2>2 DEF Waiting, ChannelUnused, RetainedTopicInv, netVars,
             ServerReady
<1>4. ASSUME NEW h \in Handler, HandlerStep(h) PROVE Waiting(c)'
  <2>1. CASE HandlerSearchMisses(h)
    BY <2>1, EndKeepsUnused DEF HandlerSearchMisses, ServerExit
  <2>2. CASE HandlerReply(h)
    BY <2>2, PublishKeepsUnused
  <2>3. CASE \/ HandlerReadTopic(h) \/ HandlerReadPayload(h) \/ HandlerSearch(h)
             \/ HandlerExec(h)
    <3>1. UNCHANGED <<netVars, spc, m_msgPtr, serverRuns>>
      BY <2>3 DEF HandlerReadTopic, HandlerReadPayload, HandlerSearch,
         HandlerExec, brokerVars, netVars
    <3> QED BY <2>3, <3>1, ThreadKeepsUnused
  <2> QED BY <1>4, <2>1, <2>2, <2>3 DEF HandlerStep
<1>5. CASE ServerMain
  BY <1>2, <1>3, <1>5, SubscribeKeepsUnused, TakeKeepsUnused, PublishKeepsUnused
     DEF ServerMain
<1>6. CASE ServerLinkLost
  BY <1>6, EndKeepsUnused DEF ServerLinkLost, ServerExit
<1>7. ASSUME NEW h \in Handler,
             HandlerReadRaces(h) \/ HandlerSearchRaces(h) \/ HandlerThrows(h)
      PROVE  Waiting(c)'
  BY <1>7, EndKeepsUnused DEF HandlerReadRaces, HandlerSearchRaces, HandlerThrows,
     ServerExit
<1> QED BY <1>1, <1>2, <1>4, <1>5, <1>6, <1>7, TakeKeepsUnused
        DEF ServerNext, ServerFailure

\* What the server does to the network, as a whole.
LEMMA ServerOnNetwork ==
  ASSUME ServerNext
  PROVE  \/ UNCHANGED retained
         \/ EndSession(Server, <<>>)
         \/ ServerPublishKey \/ \E h \in Handler : HandlerReply(h)
<1>1. ASSUME NEW h \in Handler, HandlerStep(h), ~HandlerReply(h)
      PROVE  UNCHANGED retained \/ EndSession(Server, <<>>)
  BY <1>1 DEF HandlerStep, HandlerReadTopic, HandlerReadPayload, HandlerSearch,
     HandlerSearchMisses, HandlerExec, ServerExit, brokerVars
<1>2. CASE ServerMain /\ ~ServerPublishKey
  BY <1>2 DEF ServerMain, ServerSetups, ServerDisableCallbacks,
     ServerInstallCallbacks, ServerConsume, ServerNewSubscriber, ServerSpawn,
     ServerSubscribeClient, ServerRegister, Take, Subscribe, brokerVars, netVars
<1>3. CASE ServerFailure
  BY <1>3 DEF ServerFailure, ServerDiscardArrived, ServerNewSubscriberFails,
     ServerLinkLost, HandlerReadRaces, HandlerSearchRaces, HandlerThrows,
     ServerExit, Take, netVars
<1>4. CASE ServerConnect \/ ServerCannotReadKey
  BY <1>4 DEF ServerConnect, ServerCannotReadKey, brokerVars, netVars
<1> QED BY <1>1, <1>2, <1>3, <1>4 DEF ServerNext

LEMMA ServerKeepsRetained ==
  ASSUME IInv, RetainedTopicInv, ServerNext
  PROVE  RetainedTopicInv'
<1>0. NetTypeOK
  BY IInvParts
<1>1. CASE UNCHANGED retained
  BY <1>1 DEF RetainedTopicInv
<1>2. CASE EndSession(Server, <<>>)
  BY <1>0, <1>2, EndSessionRetains
<1>3. CASE ServerPublishKey \/ \E h \in Handler : HandlerReply(h)
  <2>1. PICK d \in Client, body \in PrivateBody : Publish(Server, d, body)
    BY <1>3, ServerPublishesOn
  <2> QED BY <1>0, <2>1, PublishRetains DEF Topic
<1> QED BY <1>1, <1>2, <1>3, ServerOnNetwork

\* The number of starts never shrinks, and a server that was not started yet
\* stays down.
LEMMA ServerStarts ==
  ASSUME IInv, ServerNext, serverRuns = 0 => spc = "down"
  PROVE  /\ serverRuns \in Nat /\ serverRuns' \in {serverRuns, serverRuns + 1}
         /\ serverRuns' = 0 => spc' = "down"
<1>1. serverRuns \in Nat
  BY IInvParts DEF ServerPart, ServerTypeOK
<1>2. ASSUME NEW h \in Handler, HandlerStep(h)
      PROVE  serverRuns' = serverRuns /\ (spc = "down" => spc' = "down")
  BY <1>2 DEF HandlerStep, HandlerReadTopic, HandlerReadPayload, HandlerSearch,
     HandlerSearchMisses, HandlerExec, HandlerReply, ServerExit
<1>3. ServerMain => serverRuns' = serverRuns /\ spc # "down"
  BY DEF ServerMain, ServerSetups, ServerDisableCallbacks,
     ServerInstallCallbacks, ServerConsume, ServerNewSubscriber, ServerSpawn,
     ServerSubscribeClient, ServerPublishKey, ServerRegister
<1>4. ServerFailure => serverRuns' = serverRuns /\ (spc = "down" => spc' = "down")
  BY DEF ServerFailure, ServerDiscardArrived, ServerNewSubscriberFails,
     ServerLinkLost, HandlerReadRaces, HandlerSearchRaces, HandlerThrows,
     ServerExit, serverVars
<1>5. ServerConnect \/ ServerCannotReadKey => serverRuns' = serverRuns + 1
  BY DEF ServerConnect, ServerCannotReadKey
<1> QED BY <1>1, <1>2, <1>3, <1>4, <1>5 DEF ServerNext

LEMMA ServerKeepsKeyChannel ==
  ASSUME IInv, KeyChannelInv, ServerNext, UNCHANGED clientVars
  PROVE  KeyChannelInv'
<1> USE DEF clientVars
<1>1. RetainedTopicInv'
  BY ServerKeepsRetained DEF KeyChannelInv
<1>2. /\ serverRuns \in Nat /\ serverRuns' \in {serverRuns, serverRuns + 1}
      /\ serverRuns' = 0 => spc' = "down"
  BY ServerStarts DEF KeyChannelInv
<1>3. \A c \in Client : clientRuns'[c] = 0 => cpc'[c] = "off"
  BY DEF KeyChannelInv
<1>4. ASSUME NEW c \in Client, NothingAsked(c)' PROVE ChannelUnused(c)'
  <2>1. NothingAsked(c) /\ serverRuns' <= 1
    BY <1>2, <1>4 DEF NothingAsked, FirstRuns
  <2>2. Waiting(c)
    BY <2>1 DEF KeyChannelInv, Waiting
  <2>3. Waiting(c)'
    BY <2>1, <2>2, ServerKeepsUnused
  <2> QED BY <2>3 DEF Waiting
<1> QED BY <1>1, <1>2, <1>3, <1>4 DEF KeyChannelInv

\* Nothing but the key is retained on the channel of a client that is in its
\* first run and has asked nothing, if the server is in its first run as well,
\* and nothing on it reaches the server.
THEOREM KeyChannelHolds == Spec => []KeyChannelInv
<1>1. Init => KeyChannelInv
  <2> SUFFICES ASSUME Init PROVE KeyChannelInv
    OBVIOUS
  <2>1. RetainedTopicInv /\ \A c \in Client : retained[c] = Null
    BY DEF Init, BrokerInit, RetainedTopicInv, Topic
  <2>2. inbox[Server] = <<>>
    BY DEF Init, BrokerInit, Session
  <2>3. ASSUME NEW c \in Client PROVE ChannelUnused(c)
    <3>1. \A i \in 1..Len(inbox[Server]) : inbox[Server][i].topic # c
      BY <2>2
    <3>2. m_msgPtr = Null /\ \A h \in Handler : th[h].pc = "idle"
      BY DEF Init, ServerInit, IdleThread
    <3> QED BY <2>1, <3>1, <3>2 DEF ChannelUnused
  <2> QED BY <2>1, <2>3 DEF Init, ServerInit, ClientInit, KeyChannelInv
<1>2. IInv /\ KeyChannelInv /\ [Next]_vars => KeyChannelInv'
  <2> SUFFICES ASSUME IInv, KeyChannelInv, [Next]_vars PROVE KeyChannelInv'
    OBVIOUS
  <2>1. CASE ServerNext /\ UNCHANGED clientVars
    BY <2>1, ServerKeepsKeyChannel
  <2>2. ASSUME NEW c \in Client, ClientNext(c), UNCHANGED serverVars
        PROVE  KeyChannelInv'
    BY <2>2, ClientKeepsKeyChannel
  <2>3. CASE UNCHANGED vars
    BY <2>3 DEF vars, brokerVars, serverVars, clientVars, KeyChannelInv,
       RetainedTopicInv, NothingAsked, FirstRuns, ChannelUnused, ServerReady
  <2> QED BY <2>1, <2>2, <2>3 DEF Next
<1> QED BY <1>1, <1>2, Invariance, PTL DEF Spec

\* In the first runs of the server and of a client, the key that the server has
\* retained on the client's channel stays there until the client has subscribed,
\* whatever the threads, the failures and the other clients do.
THEOREM KeyStays == Spec => KeyStaysForWaiter
<1>1. IInv /\ KeyChannelInv /\ [Next]_vars =>
        [\A c \in Client :
           /\ FirstRuns(c)
           /\ cpc[c] \in {"consume", "listen"}
           /\ ~AnnouncementPending(c)
           /\ KeyIsRetained(c)
           => KeyIsRetained(c)']_vars
  <2> SUFFICES ASSUME IInv, KeyChannelInv, Next, NEW c \in Client,
                      FirstRuns(c), cpc[c] \in {"consume", "listen"},
                      ~AnnouncementPending(c), KeyIsRetained(c)
               PROVE  KeyIsRetained(c)'
    OBVIOUS
  <2>0. NetTypeOK /\ ChannelUnused(c)
    BY IInvParts DEF KeyChannelInv, NothingAsked
  <2>1. ASSUME NEW d \in Client, ClientNext(d) PROVE KeyIsRetained(c)'
    <3>1. c = d => ~ClientRequest(d)
      BY DEF ClientRequest
    <3> QED BY <2>0, <2>1, <3>1, ClientOnChannel, KeptBody
  <2>2. CASE ServerNext
    <3>1. CASE UNCHANGED retained
      BY <3>1 DEF KeyIsRetained
    <3>2. CASE EndSession(Server, <<>>)
      BY <2>0, <3>2, EndSessionKeepsOn, KeptBody
    <3>3. CASE ServerPublishKey \/ \E h \in Handler : HandlerReply(h)
      <4>1. PICK d \in Client, body \in PrivateBody :
              /\ Publish(Server, d, body)
              /\ \/ spc = "publishKey" /\ d = m_msgPtr.body.ip
                 \/ \E h \in Handler :
                      th[h].pc = "reply" /\ d = th[h].subscriberIp
        BY <3>3, ServerPublishesOn
      <4>2. d # c
        <5>1. CASE spc = "publishKey" /\ d = m_msgPtr.body.ip
          BY <5>1, AnnouncedClient DEF AnnouncementPending, Serving
        <5>2. CASE \E h \in Handler :
                     th[h].pc = "reply" /\ d = th[h].subscriberIp
          BY <2>0, <5>2 DEF ChannelUnused
        <5> QED BY <4>1, <5>1, <5>2
      <4>3. retained'[c] = retained[c]
        BY <2>0, <4>1, <4>2 DEF Publish, NetTypeOK, Topic
      <4> QED BY <4>3 DEF KeyIsRetained
    <3> QED BY <2>2, <3>1, <3>2, <3>3, ServerOnNetwork
  <2> QED BY <2>1, <2>2 DEF Next
<1> QED BY <1>1, Invariance, KeyChannelHolds, PTL DEF Spec, KeyStaysForWaiter

-----------------------------------------------------------------------------
(* Whoever waits for the key has it coming.                                *)

\* What ServiceInv says of one client, and of a run that is not disturbed.
Served(c) ==
  /\ cpc[c] \in {"consume", "listen"} => AnnouncementPending(c) \/ KeyIsRetained(c)
  /\ cpc[c] = "waitKey" => AnnouncementPending(c) \/ KeyIsQueued(c)

Service ==
  /\ AllConnected /\ OnlyAnnouncements
  /\ m_publicKey = KeyBody => \A c \in Client : Served(c)

\* The queue of session s keeps what it has.
Grows(s) ==
  \/ inbox'[s] = inbox[s]
  \/ \E m \in Message : inbox'[s] = Append(inbox[s], m)

LEMMA GrowsKeeps ==
  ASSUME NetTypeOK, NEW s \in Session, Grows(s)
  PROVE  \A i \in 1..Len(inbox[s]) :
           i \in 1..Len(inbox'[s]) /\ inbox'[s][i] = inbox[s][i]
<1>1. inbox[s] \in Seq(Message \cup {Null})
  BY DEF NetTypeOK
<1>2. CASE inbox'[s] = inbox[s]
  BY <1>2
<1>3. ASSUME NEW m \in Message, inbox'[s] = Append(inbox[s], m)
      PROVE  \A i \in 1..Len(inbox[s]) :
               i \in 1..Len(inbox'[s]) /\ inbox'[s][i] = inbox[s][i]
  BY <1>1, <1>3, AppendElements
<1> QED BY <1>2, <1>3 DEF Grows

\* HasToAnswer: from taking an announcement to publishing the key.
HasToAnswer == {"assign", "subscribe", "publishKey"}

\* An announcement is pending as long as it is queued, or being handled.
LEMMA PendingStays ==
  ASSUME NetTypeOK, NEW c \in Client, AnnouncementPending(c), Grows(Server),
         spc \in HasToAnswer => spc' \in HasToAnswer /\ m_msgPtr' = m_msgPtr
  PROVE  AnnouncementPending(c)'
<1>1. ASSUME NEW i \in 1..Len(inbox[Server]),
             inbox[Server][i].topic = Public /\ inbox[Server][i].body.ip = c
      PROVE  AnnouncementPending(c)'
  BY <1>1, GrowsKeeps DEF Session, AnnouncementPending
<1>2. CASE spc \in HasToAnswer /\ m_msgPtr.topic = Public /\ m_msgPtr.body.ip = c
  BY <1>2 DEF HasToAnswer, AnnouncementPending
<1> QED BY <1>1, <1>2 DEF HasToAnswer, AnnouncementPending

LEMMA QueuedKeyStays ==
  ASSUME NetTypeOK, NEW c \in Client, KeyIsQueued(c), Grows(c)
  PROVE  KeyIsQueued(c)'
  BY GrowsKeeps DEF Session, KeyIsQueued

\* Nobody is served while no client is on.
LEMMA AllOffAreServed ==
  ASSUME \A c \in Client : cpc[c] = "off"
  PROVE  \A c \in Client : Served(c)
  BY DEF Served

\* The disturbances are counted, and never uncounted.
LEMMA UndisturbedBefore ==
  ASSUME IInv, Next, Undisturbed'
  PROVE  /\ Undisturbed /\ faults = 0 /\ ~Fault
         /\ \A c \in Client : ~ClientRequest(c)
<1>0. /\ faults \in Nat /\ serverRuns \in Nat
      /\ reqs \in [Client -> Nat] /\ faults' = 0 /\ serverRuns' <= 1
      /\ \A c \in Client : reqs'[c] = 0
  BY IInvParts DEF ServerPart, ServerTypeOK, ClientPart, ClientTypeOK, Undisturbed
<1>1. faults = 0 /\ ~Fault
  BY <1>0, FaultsGrow DEF Fault
<1>2. \A c \in Client : ~ClientRequest(c)
  <2> SUFFICES ASSUME NEW c \in Client, ClientRequest(c) PROVE FALSE
    OBVIOUS
  <2>1. reqs' = [reqs EXCEPT ![c] = @ + 1]
    BY DEF ClientRequest
  <2>2. reqs'[c] = reqs[c] + 1 /\ reqs[c] \in Nat
    BY <1>0, <2>1
  <2> QED BY <1>0, <2>2
<1>3. reqs' = reqs
  BY <1>2 DEF Next, clientVars, ClientNext, ClientMain, ClientConnect, ClientPublish,
     ClientPublishFails, ClientStartConsuming, ClientSubscribe, ClientWaitKey,
     ClientReceive, ClientLinkLost, ClientStop, Goto
<1>4. serverRuns <= serverRuns'
  <2>1. CASE ServerNext
    <3>1. ASSUME NEW h \in Handler, HandlerStep(h) PROVE serverRuns' = serverRuns
      BY <3>1 DEF HandlerStep, HandlerReadTopic, HandlerReadPayload, HandlerSearch,
         HandlerSearchMisses, HandlerExec, HandlerReply, ServerExit
    <3>2. ServerMain => serverRuns' = serverRuns
      BY DEF ServerMain, ServerSetups, ServerDisableCallbacks,
         ServerInstallCallbacks, ServerConsume, ServerNewSubscriber, ServerSpawn,
         ServerSubscribeClient, ServerPublishKey, ServerRegister
    <3>3. ServerFailure => serverRuns' = serverRuns
      BY DEF ServerFailure, ServerDiscardArrived, ServerNewSubscriberFails,
         ServerLinkLost, HandlerReadRaces, HandlerSearchRaces, HandlerThrows,
         ServerExit, serverVars
    <3>4. ServerConnect \/ ServerCannotReadKey => serverRuns' = serverRuns + 1
      BY DEF ServerConnect, ServerCannotReadKey
    <3> QED BY <1>0, <2>1, <3>1, <3>2, <3>3, <3>4 DEF ServerNext
  <2>2. CASE UNCHANGED serverVars
    BY <1>0, <2>2 DEF serverVars
  <2> QED BY <2>1, <2>2 DEF Next
<1>5. serverRuns <= 1
  <2>1. serverRuns' \in Nat
    BY ServerNextKeeps, ClientNextKeeps, IInvParts DEF Next, ServerPart, ServerTypeOK
  <2> QED BY <1>0, <1>4, <2>1
<1> QED BY <1>0, <1>1, <1>2, <1>3, <1>5 DEF Undisturbed

\* What a step of client d, when nothing is disturbed, leaves to the others.
LEMMA ClientLeaves ==
  ASSUME IInv, IInv', KeyChannelInv, OnlyAnnouncements, NEW d \in Client,
         ClientNext(d), ~ClientRequest(d), UNCHANGED serverVars
  PROVE  /\ OnlyAnnouncements' /\ Grows(Server) /\ sub'[Server] = sub[Server]
         /\ \A c \in Client : retained'[c] = retained[c]
         /\ \A c \in Client \ {d} :
              /\ cpc'[c] = cpc[c] /\ clink'[c] = clink[c]
              /\ sub'[c] = sub[c] /\ Grows(c)
<1>0. /\ NetTypeOK /\ ClientTypeOK
      /\ inbox'[Server] \in Seq(Message \cup {Null})
      /\ \A i \in 1..Len(inbox'[Server]) : inbox'[Server][i] # Null
      /\ Server \in Session \ {d} /\ \A c \in Client \ {d} : c \in Session \ {d}
      /\ d # Server
  BY IInvParts, NamesAreDistinct
     DEF ClientPart, NetTypeOK, ServerPart, ServerSessionInv, Session
<1>1. OthersHear(d)
  BY ClientEffect DEF KeyChannelInv
<1>2. Grows(Server) /\ sub'[Server] = sub[Server]
  BY <1>0, <1>1 DEF OthersHear, Grows
<1>3. \A c \in Client \ {d} : sub'[c] = sub[c] /\ Grows(c)
  BY <1>0, <1>1 DEF OthersHear, Grows
<1>4. \A c \in Client \ {d} : cpc'[c] = cpc[c] /\ clink'[c] = clink[c]
  BY <1>0 DEF ClientTypeOK, ClientNext, ClientMain, ClientConnect, ClientPublish,
     ClientPublishFails, ClientStartConsuming, ClientSubscribe, ClientWaitKey,
     ClientReceive, ClientRequest, ClientLinkLost, ClientStop, Goto
<1>5. ASSUME NEW c \in Client PROVE retained'[c] = retained[c] /\ HearsOther(c)
  <2>1. KeptOn(c, d) /\ HearsOther(c)
    BY ClientOnChannel
  <2>2. retained[c] # Null => retained[c].from # d
    BY <1>0 DEF OnlyAnnouncements
  <2> QED BY <2>1, <2>2 DEF KeptOn
<1>6. \A i \in 1..Len(inbox'[Server]) : inbox'[Server][i].topic = Public
  <2>1. ASSUME NEW c \in Client PROVE QueueUnused(c)'
    <3>1. QueueUnused(c)
      BY NamesAreDistinct DEF OnlyAnnouncements, QueueUnused
    <3> QED BY <1>0, <1>5, <3>1, HearsOtherKeepsUnused
  <2>2. ASSUME NEW i \in 1..Len(inbox'[Server])
        PROVE  inbox'[Server][i].topic = Public
    <3>1. inbox'[Server][i] \in Message
      BY <1>0
    <3>2. inbox'[Server][i].topic # Public => inbox'[Server][i].topic \in Client
      BY <3>1, MessageFacts
    <3> QED BY <2>1, <3>2 DEF QueueUnused
  <2> QED BY <2>2
<1>7. OnlyAnnouncements'
  BY <1>5, <1>6 DEF OnlyAnnouncements, serverVars
<1> QED BY <1>2, <1>3, <1>4, <1>5, <1>7

\* Taking a message that is not the key leaves the key in the queue.
LEMMA TakeLeavesKey ==
  ASSUME NetTypeOK, NEW c \in Client, KeyIsQueued(c), Take(c),
         ~IsKeyMsg(c, Head(inbox[c]))
  PROVE  KeyIsQueued(c)'
<1>1. inbox[c] # <<>> /\ inbox'[c] = Tail(inbox[c])
      /\ inbox[c] \in Seq(Message \cup {Null})
  BY TakeEffect DEF Session, NetTypeOK
<1>2. PICK i \in 1..Len(inbox[c]) : /\ inbox[c][i] # Null
                                    /\ inbox[c][i].topic = c
                                    /\ inbox[c][i].body = KeyBody
  BY DEF KeyIsQueued
<1>3. i # 1
  <2>1. IsKeyMsg(c, inbox[c][i])
    BY <1>2 DEF IsKeyMsg, HasMark, KeyBody
  <2> QED BY <1>1, <2>1, TailElements
<1>4. i - 1 \in 1..Len(Tail(inbox[c])) /\ Tail(inbox[c])[i - 1] = inbox[c][i]
  BY <1>1, <1>3
<1> QED BY <1>1, <1>2, <1>4 DEF KeyIsQueued

\* What a client does itself keeps it connected, and served.
LEMMA ClientGoesOn ==
  ASSUME IInv, IInv', KeyChannelInv, AllConnected, OnlyAnnouncements,
         NEW d \in Client, ClientNext(d), ~ClientRequest(d), ~Fault,
         cpc[d] = "off" => ServerReady, UNCHANGED serverVars
  PROVE  /\ cpc'[d] # "off" => ServerReady /\ clink'[d]
         /\ cpc'[d] = "waitKey" => sub'[d][d] = "local"
         /\ Served(d) => Served(d)'
<1>0. /\ NetTypeOK /\ ClientTypeOK /\ ClientOK(d)
      /\ d \in Session /\ d \in Topic /\ Server \in Session /\ Public \in Topic
      /\ d # Server
  BY IInvParts, NamesAreDistinct DEF ClientPart, Session, Topic
<1>1. /\ Grows(Server) /\ retained'[d] = retained[d]
      /\ KeyIsRetained(d) => KeyIsRetained(d)'
  BY ClientLeaves DEF KeyIsRetained
<1>2. AnnouncementPending(d) => AnnouncementPending(d)'
  BY <1>0, <1>1, PendingStays DEF serverVars
<1>3. cpc[d] # "off" => ServerReady /\ clink[d]
  BY DEF AllConnected
<1>4. CASE ClientConnect(d)
  <2>1. cpc'[d] = "publish" /\ clink'[d] /\ ServerReady
    BY <1>0, <1>4 DEF ClientConnect, ClientTypeOK
  <2> QED BY <2>1 DEF Served
<1>5. CASE ClientPublish(d)
  <2> DEFINE m == [topic |-> Public, body |-> SubscribeBody(d, infoLine[d]), from |-> d]
  <2>1. /\ cpc[d] = "publish" /\ cpc'[d] = "consume" /\ clink'[d] = clink[d]
        /\ infoLine[d] \in InfoLine
        /\ Publish(d, Public, SubscribeBody(d, infoLine[d]))
    BY <1>0, <1>5 DEF ClientPublish, Goto, ClientOK, ClientTypeOK
  <2>2. m \in Message /\ m.topic = Public /\ m.body.ip = d /\ m.from = d
    BY <1>0, <2>1, Announcement DEF SubscribeBody
  <2>3. sub[Server][Public] = "nolocal"
    BY <1>3, <2>1 DEF AllConnected, ServerReady
  <2>4. inbox'[Server] = Append(inbox[Server], m)
    BY <1>0, <2>1, <2>2, <2>3 DEF Publish, Accepts
  <2> HIDE DEF m
  <2>5. inbox[Server] \in Seq(Message \cup {Null})
    BY <1>0 DEF NetTypeOK
  <2>6. /\ Len(inbox[Server]) + 1 \in 1..Len(inbox'[Server])
        /\ inbox'[Server][Len(inbox[Server]) + 1] = m
    BY <2>2, <2>4, <2>5, AppendElements
  <2>7. AnnouncementPending(d)'
    BY <2>2, <2>6 DEF AnnouncementPending
  <2> QED BY <1>3, <2>1, <2>7 DEF Served
<1>6. CASE ClientStartConsuming(d)
  <2>1. cpc[d] = "consume" /\ cpc'[d] = "listen" /\ clink'[d] = clink[d]
    BY <1>0, <1>6 DEF ClientStartConsuming, Goto, ClientTypeOK
  <2> QED BY <1>1, <1>2, <1>3, <2>1 DEF Served
<1>7. CASE ClientSubscribe(d)
  <2>1. /\ cpc[d] = "listen" /\ cpc'[d] = "waitKey" /\ clink'[d] = clink[d]
        /\ Subscribe(d, d, "local")
    BY <1>0, <1>3, <1>7 DEF ClientSubscribe, Goto, ClientTypeOK
  <2>2. sub'[d][d] = "local"
    BY <1>0, <2>1 DEF Subscribe, NetTypeOK
  <2>3. ASSUME KeyIsRetained(d) PROVE KeyIsQueued(d)'
    <3>1. /\ inbox'[d] = Append(inbox[d], retained[d])
          /\ retained[d] \in Message /\ retained[d] # Null
          /\ retained[d].topic = d
          /\ inbox[d] \in Seq(Message \cup {Null})
      BY <1>0, <2>1, <2>3 DEF Subscribe, Accepts, NetTypeOK, KeyIsRetained,
         KeyChannelInv, RetainedTopicInv
    <3>2. /\ Len(inbox[d]) + 1 \in 1..Len(inbox'[d])
          /\ inbox'[d][Len(inbox[d]) + 1] = retained[d]
      BY <3>1, AppendElements
    <3> QED BY <2>3, <3>1, <3>2 DEF KeyIsQueued, KeyIsRetained
  <2> QED BY <1>2, <1>3, <2>1, <2>2, <2>3 DEF Served
<1>8. CASE ClientWaitKey(d)
  <2>0. IsKeyMsg(d, Head(inbox[d])) \/ ~IsKeyMsg(d, Head(inbox[d]))
    OBVIOUS
  <2>1. /\ cpc[d] = "waitKey" /\ Take(d) /\ clink' = clink
        /\ cpc' = [cpc EXCEPT ![d] =
                     IF Head(inbox[d]) = Null \/ IsKeyMsg(d, Head(inbox[d]))
                     THEN "ready" ELSE @]
    BY <1>8, <2>0 DEF ClientWaitKey
  <2>2. \/ cpc'[d] = "ready"
        \/ cpc'[d] = "waitKey" /\ ~IsKeyMsg(d, Head(inbox[d]))
    BY <1>0, <2>1 DEF ClientTypeOK
  <2>3. sub' = sub
    BY <2>1 DEF Take
  <2>4. sub'[d][d] = "local"
    BY <2>1, <2>3 DEF AllConnected
  <2>5. cpc'[d] = "waitKey" /\ KeyIsQueued(d) => KeyIsQueued(d)'
    BY <1>0, <2>1, <2>2, TakeLeavesKey
  <2> QED BY <1>2, <1>3, <2>1, <2>2, <2>4, <2>5 DEF Served
<1>9. CASE ClientReceive(d)
  <2>1. cpc[d] = "ready" /\ cpc'[d] \in {"ready", "cmdOnly"} /\ clink' = clink
    BY <1>0, <1>9 DEF ClientReceive, ClientTypeOK
  <2> QED BY <1>3, <2>1 DEF Served
<1>10. CASE ClientStop(d)
  <2>1. cpc'[d] = "off"
    BY <1>0, <1>10 DEF ClientStop, ClientTypeOK
  <2> QED BY <2>1 DEF Served
<1>11. ~ClientPublishFails(d) /\ ~ClientLinkLost(d)
  BY <1>3 DEF ClientPublishFails, ClientLinkLost
<1> QED BY <1>4, <1>5, <1>6, <1>7, <1>8, <1>9, <1>10, <1>11 DEF ClientNext, ClientMain

LEMMA ClientKeepsService ==
  ASSUME IInv, IInv', KeyChannelInv, Service, NEW d \in Client,
         ClientNext(d), ~ClientRequest(d), ~Fault,
         cpc[d] = "off" => ServerReady, UNCHANGED serverVars
  PROVE  Service'
<1>0. NetTypeOK
  BY IInvParts
<1>1. /\ OnlyAnnouncements' /\ Grows(Server) /\ sub'[Server] = sub[Server]
      /\ \A c \in Client : retained'[c] = retained[c]
      /\ \A c \in Client \ {d} :
           /\ cpc'[c] = cpc[c] /\ clink'[c] = clink[c]
           /\ sub'[c] = sub[c] /\ Grows(c)
  BY ClientLeaves DEF Service
<1>2. /\ cpc'[d] # "off" => ServerReady /\ clink'[d]
      /\ cpc'[d] = "waitKey" => sub'[d][d] = "local"
      /\ Served(d) => Served(d)'
  BY ClientGoesOn DEF Service
<1>3. AllConnected'
  BY <1>1, <1>2 DEF Service, AllConnected, serverVars, ServerReady
<1>4. ASSUME NEW c \in Client \ {d}, Served(c) PROVE Served(c)'
  <2>1. AnnouncementPending(c) => AnnouncementPending(c)'
    BY <1>0, <1>1, PendingStays DEF serverVars
  <2>2. KeyIsQueued(c) => KeyIsQueued(c)'
    BY <1>0, <1>1, QueuedKeyStays
  <2>3. KeyIsRetained(c) => KeyIsRetained(c)'
    BY <1>1 DEF KeyIsRetained
  <2> QED BY <1>1, <1>4, <2>1, <2>2, <2>3 DEF Served
<1> QED BY <1>1, <1>2, <1>3, <1>4 DEF Service, serverVars

\* With no thread and no failure, all there is to do is up to the main thread.
LEMMA ServerHasNoOtherStep ==
  ASSUME IInv, OnlyAnnouncements, ~Fault, ServerNext
  PROVE  \/ ServerConnect \/ ServerCannotReadKey \/ ServerSetups
         \/ ServerDisableCallbacks \/ ServerInstallCallbacks
         \/ ServerDiscardArrived \/ ServerConsume \/ ServerNewSubscriber \/ ServerSubscribeClient \/ ServerPublishKey
         \/ ServerRegister
<1>0. \A h \in Handler : th[h].pc = "idle"
  BY DEF OnlyAnnouncements
<1>1. \A h \in Handler : ~HandlerStep(h)
  BY <1>0 DEF HandlerStep, HandlerReadTopic, HandlerReadPayload, HandlerSearch,
     HandlerSearchMisses, SearchMisses, HandlerExec, HandlerReply
<1>2. \A h \in Handler : ~ServerSpawn(h)
  BY IInvParts DEF ServerPart, MainThreadInv, Serving, OnlyAnnouncements, ServerSpawn
<1>3. ServerFailure => ServerDiscardArrived
  BY <1>0 DEF ServerFailure, ServerNewSubscriberFails, ServerLinkLost,
     HandlerReadRaces, HandlerSearchRaces, HandlerThrows, SearchMisses
<1> QED BY <1>1, <1>2, <1>3 DEF ServerNext, ServerMain

\* The server starts once, and subscribes before any client is on.
LEMMA ServerStartsService ==
  ASSUME IInv, RetainedTopicInv, Service, ~Fault, UNCHANGED clientVars,
         serverRuns' <= 1,
         \/ ServerConnect \/ ServerCannotReadKey \/ ServerSetups
         \/ ServerDisableCallbacks \/ ServerInstallCallbacks \/ ServerDiscardArrived
  PROVE  Service'
<1> USE DEF clientVars
<1>0. /\ NetTypeOK /\ serverRuns \in Nat /\ inbox[Server] \in Seq(Message \cup {Null})
      /\ Server \in Session /\ Public \in Topic /\ "nolocal" \in SubMode
      /\ \A i \in 1..Len(inbox[Server]) : inbox[Server][i].topic = Public
  BY IInvParts DEF ServerPart, ServerTypeOK, NetTypeOK, Session, Topic, SubMode,
     Service, OnlyAnnouncements
<1>1. ~ServerReady /\ \A c \in Client : cpc[c] = "off" /\ cpc'[c] = "off"
  BY DEF Service, AllConnected, ServerReady, ServerConnect, ServerCannotReadKey,
     ServerSetups, ServerDisableCallbacks, ServerInstallCallbacks, ServerDiscardArrived
<1>2. \A c \in Client : Served(c)'
  BY <1>1 DEF Served
<1>3. UNCHANGED <<m_msgPtr, th, retained>>
  BY DEF ServerConnect, ServerCannotReadKey, ServerSetups, ServerDisableCallbacks,
     ServerInstallCallbacks, ServerDiscardArrived, Subscribe, Take, brokerVars,
     netVars, serverVars
<1>4. CASE ServerConnect
  <2>1. /\ serverRuns' = 1 /\ spc' = "setup" /\ slink' /\ UNCHANGED netVars
    BY <1>0, <1>4 DEF ServerConnect
  <2> QED BY <1>1, <1>2, <1>3, <2>1 DEF Service, AllConnected, OnlyAnnouncements, netVars
<1>5. CASE ServerSetups
  <2>1. /\ spc = "setup" /\ spc' = "start" /\ slink' = slink
        /\ Subscribe(Server, Public, "nolocal") /\ serverRuns' = serverRuns
    BY <1>5 DEF ServerSetups, Service, AllConnected
  <2>2. /\ sub'[Server] = [sub[Server] EXCEPT ![Public] = "nolocal"]
        /\ \/ inbox'[Server] = inbox[Server]
           \/ /\ retained[Public] \in Message
              /\ inbox'[Server] = Append(inbox[Server], retained[Public])
    BY <1>0, <2>1, SubscribeEffect DEF Receives
  <2>3. sub'[Server][Public] = "nolocal"
    BY <1>0, <2>2 DEF NetTypeOK
  <2>4. retained[Public] \in Message => retained[Public].topic = Public
    BY <1>0, NullIsNothingElse DEF RetainedTopicInv
  <2>5. \A i \in 1..Len(inbox'[Server]) : inbox'[Server][i].topic = Public
    <3>1. CASE inbox'[Server] = inbox[Server]
      BY <1>0, <3>1
    <3>2. ASSUME NEW m \in Message, m.topic = Public,
                 inbox'[Server] = Append(inbox[Server], m)
          PROVE  \A i \in 1..Len(inbox'[Server]) : inbox'[Server][i].topic = Public
      BY <1>0, <3>2, AppendElements
    <3> QED BY <2>2, <2>4, <3>1, <3>2
  <2> QED BY <1>1, <1>2, <1>3, <2>1, <2>3, <2>5
          DEF Service, AllConnected, OnlyAnnouncements
<1>6. CASE ServerDisableCallbacks \/ ServerInstallCallbacks
  <2>1. /\ spc \in {"start", "discard"} /\ spc' \in {"discard", "consume"}
        /\ UNCHANGED <<netVars, slink, serverRuns>>
    BY <1>6 DEF ServerDisableCallbacks, ServerInstallCallbacks, brokerVars, netVars
  <2> QED BY <1>1, <1>2, <1>3, <2>1 DEF Service, AllConnected, OnlyAnnouncements, netVars
<1>7. CASE ServerDiscardArrived
  <2>1. Take(Server) /\ UNCHANGED <<spc, slink, serverRuns>>
    BY <1>7 DEF ServerDiscardArrived, serverVars
  <2>2. /\ sub' = sub /\ inbox[Server] # <<>> /\ inbox'[Server] = Tail(inbox[Server])
    BY <1>0, <2>1, TakeEffect
  <2>3. \A i \in 1..Len(inbox'[Server]) : inbox'[Server][i].topic = Public
    BY <1>0, <2>2, TailElements
  <2> QED BY <1>1, <1>2, <1>3, <2>1, <2>2, <2>3
          DEF Service, AllConnected, OnlyAnnouncements
<1>8. CASE ServerCannotReadKey
  <2>1. /\ UNCHANGED <<netVars, spc, slink>> /\ spc = "down"
        /\ serverRuns' = 1
    BY <1>0, <1>8 DEF ServerCannotReadKey, brokerVars, netVars
  <2> QED BY <1>1, <1>2, <1>3, <2>1 DEF Service, AllConnected, OnlyAnnouncements, netVars
<1> QED BY <1>4, <1>5, <1>6, <1>7, <1>8

\* Taking the announcement of a client, the server has it to handle.
LEMMA ConsumeKeepsService ==
  ASSUME IInv, Service, UNCHANGED clientVars, ServerConsume
  PROVE  Service'
<1> USE DEF clientVars
<1>0. /\ NetTypeOK /\ inbox[Server] \in Seq(Message \cup {Null})
      /\ Server \in Session
      /\ \A i \in 1..Len(inbox[Server]) : inbox[Server][i].topic = Public
  BY IInvParts DEF NetTypeOK, Session, Service, OnlyAnnouncements
<1>1. /\ spc = "consume" /\ spc' = "assign" /\ Take(Server)
      /\ m_msgPtr' = Head(inbox[Server])
      /\ UNCHANGED <<slink, m_publicKey, th, serverRuns>>
  BY DEF ServerConsume
<1>2. /\ sub' = sub /\ retained' = retained
      /\ inbox[Server] # <<>> /\ inbox'[Server] = Tail(inbox[Server])
      /\ \A c \in Client : inbox'[c] = inbox[c]
  BY <1>0, <1>1, ServerTakes, TakeEffect DEF Take
<1>3. /\ Head(inbox[Server]) = inbox[Server][1] /\ 1 \in 1..Len(inbox[Server])
      /\ \A i \in 1..Len(Tail(inbox[Server])) :
           /\ i + 1 \in 1..Len(inbox[Server])
           /\ Tail(inbox[Server])[i] = inbox[Server][i + 1]
  BY <1>0, <1>2, TailElements
<1>4. OnlyAnnouncements'
  BY <1>0, <1>1, <1>2, <1>3 DEF Service, OnlyAnnouncements
<1>5. AllConnected'
  BY <1>1, <1>2 DEF Service, AllConnected, ServerReady
<1>6. ASSUME NEW c \in Client, AnnouncementPending(c) PROVE AnnouncementPending(c)'
  <2>1. PICK i \in 1..Len(inbox[Server]) : inbox[Server][i].body.ip = c
    BY <1>1, <1>6 DEF AnnouncementPending
  <2>2. CASE i = 1
    BY <1>0, <1>1, <1>3, <2>1, <2>2 DEF AnnouncementPending
  <2>3. CASE i # 1
    <3>1. /\ i - 1 \in 1..Len(Tail(inbox[Server]))
          /\ Tail(inbox[Server])[i - 1] = inbox[Server][i]
      BY <1>0, <1>2, <2>3
    <3> QED BY <1>0, <1>2, <2>1, <3>1 DEF AnnouncementPending
  <2> QED BY <2>2, <2>3
<1>7. \A c \in Client : Served(c) => Served(c)'
  BY <1>2, <1>6 DEF Served, KeyIsRetained, KeyIsQueued
<1> QED BY <1>1, <1>4, <1>5, <1>7 DEF Service

\* The server subscribes to the channel of the client that it answers: what is
\* retained there is its own, which it does not get.
LEMMA HandleKeepsService ==
  ASSUME IInv, Service, UNCHANGED clientVars,
         ServerNewSubscriber \/ ServerSubscribeClient \/ ServerRegister
  PROVE  Service'
<1> USE DEF clientVars
<1>0. NetTypeOK /\ Server \in Session /\ "nolocal" \in SubMode
      /\ Public \in Topic
  BY IInvParts DEF Session, SubMode, Topic
<1>1. /\ UNCHANGED <<retained, slink, m_publicKey, m_msgPtr, th, serverRuns>>
      /\ spc \in {"assign", "subscribe", "register"}
      /\ spc' \in {"subscribe", "publishKey", "consume"}
      /\ spc \in HasToAnswer => spc' \in HasToAnswer
  BY DEF ServerNewSubscriber, ServerSubscribeClient, ServerRegister, Subscribe,
     brokerVars, HasToAnswer
<1>2. /\ inbox'[Server] = inbox[Server] /\ sub'[Server][Public] = sub[Server][Public]
      /\ \A c \in Client : sub'[c] = sub[c] /\ inbox'[c] = inbox[c]
  <2>1. CASE ServerSubscribeClient
    <3> DEFINE ip == m_msgPtr.body.ip
    <3>1. ip \in Client /\ Subscribe(Server, ip, "nolocal")
      BY <2>1, AnnouncedClient DEF ServerSubscribeClient, Serving
    <3> HIDE DEF ip
    <3>2. ip \in Topic /\ ip # Public
      BY <3>1, NamesAreDistinct DEF Topic
    <3>3. retained[ip] # Null => ~Accepts("nolocal", retained[ip], Server)
      BY <3>1 DEF Service, OnlyAnnouncements, Accepts
    <3>4. inbox' = inbox
      BY <3>1, <3>3 DEF Subscribe
    <3>5. /\ sub'[Server] = [sub[Server] EXCEPT ![ip] = "nolocal"]
          /\ \A c \in Client : sub'[c] = sub[c]
      BY <3>1, <3>2, ServerSubscribes
    <3>6. sub'[Server][Public] = sub[Server][Public]
      BY <1>0, <3>2, <3>5 DEF NetTypeOK
    <3> QED BY <3>4, <3>5, <3>6
  <2> QED BY <2>1 DEF ServerNewSubscriber, ServerRegister, brokerVars
<1>3. AllConnected' /\ OnlyAnnouncements'
  BY <1>1, <1>2 DEF Service, AllConnected, OnlyAnnouncements, ServerReady
<1>4. ASSUME NEW c \in Client, Served(c) PROVE Served(c)'
  <2>1. AnnouncementPending(c) => AnnouncementPending(c)'
    BY <1>0, <1>1, <1>2, PendingStays DEF Grows
  <2>2. KeyIsQueued(c) <=> KeyIsQueued(c)'
    BY <1>2 DEF KeyIsQueued
  <2> QED BY <1>1, <1>4, <2>1, <2>2 DEF Served, KeyIsRetained
<1> QED BY <1>1, <1>3, <1>4 DEF Service

\* The key that answers an announcement stays on the client's channel, and is
\* queued for the client that already hears it.
LEMMA PublishKeepsService ==
  ASSUME IInv, Service, UNCHANGED clientVars, ServerPublishKey
  PROVE  Service'
<1> DEFINE ip == m_msgPtr.body.ip
           m  == [topic |-> ip, body |-> m_publicKey, from |-> Server]
<1> USE DEF clientVars
<1>0. /\ NetTypeOK /\ Server \in Session /\ \A c \in Client : c \in Session
      /\ m_publicKey \in PrivateBody
  BY IInvParts DEF Session, ServerPart, ServerTypeOK, PrivateBody, KeyBody, EmptyBody
<1>1. /\ spc = "publishKey" /\ spc' = "register"
      /\ Publish(Server, ip, m_publicKey)
      /\ UNCHANGED <<slink, m_publicKey, m_msgPtr, th, serverRuns>>
  BY DEF ServerPublishKey
<1>2. ip \in Client /\ m_msgPtr.topic = Public
  BY <1>1, AnnouncedClient DEF Serving
<1>3. m \in Message /\ m.from = Server /\ m.topic = ip /\ m.body = m_publicKey
  BY <1>0, <1>2, PrivateMessage
<1> HIDE DEF ip, m
<1>4. /\ sub' = sub /\ inbox'[Server] = inbox[Server]
      /\ \A r \in Session : Receives(r, m, sub[r][ip])
  <2>1. sub' = sub /\ inbox'[Server] = inbox[Server]
    BY <1>0, <1>1, <1>2, ServerPublishes
  <2>2. \A r \in Session : Receives(r, m, sub[r][ip])
    BY <1>0, <1>1, <1>2, <1>3, PublishEffect DEF m, Topic
  <2> QED BY <2>1, <2>2
<1>5. \A c \in Client : retained'[c] =
        IF c = ip THEN (IF m_publicKey.type = "empty" THEN Null ELSE m) ELSE retained[c]
  BY <1>0, <1>1, <1>2 DEF Publish, NetTypeOK, Topic, m
<1>6. AllConnected' /\ OnlyAnnouncements'
  BY <1>1, <1>3, <1>4, <1>5
     DEF Service, AllConnected, OnlyAnnouncements, ServerReady
<1>7. ASSUME NEW c \in Client, Served(c), m_publicKey = KeyBody PROVE Served(c)'
  <2>1. CASE c = ip
    <3>1. KeyIsRetained(c)'
      <4>1. retained'[c] = m /\ m.body = KeyBody
        BY <1>3, <1>5, <1>7, <2>1 DEF KeyBody
      <4> QED BY <1>3, <4>1, NullIsNothingElse DEF KeyIsRetained
    <3>2. ASSUME cpc[c] = "waitKey" PROVE KeyIsQueued(c)'
      <4>1. sub[c][c] = "local"
        BY <3>2 DEF Service, AllConnected
      <4>2. inbox'[c] = Append(inbox[c], m) /\ inbox[c] \in Seq(Message \cup {Null})
        BY <1>0, <1>1, <2>1, <4>1 DEF Publish, Accepts, NetTypeOK, m
      <4>3. /\ Len(inbox[c]) + 1 \in 1..Len(inbox'[c])
            /\ inbox'[c][Len(inbox[c]) + 1] = m
        BY <1>3, <4>2, AppendElements
      <4> QED BY <1>3, <1>7, <2>1, <4>3, NullIsNothingElse DEF KeyIsQueued
    <3> QED BY <3>1, <3>2 DEF Served
  <2>2. CASE c # ip
    <3>1. AnnouncementPending(c) => AnnouncementPending(c)'
      BY <1>1, <1>4, <2>2 DEF AnnouncementPending, ip
    <3>2. Grows(c)
      BY <1>0, <1>3, <1>4 DEF Receives, Grows
    <3>3. KeyIsQueued(c) => KeyIsQueued(c)'
      BY <1>0, <3>2, QueuedKeyStays
    <3>4. KeyIsRetained(c) => KeyIsRetained(c)'
      BY <1>5, <2>2 DEF KeyIsRetained
    <3> QED BY <1>7, <3>1, <3>3, <3>4 DEF Served
  <2> QED BY <2>1, <2>2
<1> QED BY <1>1, <1>6, <1>7 DEF Service

\* Until something is disturbed, a client that waits for the key of a server
\* that has one is sure to find it: its announcement has still to be handled,
\* or the key is retained, until it subscribes, and then in its queue.
THEOREM WaitersAreServed == Spec => []WaiterIsServed
<1>1. Init => ServiceInv
  <2> SUFFICES ASSUME Init PROVE Service
    BY DEF ServiceInv, WaiterIsServed, Service, KeyOnItsWay, Served
  <2>1. /\ spc = "down" /\ serverRuns = 0 /\ m_msgPtr = Null
        /\ \A c \in Client : cpc[c] = "off" /\ retained[c] = Null
        /\ inbox[Server] = <<>> /\ \A h \in Handler : th[h].pc = "idle"
    BY DEF Init, BrokerInit, ServerInit, ClientInit, Session, Topic, IdleThread
  <2>2. AllConnected /\ OnlyAnnouncements
    BY <2>1 DEF AllConnected, OnlyAnnouncements
  <2> QED BY <2>1, <2>2, AllOffAreServed DEF Service
<1>2. IInv /\ IInv' /\ KeyChannelInv /\ ServiceInv /\ [Next]_vars => ServiceInv'
  <2> SUFFICES ASSUME IInv, IInv', KeyChannelInv, ServiceInv, [Next]_vars, Undisturbed'
               PROVE  Service'
    BY DEF ServiceInv, WaiterIsServed, Service, KeyOnItsWay, Served
  <2>1. CASE UNCHANGED vars
    BY <2>1 DEF vars, brokerVars, serverVars, clientVars, ServiceInv, WaiterIsServed,
       Service, Undisturbed, AllConnected, OnlyAnnouncements, KeyOnItsWay, Served,
       AnnouncementPending, KeyIsRetained, KeyIsQueued, ServerReady
  <2>2. CASE Next
    <3>1. Undisturbed /\ ~Fault /\ \A c \in Client : ~ClientRequest(c)
      BY <2>2, UndisturbedBefore
    <3>2. Service
      BY <3>1 DEF ServiceInv, WaiterIsServed, Service, KeyOnItsWay, Served
    <3>3. ASSUME NEW c \in Client, ClientNext(c), UNCHANGED serverVars,
                 cpc[c] = "off" /\ LateClients => ServerReady
          PROVE  Service'
      BY <3>1, <3>2, <3>3, ClientKeepsService DEF Undisturbed
    <3>4. CASE ServerNext /\ UNCHANGED clientVars
      BY <3>1, <3>2, <3>4, ServerHasNoOtherStep, ServerStartsService,
         ConsumeKeepsService, HandleKeepsService, PublishKeepsService
         DEF Service, KeyChannelInv, Undisturbed
    <3> QED BY <2>2, <3>3, <3>4 DEF Next
  <2> QED BY <2>1, <2>2
<1>3. ServiceInv => WaiterIsServed
  BY DEF ServiceInv
<1> QED BY <1>1, <1>2, <1>3, Invariance, KeyChannelHolds, PTL DEF Spec

-----------------------------------------------------------------------------
(* What is copied was asked for, and what is answered was copied.          *)

\* NothingAsked after a step, of the value that c has now.
NothingAskedNext(c) ==
  /\ serverRuns' <= 1 /\ clientRuns'[c] <= 1
  /\ cpc'[c] \in {"off", "publish", "consume", "listen", "waitKey"}
  /\ cpc'[c] = "off" => clientRuns'[c] = 0

\* Who has asked nothing yet had asked nothing before.
FewerAskNothing == \A c \in Client : NothingAskedNext(c) => NothingAsked(c)

LEMMA AskingLasts ==
  ASSUME IInv, KeyChannelInv, Next
  PROVE  FewerAskNothing
<1> SUFFICES ASSUME NEW c \in Client, NothingAskedNext(c) PROVE NothingAsked(c)
  BY DEF FewerAskNothing
<1>1. NothingAsked(c)'
  BY DEF NothingAskedNext, NothingAsked, FirstRuns
<1>2. ASSUME NEW d \in Client, ClientNext(d), UNCHANGED serverVars
      PROVE  NothingAsked(c)
  BY <1>1, <1>2, NothingAskedBefore DEF KeyChannelInv
<1>3. CASE ServerNext /\ UNCHANGED clientVars
  <2>1. serverRuns \in Nat /\ serverRuns' \in {serverRuns, serverRuns + 1}
    BY <1>3, ServerStarts DEF KeyChannelInv
  <2>2. serverRuns <= 1
    BY <2>1 DEF NothingAskedNext
  <2> QED BY <1>1, <1>3, <2>2 DEF clientVars, NothingAsked, FirstRuns
<1> QED BY <1>2, <1>3 DEF Next

\* Honest after a step, of the value that m has now.
HonestNext(m) ==
  m # Null =>
    /\ m.body.type = "backup" => \E c \in Client : m.body.path \in asked'[c]
    /\ m.body.type = "reply" =>
         \E cmnd \in ran' : cmnd.host = m.topic /\ cmnd.path = m.body.path
    /\ m.body.type = "text" /\ m.body.marked => markSent'
    /\ m.topic \in Client /\ NothingAskedNext(m.topic) =>
         m.body \in {KeyBody, EmptyBody}

\* What was asked, run and sent is never forgotten.
HistoryGrows ==
  /\ ran \subseteq ran' /\ \A c \in Client : asked[c] \subseteq asked'[c]
  /\ markSent => markSent'
  /\ FewerAskNothing

\* Nobody asks for a path with the mark for the first time, unless it is sent.
MarksAreSent ==
  \A c \in Client : \A path \in asked'[c] :
    path \in asked[c] \/ (path \in MarkedPath => markSent')

LEMMA HonestStays ==
  ASSUME HistoryGrows
  PROVE  /\ \A m : Honest(m) => HonestNext(m)
         /\ \A path : WasAsked(path) => \E c \in Client : path \in asked'[c]
         /\ \A c, path : WasRun(c, path) =>
              \E cmnd \in ran' : cmnd.host = c /\ cmnd.path = path
  BY DEF HistoryGrows, FewerAskNothing, Honest, HonestNext, WasAsked, WasRun

\* HonestNext says of what is there after a step that it is honest then.
LEMMA HonestAfter ==
  /\ HonestNext(m_msgPtr') => Honest(m_msgPtr)'
  /\ \A t \in Topic : HonestNext(retained'[t]) => Honest(retained[t])'
  /\ \A s \in Session : \A i \in 1..Len(inbox'[s]) :
       HonestNext(inbox'[s][i]) => Honest(inbox[s][i])'
  BY DEF Honest, HonestNext, WasAsked, WasRun, NothingAsked, NothingAskedNext, FirstRuns

\* The part of the invariant about the messages of the broker.
NetHonest ==
  /\ \A t \in Topic : Honest(retained[t])
  /\ \A s \in Session : \A i \in 1..Len(inbox[s]) : Honest(inbox[s][i])
  /\ OwnChannelOnly /\ RetainedTopicInv

\* The messages after a step are honest if each is one of before, or new and
\* honest itself.
LEMMA NetHonestNext ==
  ASSUME \A t \in Topic : HonestNext(retained'[t]),
         \A s \in Session : \A i \in 1..Len(inbox'[s]) : HonestNext(inbox'[s][i]),
         OwnChannelOnly', RetainedTopicInv'
  PROVE  NetHonest'
  BY HonestAfter DEF NetHonest

LEMMA QuietIsHonest ==
  ASSUME NetHonest, HistoryGrows, UNCHANGED netVars
  PROVE  NetHonest'
<1>1. \A t \in Topic : HonestNext(retained'[t])
  BY HonestStays DEF NetHonest, netVars
<1>2. \A s \in Session : \A i \in 1..Len(inbox'[s]) : HonestNext(inbox'[s][i])
  BY HonestStays DEF NetHonest, netVars
<1>3. OwnChannelOnly' /\ RetainedTopicInv'
  BY DEF NetHonest, netVars, OwnChannelOnly, RetainedTopicInv
<1> QED BY <1>1, <1>2, <1>3, NetHonestNext

\* A queue that grows by an honest message stays honest.
LEMMA AppendIsHonest ==
  ASSUME NetTypeOK, NEW s \in Session, NEW m \in Message, HonestNext(m),
         \A i \in 1..Len(inbox[s]) : HonestNext(inbox[s][i]),
         inbox'[s] = inbox[s] \/ inbox'[s] = Append(inbox[s], m)
  PROVE  \A i \in 1..Len(inbox'[s]) : HonestNext(inbox'[s][i])
<1>1. inbox[s] \in Seq(Message \cup {Null})
  BY DEF NetTypeOK
<1>2. CASE inbox'[s] = inbox[s]
  BY <1>2
<1>3. CASE inbox'[s] = Append(inbox[s], m)
  <2>1. /\ Len(inbox'[s]) = Len(inbox[s]) + 1
        /\ \A i \in 1..Len(inbox[s]) : inbox'[s][i] = inbox[s][i]
        /\ inbox'[s][Len(inbox[s]) + 1] = m
    BY <1>1, <1>3, AppendElements
  <2>2. \A i \in 1..Len(inbox'[s]) :
          i \in 1..Len(inbox[s]) \/ i = Len(inbox[s]) + 1
    BY <1>1, <2>1
  <2> QED BY <2>1, <2>2
<1> QED BY <1>2, <1>3

\* So does the queue of a client that holds messages of its own channel.
LEMMA AppendIsOwn ==
  ASSUME NetTypeOK, NEW c \in Client, NEW m \in Message, m.topic = c,
         \A i \in 1..Len(inbox[c]) : inbox[c][i] # Null => inbox[c][i].topic = c,
         inbox'[c] = inbox[c] \/ inbox'[c] = Append(inbox[c], m)
  PROVE  \A i \in 1..Len(inbox'[c]) : inbox'[c][i] # Null => inbox'[c][i].topic = c
<1>1. inbox[c] \in Seq(Message \cup {Null})
  BY DEF NetTypeOK, Session
<1>2. CASE inbox'[c] = inbox[c]
  BY <1>2
<1>3. CASE inbox'[c] = Append(inbox[c], m)
  BY <1>1, <1>3, AppendElements
<1> QED BY <1>2, <1>3

LEMMA PublishIsHonest ==
  ASSUME NetTypeOK, NetHonest, HistoryGrows, NEW s \in Session, NEW t \in Topic,
         NEW body, [topic |-> t, body |-> body, from |-> s] \in Message,
         HonestNext([topic |-> t, body |-> body, from |-> s]),
         Publish(s, t, body)
  PROVE  NetHonest'
<1> DEFINE m == [topic |-> t, body |-> body, from |-> s]
<1>1. /\ sub' = sub /\ RetainedTopicInv'
      /\ \A r \in Session : Receives(r, m, sub[r][t])
  BY PublishEffect, PublishRetains DEF NetHonest
<1>2. \A u \in Topic : retained'[u] \in {retained[u], Null, m}
  BY DEF Publish, NetTypeOK
<1>3. m \in Message /\ m.topic = t /\ HonestNext(m)
  OBVIOUS
<1> HIDE DEF m
<1>4. \A u \in Topic : HonestNext(retained'[u])
  <2>1. \A u \in Topic : HonestNext(retained[u])
    BY HonestStays DEF NetHonest
  <2>2. HonestNext(Null)
    BY DEF HonestNext
  <2> QED BY <1>2, <1>3, <2>1, <2>2
<1>5. \A r \in Session : \A i \in 1..Len(inbox'[r]) : HonestNext(inbox'[r][i])
  <2> SUFFICES ASSUME NEW r \in Session
               PROVE  \A i \in 1..Len(inbox'[r]) : HonestNext(inbox'[r][i])
    OBVIOUS
  <2>1. \A i \in 1..Len(inbox[r]) : HonestNext(inbox[r][i])
    BY HonestStays DEF NetHonest
  <2>2. inbox'[r] = inbox[r] \/ inbox'[r] = Append(inbox[r], m)
    BY <1>1 DEF Receives
  <2> QED BY <1>3, <2>1, <2>2, AppendIsHonest
<1>6. OwnChannelOnly'
  <2> SUFFICES ASSUME NEW c \in Client
               PROVE  \A i \in 1..Len(inbox'[c]) :
                        inbox'[c][i] # Null => inbox'[c][i].topic = c
    BY <1>1 DEF NetHonest, OwnChannelOnly
  <2>1. /\ \A i \in 1..Len(inbox[c]) : inbox[c][i] # Null => inbox[c][i].topic = c
        /\ \A u \in Topic \ {c} : sub[c][u] = "none"
    BY DEF NetHonest, OwnChannelOnly
  <2>2. inbox'[c] = inbox[c]
        \/ (inbox'[c] = Append(inbox[c], m) /\ Accepts(sub[c][t], m, c))
    BY <1>1 DEF Receives, Session
  <2>3. Accepts(sub[c][t], m, c) => t = c
    BY <2>1 DEF Accepts
  <2> QED BY <1>3, <2>1, <2>2, <2>3, AppendIsOwn
<1> QED BY <1>1, <1>4, <1>5, <1>6, NetHonestNext

LEMMA SubscribeIsHonest ==
  ASSUME NetTypeOK, NetHonest, HistoryGrows, NEW s \in Session, NEW t \in Topic,
         NEW mode \in SubMode, s = t \/ s = Server, Subscribe(s, t, mode)
  PROVE  NetHonest'
<1>1. /\ sub'[s] = [sub[s] EXCEPT ![t] = mode] /\ retained' = retained
      /\ \A r \in Session \ {s} : sub'[r] = sub[r] /\ inbox'[r] = inbox[r]
      /\ \/ inbox'[s] = inbox[s]
         \/ retained[t] \in Message /\ inbox'[s] = Append(inbox[s], retained[t])
  BY SubscribeEffect DEF Receives, Subscribe
<1>2. RetainedTopicInv'
  BY <1>1 DEF NetHonest, RetainedTopicInv
<1>3. \A u \in Topic : HonestNext(retained[u])
  BY HonestStays DEF NetHonest
<1>4. ASSUME NEW r \in Session
      PROVE  \A i \in 1..Len(inbox'[r]) : HonestNext(inbox'[r][i])
  <2>1. \A i \in 1..Len(inbox[r]) : HonestNext(inbox[r][i])
    BY HonestStays DEF NetHonest
  <2>2. CASE inbox'[r] = inbox[r]
    BY <2>1, <2>2
  <2>3. CASE inbox'[r] # inbox[r]
    BY <1>1, <1>3, <2>1, <2>3, AppendIsHonest
  <2> QED BY <2>2, <2>3
<1>5. OwnChannelOnly'
  <2> SUFFICES ASSUME NEW c \in Client
               PROVE  /\ \A u \in Topic \ {c} : sub'[c][u] = "none"
                      /\ \A i \in 1..Len(inbox'[c]) :
                           inbox'[c][i] # Null => inbox'[c][i].topic = c
    BY DEF OwnChannelOnly
  <2>1. /\ \A u \in Topic \ {c} : sub[c][u] = "none"
        /\ \A i \in 1..Len(inbox[c]) : inbox[c][i] # Null => inbox[c][i].topic = c
    BY DEF NetHonest, OwnChannelOnly
  <2>2. CASE c = s
    <3>1. t = c
      BY <2>2, NamesAreDistinct
    <3>2. \A u \in Topic \ {c} : sub'[c][u] = "none"
      BY <1>1, <2>1, <2>2, <3>1 DEF NetTypeOK
    <3>3. CASE inbox'[c] = inbox[c]
      BY <2>1, <3>2, <3>3
    <3>4. CASE inbox'[c] # inbox[c]
      <4>1. retained[t] \in Message /\ inbox'[c] = Append(inbox[c], retained[t])
        BY <1>1, <2>2, <3>4
      <4>2. retained[t].topic = c
        BY <3>1, <4>1, NullIsNothingElse DEF NetHonest, RetainedTopicInv
      <4> QED BY <2>1, <3>2, <4>1, <4>2, AppendIsOwn
    <3> QED BY <3>3, <3>4
  <2>3. CASE c # s
    BY <1>1, <2>1, <2>3 DEF Session
  <2> QED BY <2>2, <2>3
<1> QED BY <1>1, <1>2, <1>3, <1>4, <1>5, NetHonestNext

LEMMA TakeIsHonest ==
  ASSUME NetTypeOK, NetHonest, HistoryGrows, NEW s \in Session, Take(s)
  PROVE  NetHonest'
<1>1. /\ sub' = sub /\ retained' = retained
      /\ \A r \in Session \ {s} : inbox'[r] = inbox[r]
      /\ inbox[s] # <<>> /\ inbox'[s] = Tail(inbox[s])
      /\ inbox[s] \in Seq(Message \cup {Null})
  BY TakeEffect DEF Take, NetTypeOK
<1>2. ASSUME NEW r \in Session
      PROVE  \A i \in 1..Len(inbox'[r]) :
               \E j \in 1..Len(inbox[r]) : inbox'[r][i] = inbox[r][j]
  <2>1. CASE r = s
    <3>1. \A i \in 1..Len(Tail(inbox[s])) :
            i + 1 \in 1..Len(inbox[s]) /\ Tail(inbox[s])[i] = inbox[s][i + 1]
      BY <1>1, TailElements
    <3> QED BY <1>1, <2>1, <3>1
  <2>2. CASE r # s
    BY <1>1, <2>2
  <2> QED BY <2>1, <2>2
<1>3. \A t \in Topic : HonestNext(retained'[t])
  BY <1>1, HonestStays DEF NetHonest
<1>4. \A r \in Session : \A i \in 1..Len(inbox'[r]) : HonestNext(inbox'[r][i])
  BY <1>2, HonestStays DEF NetHonest
<1>5. OwnChannelOnly'
  <2>1. \A c \in Client : \A i \in 1..Len(inbox'[c]) :
          inbox'[c][i] # Null => inbox'[c][i].topic = c
    <3> SUFFICES ASSUME NEW c \in Client, NEW i \in 1..Len(inbox'[c]),
                        inbox'[c][i] # Null
                 PROVE  inbox'[c][i].topic = c
      OBVIOUS
    <3>1. PICK j \in 1..Len(inbox[c]) : inbox'[c][i] = inbox[c][j]
      BY <1>2 DEF Session
    <3> QED BY <3>1 DEF NetHonest, OwnChannelOnly
  <2> QED BY <1>1, <2>1 DEF NetHonest, OwnChannelOnly
<1>6. RetainedTopicInv'
  BY <1>1 DEF NetHonest, RetainedTopicInv
<1> QED BY <1>3, <1>4, <1>5, <1>6, NetHonestNext

LEMMA EndSessionIsHonest ==
  ASSUME NetTypeOK, NetHonest, HistoryGrows, NEW s \in Session,
         NEW rest \in Seq(Message \cup {Null}), EndSession(s, rest),
         \A i \in 1..Len(rest) :
           rest[i] = Null \/ \E j \in 1..Len(inbox[s]) : rest[i] = inbox[s][j]
  PROVE  NetHonest'
<1>1. /\ \A t \in Topic : sub'[s][t] = "none"
      /\ \A r \in Session \ {s} : sub'[r] = sub[r] /\ inbox'[r] = inbox[r]
      /\ inbox'[s] = rest /\ RetainedTopicInv'
  BY EndSessionEffect, EndSessionRetains DEF NetHonest
<1>2. ASSUME NEW t \in Topic PROVE HonestNext(retained'[t])
  <2>1. HonestNext(retained[t])
    BY HonestStays DEF NetHonest
  <2>2. CASE retained'[t] = retained[t]
    BY <2>1, <2>2
  <2>3. CASE retained[t] # Null /\ retained'[t] = [retained[t] EXCEPT !.from = Nobody]
    <3>1. retained[t] \in Message
      BY <2>3 DEF NetTypeOK
    <3>2. retained'[t].body = retained[t].body /\ retained'[t].topic = retained[t].topic
      BY <2>3, <3>1 DEF Message
    <3> QED BY <2>1, <2>3, <3>2 DEF HonestNext
  <2> QED BY <2>2, <2>3 DEF EndSession
<1>3. HonestNext(Null)
  BY DEF HonestNext
<1>4. ASSUME NEW r \in Session
      PROVE  \A i \in 1..Len(inbox'[r]) : HonestNext(inbox'[r][i])
  <2>1. \A i \in 1..Len(inbox[r]) : HonestNext(inbox[r][i])
    BY HonestStays DEF NetHonest
  <2>2. CASE r = s
    BY <1>1, <1>3, <2>1, <2>2
  <2>3. CASE r # s
    BY <1>1, <2>1, <2>3
  <2> QED BY <2>2, <2>3
<1>5. OwnChannelOnly'
  <2> SUFFICES ASSUME NEW c \in Client
               PROVE  /\ \A u \in Topic \ {c} : sub'[c][u] = "none"
                      /\ \A i \in 1..Len(inbox'[c]) :
                           inbox'[c][i] # Null => inbox'[c][i].topic = c
    BY DEF OwnChannelOnly
  <2>1. /\ \A u \in Topic \ {c} : sub[c][u] = "none"
        /\ \A i \in 1..Len(inbox[c]) : inbox[c][i] # Null => inbox[c][i].topic = c
    BY DEF NetHonest, OwnChannelOnly
  <2>2. CASE c = s
    BY <1>1, <2>1, <2>2
  <2>3. CASE c # s
    BY <1>1, <2>1, <2>3 DEF Session
  <2> QED BY <2>2, <2>3
<1> QED BY <1>1, <1>2, <1>4, <1>5, NetHonestNext

\* The parts of AnswersInv: the messages of the broker, and the rest.
ServerHonest ==
  Honest(m_msgPtr) /\ ThreadsAreHonest /\ AnswersAreEarned /\ MarkIsKnown

LEMMA AnswersParts ==
  /\ AnswersInv <=> NetHonest /\ ServerHonest
  /\ AnswersInv' <=> NetHonest' /\ ServerHonest'
  BY DEF AnswersInv, MessagesAreHonest, NetHonest, ServerHonest

\* What a server knows stays honest while others ask.
LEMMA ServerStaysHonest ==
  ASSUME ServerHonest, HistoryGrows, MarksAreSent, UNCHANGED <<m_msgPtr, th, ran>>,
         \A c \in Client : \A path \in answered'[c] :
           path \in answered[c] \/ WasRun(c, path)
  PROVE  ServerHonest'
<1>1. Honest(m_msgPtr)'
  BY HonestStays, HonestAfter DEF ServerHonest
<1>2. ThreadsAreHonest'
  BY HonestStays DEF ServerHonest, ThreadsAreHonest, WasAsked
<1>3. AnswersAreEarned'
  BY HonestStays DEF ServerHonest, AnswersAreEarned, WasAsked, WasRun
<1>4. MarkIsKnown'
  BY DEF ServerHonest, MarkIsKnown, MarksAreSent, HistoryGrows, WasAsked
<1> QED BY <1>1, <1>2, <1>3, <1>4 DEF ServerHonest

LEMMA ClientIsHonest ==
  ASSUME IInv, AnswersInv, FewerAskNothing, NEW c \in Client, ClientNext(c), UNCHANGED serverVars
  PROVE  AnswersInv'
<1>0. /\ NetTypeOK /\ ClientTypeOK /\ ClientOK(c)
      /\ c \in Session /\ c \in Topic /\ Public \in Topic /\ "local" \in SubMode
      /\ inbox[c] \in Seq(Message \cup {Null})
      /\ NetHonest /\ ServerHonest /\ UNCHANGED <<m_msgPtr, th, ran>>
  BY IInvParts, AnswersParts
     DEF ClientPart, Session, Topic, SubMode, NetTypeOK, serverVars
<1>1. ASSUME UNCHANGED <<asked, markSent, answered>>, HistoryGrows => NetHonest'
      PROVE  AnswersInv'
  <2>1. HistoryGrows /\ MarksAreSent
    BY <1>0, <1>1 DEF HistoryGrows, MarksAreSent
  <2>2. ServerHonest'
    BY <1>0, <1>1, <2>1, ServerStaysHonest
  <2> QED BY <1>1, <2>1, <2>2, AnswersParts
<1>2. CASE ClientConnect(c) \/ ClientStartConsuming(c)
  <2>1. UNCHANGED <<asked, markSent, answered, netVars>>
    BY <1>2 DEF ClientConnect, ClientStartConsuming, Goto, brokerVars, netVars
  <2> QED BY <1>0, <1>1, <2>1, QuietIsHonest
<1>3. CASE ClientPublish(c)
  <2> DEFINE m == [topic |-> Public, body |-> SubscribeBody(c, infoLine[c]), from |-> c]
  <2>1. /\ Publish(c, Public, SubscribeBody(c, infoLine[c]))
        /\ infoLine[c] \in InfoLine /\ UNCHANGED <<asked, markSent, answered>>
    BY <1>0, <1>3 DEF ClientPublish, Goto, ClientOK, ClientTypeOK
  <2>2. m \in Message /\ HonestNext(m)
    BY <1>0, <2>1, Announcement, NamesAreDistinct DEF HonestNext, SubscribeBody
  <2> QED BY <1>0, <1>1, <2>1, <2>2, PublishIsHonest
<1>4. CASE ClientSubscribe(c)
  <2>1. /\ Subscribe(c, c, "local") \/ UNCHANGED netVars
        /\ UNCHANGED <<asked, markSent, answered>>
    BY <1>4 DEF ClientSubscribe, Goto
  <2> QED BY <1>0, <1>1, <2>1, SubscribeIsHonest, QuietIsHonest
<1>5. CASE ClientWaitKey(c)
  BY <1>0, <1>1, <1>5, TakeIsHonest DEF ClientWaitKey
<1>6. CASE ClientReceive(c)
  <2> DEFINE msg == Head(inbox[c])
  <2>1. /\ Take(c) /\ UNCHANGED <<asked, markSent>>
        /\ answered' = [answered EXCEPT ![c] =
                          IF msg # Null /\ msg.body.type = "reply"
                          THEN @ \cup {msg.body.path} ELSE @]
    BY <1>6 DEF ClientReceive
  <2>2. HistoryGrows /\ MarksAreSent
    BY <1>0, <2>1 DEF HistoryGrows, MarksAreSent
  <2>3. inbox[c] # <<>>
    BY <2>1 DEF Take
  <2>4. msg = inbox[c][1] /\ 1 \in 1..Len(inbox[c])
    BY <1>0, <2>3, TailElements
  <2>5. Honest(msg) /\ (msg # Null => msg.topic = c)
    BY <1>0, <2>4 DEF NetHonest, OwnChannelOnly
  <2>6. \A path \in answered'[c] :
          \/ path \in answered[c]
          \/ msg # Null /\ msg.body.type = "reply" /\ path = msg.body.path
    BY <1>0, <2>1 DEF ClientTypeOK
  <2>7. \A d \in Client \ {c} : answered'[d] = answered[d]
    BY <1>0, <2>1 DEF ClientTypeOK
  <2> HIDE DEF msg
  <2>8. \A d \in Client : \A path \in answered'[d] :
          path \in answered[d] \/ WasRun(d, path)
    BY <2>5, <2>6, <2>7 DEF Honest
  <2> QED BY <1>0, <2>1, <2>2, <2>8, TakeIsHonest, ServerStaysHonest, AnswersParts
<1>7. CASE ClientRequest(c)
  <2>1. PICK line \in Lines :
          \/ /\ Publish(c, c, line)
             /\ asked' = [asked EXCEPT ![c] =
                            IF line.type = "backup" THEN @ \cup {line.path} ELSE @]
             /\ markSent' = (markSent \/ HasMark(line))
          \/ UNCHANGED <<netVars, asked, markSent>>
    BY <1>7 DEF ClientRequest
  <2>2. /\ answered' = answered /\ cpc' = cpc
        /\ cpc[c] \in {"ready", "cmdOnly"} /\ ~NothingAskedNext(c)
    BY <1>7 DEF ClientRequest, NothingAskedNext
  <2>3. CASE UNCHANGED <<netVars, asked, markSent>>
    BY <1>0, <1>1, <2>2, <2>3, QuietIsHonest
  <2>4. CASE /\ Publish(c, c, line)
             /\ asked' = [asked EXCEPT ![c] =
                            IF line.type = "backup" THEN @ \cup {line.path} ELSE @]
             /\ markSent' = (markSent \/ HasMark(line))
    <3> DEFINE m == [topic |-> c, body |-> line, from |-> c]
    <3>1. HistoryGrows
      BY <1>0, <2>4 DEF HistoryGrows, ClientTypeOK
    <3>0. MarksAreSent
      BY <1>0, <2>4 DEF MarksAreSent, ClientTypeOK, HasMark
    <3>2. line \in PrivateBody /\ line.type # "reply"
      BY TypedLine
    <3>3. line.type = "backup" => line.path \in asked'[c]
      BY <1>0, <2>4 DEF ClientTypeOK
    <3>4. m \in Message /\ HonestNext(m)
      BY <1>0, <2>2, <2>4, <3>2, <3>3, PrivateMessage DEF HonestNext, HasMark
    <3>5. NetHonest'
      BY <1>0, <2>4, <3>1, <3>4, PublishIsHonest
    <3>6. ServerHonest'
      BY <1>0, <2>2, <3>0, <3>1, ServerStaysHonest
    <3> QED BY <3>5, <3>6, AnswersParts
  <2> QED BY <2>1, <2>3, <2>4
<1>8. ASSUME NEW rest \in Seq(Message \cup {Null}), EndSession(c, rest),
             \A i \in 1..Len(rest) :
               rest[i] = Null \/ \E j \in 1..Len(inbox[c]) : rest[i] = inbox[c][j],
             UNCHANGED <<asked, markSent, answered>>
      PROVE  AnswersInv'
  BY <1>0, <1>1, <1>8, EndSessionIsHonest
<1>9. ASSUME EndSession(c, <<>>), UNCHANGED <<asked, markSent, answered>> PROVE AnswersInv'
  <2> DEFINE none == <<>>
  <2>1. EndSession(c, none) /\ none \in Seq(Message \cup {Null}) /\ Len(none) = 0
    BY <1>9
  <2> HIDE DEF none
  <2>2. \A i \in 1..Len(none) :
          none[i] = Null \/ \E j \in 1..Len(inbox[c]) : none[i] = inbox[c][j]
    BY <2>1
  <2> QED BY <1>8, <1>9, <2>1, <2>2
<1>10. CASE ClientLinkLost(c)
  <2>1. PICK n \in 0..Len(inbox[c]) :
          EndSession(c, IF Listening(c)
                        THEN Append(SubSeq(inbox[c], 1, n), Null) ELSE <<>>)
    BY <1>10 DEF ClientLinkLost
  <2>2. UNCHANGED <<asked, markSent, answered>>
    BY <1>10 DEF ClientLinkLost
  <2> DEFINE rest == Append(SubSeq(inbox[c], 1, n), Null)
  <2>3. /\ rest \in Seq(Message \cup {Null})
        /\ \A i \in 1..Len(rest) :
             rest[i] = Null \/ \E j \in 1..Len(inbox[c]) : rest[i] = inbox[c][j]
    <3>1. /\ SubSeq(inbox[c], 1, n) \in Seq(Message \cup {Null})
          /\ Len(SubSeq(inbox[c], 1, n)) = n
          /\ \A i \in 1..n : SubSeq(inbox[c], 1, n)[i] = inbox[c][i]
      BY <1>0
    <3>2. /\ Len(rest) = n + 1 /\ rest[n + 1] = Null
          /\ \A i \in 1..n : rest[i] = inbox[c][i]
          /\ rest \in Seq(Message \cup {Null})
      BY <3>1, AppendElements
    <3>3. \A i \in 1..Len(rest) : i = n + 1 \/ (i \in 1..n /\ i \in 1..Len(inbox[c]))
      BY <1>0, <3>2
    <3> QED BY <3>2, <3>3
  <2>4. EndSession(c, rest) \/ EndSession(c, <<>>)
    BY <2>1
  <2> HIDE DEF rest
  <2> QED BY <1>8, <1>9, <2>2, <2>3, <2>4
<1>11. CASE ClientPublishFails(c) \/ ClientStop(c)
  BY <1>9, <1>11 DEF ClientPublishFails, ClientStop
<1> QED BY <1>2, <1>3, <1>4, <1>5, <1>6, <1>7, <1>10, <1>11 DEF ClientNext, ClientMain

\* A thread goes on with an honest state of its own.
LEMMA ThreadGoesOnHonest ==
  ASSUME ServerHonest, th \in [Handler -> Thread], HistoryGrows,
         UNCHANGED <<asked, markSent, answered, m_msgPtr>>,
         \A cmnd \in ran' : WasAsked(cmnd.path),
         NEW h \in Handler, NEW t, th' = [th EXCEPT ![h] = t],
         t.pc \in {"search", "exec", "reply"} => WasAsked(t.backUpPath.path),
         t.pc \in {"exec", "reply"} =>
           t.cmnd.host = t.subscriberIp /\ t.cmnd.path = t.backUpPath.path,
         t.pc = "reply" => t.cmnd \in ran'
  PROVE  ServerHonest'
<1>1. Honest(m_msgPtr)'
  BY HonestStays, HonestAfter DEF ServerHonest
<1>2. ThreadsAreHonest'
  <2>1. th'[h] = t /\ \A g \in Handler \ {h} : th'[g] = th[g]
    OBVIOUS
  <2> QED BY <2>1 DEF ServerHonest, ThreadsAreHonest, WasAsked, HistoryGrows
<1>3. AnswersAreEarned'
  BY HonestStays DEF ServerHonest, AnswersAreEarned, WasAsked, WasRun
<1>4. MarkIsKnown'
  BY DEF ServerHonest, MarkIsKnown, WasAsked
<1> QED BY <1>1, <1>2, <1>3, <1>4 DEF ServerHonest

LEMMA ThreadIsHonest ==
  ASSUME IInv, AnswersInv, KeyChannelInv, FewerAskNothing, UNCHANGED clientVars,
         NEW h \in Handler,
         \/ HandlerReadTopic(h) \/ HandlerReadPayload(h) \/ HandlerSearch(h)
         \/ HandlerExec(h) \/ HandlerReply(h)
  PROVE  AnswersInv'
<1>0. /\ NetTypeOK /\ NetHonest /\ ServerHonest /\ ThreadInv
      /\ th \in [Handler -> Thread] /\ th[h] \in Thread
      /\ m_msgPtr \in Message \cup {Null}
      /\ \A cmnd \in ran : WasAsked(cmnd.path)
  BY IInvParts, AnswersParts
     DEF ServerPart, ServerTypeOK, ServerHonest, AnswersAreEarned
<1>1. UNCHANGED <<asked, markSent, answered, m_msgPtr>>
  BY DEF clientVars, HandlerReadTopic, HandlerReadPayload, HandlerSearch,
     HandlerExec, HandlerReply
<1>2. ran' = ran => HistoryGrows
  BY <1>1 DEF HistoryGrows
<1>3. CASE HandlerReadTopic(h)
  <2> DEFINE t == [th[h] EXCEPT !.pc = "readPayload", !.subscriberIp = m_msgPtr.topic]
  <2>1. th' = [th EXCEPT ![h] = t] /\ ran' = ran /\ UNCHANGED netVars
    BY <1>0, <1>3 DEF HandlerReadTopic, brokerVars, netVars
  <2>2. t.pc = "readPayload"
    BY <1>0 DEF Thread
  <2> HIDE DEF t
  <2>3. ServerHonest'
    BY <1>0, <1>1, <1>2, <2>1, <2>2, ThreadGoesOnHonest
  <2> QED BY <1>0, <1>2, <2>1, <2>3, QuietIsHonest, AnswersParts
<1>4. CASE HandlerReadPayload(h)
  <2> DEFINE t == IF m_msgPtr.body.type = "backup"
                  THEN [th[h] EXCEPT !.pc = "search", !.backUpPath = m_msgPtr.body]
                  ELSE IdleThread
  <2>1. /\ th' = [th EXCEPT ![h] = t] /\ ran' = ran /\ UNCHANGED netVars
        /\ m_msgPtr # Null
    BY <1>0, <1>4 DEF HandlerReadPayload, brokerVars, netVars, ThreadInv
  <2>2. \/ t.pc = "idle"
        \/ t.pc = "search" /\ t.backUpPath = m_msgPtr.body
           /\ m_msgPtr.body.type = "backup"
    BY <1>0 DEF Thread, IdleThread
  <2> HIDE DEF t
  <2>3. t.pc = "search" => WasAsked(t.backUpPath.path)
    BY <1>0, <2>1, <2>2 DEF ServerHonest, Honest
  <2>4. ServerHonest'
    BY <1>0, <1>1, <1>2, <2>1, <2>2, <2>3, ThreadGoesOnHonest
  <2> QED BY <1>0, <1>2, <2>1, <2>4, QuietIsHonest, AnswersParts
<1>5. CASE HandlerSearch(h)
  <2>1. PICK i \in 1..Len(m_clients) :
          th' = [th EXCEPT ![h].pc = "exec",
                           ![h].cmnd = CopyCommand(th[h].subscriberIp,
                                         m_clients[i], th[h].backUpPath)]
    BY <1>5 DEF HandlerSearch
  <2> DEFINE cmnd == CopyCommand(th[h].subscriberIp, m_clients[i], th[h].backUpPath)
             t == [th[h] EXCEPT !.pc = "exec", !.cmnd = cmnd]
  <2>2. th' = [th EXCEPT ![h] = t] /\ ran' = ran /\ UNCHANGED netVars
    BY <1>0, <1>5, <2>1 DEF HandlerSearch, brokerVars, netVars
  <2>3. cmnd.host = th[h].subscriberIp /\ cmnd.path = th[h].backUpPath.path
    BY DEF CopyCommand
  <2> HIDE DEF cmnd
  <2>4. /\ t.pc = "exec" /\ t.cmnd = cmnd /\ t.subscriberIp = th[h].subscriberIp
        /\ t.backUpPath = th[h].backUpPath
    BY <1>0 DEF Thread
  <2> HIDE DEF t
  <2>5. WasAsked(t.backUpPath.path)
    BY <1>0, <1>5, <2>4 DEF HandlerSearch, ServerHonest, ThreadsAreHonest
  <2>6. ServerHonest'
    BY <1>0, <1>1, <1>2, <2>2, <2>3, <2>4, <2>5, ThreadGoesOnHonest
  <2> QED BY <1>0, <1>2, <2>2, <2>6, QuietIsHonest, AnswersParts
<1>6. CASE HandlerExec(h)
  <2>1. PICK ok \in BOOLEAN : th' = [th EXCEPT ![h].pc = "reply", ![h].ok = ok]
    BY <1>6 DEF HandlerExec
  <2> DEFINE t == [th[h] EXCEPT !.pc = "reply", !.ok = ok]
  <2>2. /\ th' = [th EXCEPT ![h] = t] /\ ran' = ran \cup {th[h].cmnd}
        /\ UNCHANGED netVars /\ th[h].pc = "exec"
    BY <1>0, <1>6, <2>1 DEF HandlerExec, brokerVars, netVars
  <2>3. /\ t.pc = "reply" /\ t.cmnd = th[h].cmnd
        /\ t.subscriberIp = th[h].subscriberIp /\ t.backUpPath = th[h].backUpPath
    BY <1>0 DEF Thread
  <2> HIDE DEF t
  <2>4. /\ WasAsked(th[h].backUpPath.path)
        /\ th[h].cmnd.host = th[h].subscriberIp
        /\ th[h].cmnd.path = th[h].backUpPath.path
    BY <1>0, <2>2 DEF ServerHonest, ThreadsAreHonest
  <2>5. HistoryGrows /\ \A cmnd \in ran' : WasAsked(cmnd.path)
    BY <1>0, <1>1, <2>2, <2>4 DEF HistoryGrows
  <2>6. ServerHonest'
    BY <1>0, <1>1, <2>2, <2>3, <2>4, <2>5, ThreadGoesOnHonest
  <2> QED BY <1>0, <2>2, <2>5, <2>6, QuietIsHonest, AnswersParts
<1>7. CASE HandlerReply(h)
  <2> DEFINE ip   == th[h].subscriberIp
             body == ReplyBody(th[h].backUpPath.path, th[h].ok)
             m    == [topic |-> ip, body |-> body, from |-> Server]
  <2>1. /\ th[h].pc = "reply" /\ th' = [th EXCEPT ![h] = IdleThread] /\ ran' = ran
        /\ Publish(Server, ip, body)
    BY <1>7 DEF HandlerReply
  <2>2. ip \in Client /\ th[h].backUpPath.path \in Path
    BY <1>0, <2>1 DEF ThreadInv
  <2>3. /\ body \in PrivateBody /\ body.type = "reply"
        /\ body.path = th[h].backUpPath.path
    BY <1>0, <2>2 DEF ReplyBody, PrivateBody, Thread
  <2>4. /\ th[h].cmnd \in ran' /\ th[h].cmnd.host = ip
        /\ th[h].cmnd.path = th[h].backUpPath.path
    BY <1>0, <2>1 DEF ServerHonest, ThreadsAreHonest
  <2>9. ~NothingAskedNext(ip)
    BY <2>1, <2>2 DEF FewerAskNothing, KeyChannelInv, ChannelUnused
  <2> HIDE DEF ip, body
  <2>5. m \in Message /\ HonestNext(m)
    BY <2>2, <2>3, <2>4, <2>9, PrivateMessage DEF HonestNext, Session
  <2>6. NetHonest'
    BY <1>0, <1>2, <2>1, <2>2, <2>5, PublishIsHonest DEF Session, Topic
  <2>7. IdleThread.pc = "idle"
    BY DEF IdleThread
  <2>8. ServerHonest'
    BY <1>0, <1>1, <1>2, <2>1, <2>7, ThreadGoesOnHonest
  <2> QED BY <2>6, <2>8, AnswersParts
<1> QED BY <1>3, <1>4, <1>5, <1>6, <1>7

\* A server that ends forgets its message and its threads, not what it has run.
LEMMA EndIsHonest ==
  ASSUME IInv, AnswersInv, FewerAskNothing, UNCHANGED clientVars, UNCHANGED ran,
         EndSession(Server, <<>>),
         \/ UNCHANGED <<m_msgPtr, th>>
         \/ m_msgPtr' = Null /\ th' = [h \in Handler |-> IdleThread]
  PROVE  AnswersInv'
<1> DEFINE none == <<>>
<1> USE DEF clientVars
<1>0. /\ NetTypeOK /\ NetHonest /\ ServerHonest /\ HistoryGrows /\ Server \in Session
      /\ EndSession(Server, none) /\ none \in Seq(Message \cup {Null}) /\ Len(none) = 0
  BY IInvParts, AnswersParts DEF HistoryGrows, Session
<1> HIDE DEF none
<1>1. \A i \in 1..Len(none) :
        none[i] = Null \/ \E j \in 1..Len(inbox[Server]) : none[i] = inbox[Server][j]
  BY <1>0
<1>2. NetHonest'
  BY <1>0, <1>1, EndSessionIsHonest
<1>3. CASE UNCHANGED <<m_msgPtr, th>>
  BY <1>0, <1>2, <1>3, ServerStaysHonest, AnswersParts DEF MarksAreSent
<1>4. CASE m_msgPtr' = Null /\ th' = [h \in Handler |-> IdleThread]
  <2>1. Honest(m_msgPtr)' /\ ThreadsAreHonest'
    BY <1>4 DEF Honest, ThreadsAreHonest, IdleThread
  <2>2. AnswersAreEarned' /\ MarkIsKnown'
    BY <1>0 DEF ServerHonest, AnswersAreEarned, MarkIsKnown, WasAsked, WasRun
  <2> QED BY <1>2, <2>1, <2>2, AnswersParts DEF ServerHonest
<1> QED BY <1>3, <1>4

LEMMA ServerIsHonest ==
  ASSUME IInv, AnswersInv, KeyChannelInv, FewerAskNothing, UNCHANGED clientVars, ServerNext
  PROVE  AnswersInv'
<1> USE DEF clientVars
<1>0. /\ NetTypeOK /\ NetHonest /\ ServerHonest
      /\ th \in [Handler -> Thread] /\ inbox[Server] \in Seq(Message \cup {Null})
      /\ Server \in Session /\ Public \in Topic /\ "nolocal" \in SubMode
  BY IInvParts, AnswersParts
     DEF ServerPart, ServerTypeOK, NetTypeOK, Session, Topic, SubMode
<1>1. ran' = ran => HistoryGrows
  BY DEF HistoryGrows
<1>2. ASSUME UNCHANGED <<m_msgPtr, th, ran>>, NetHonest' PROVE AnswersInv'
  BY <1>0, <1>1, <1>2, ServerStaysHonest, AnswersParts DEF MarksAreSent
<1>3. CASE ServerConnect \/ ServerCannotReadKey \/ ServerDisableCallbacks
           \/ ServerInstallCallbacks \/ ServerNewSubscriber \/ ServerRegister
           \/ ServerNewSubscriberFails
  <2>1. UNCHANGED <<netVars, m_msgPtr, th, ran>>
    BY <1>3 DEF ServerConnect, ServerCannotReadKey, ServerDisableCallbacks, ServerInstallCallbacks,
       ServerNewSubscriber, ServerRegister, ServerNewSubscriberFails, brokerVars,
       netVars
  <2> QED BY <1>0, <1>1, <1>2, <2>1, QuietIsHonest
<1>4. CASE ServerSetups
  <2>1. /\ Subscribe(Server, Public, "nolocal") \/ UNCHANGED netVars
        /\ UNCHANGED <<m_msgPtr, th, ran>>
    BY <1>4 DEF ServerSetups
  <2> QED BY <1>0, <1>1, <1>2, <2>1, SubscribeIsHonest, QuietIsHonest
<1>5. CASE ServerSubscribeClient
  <2>1. /\ Subscribe(Server, m_msgPtr.body.ip, "nolocal")
        /\ UNCHANGED <<m_msgPtr, th, ran>> /\ m_msgPtr.body.ip \in Topic
    BY <1>5, AnnouncedClient DEF ServerSubscribeClient, Serving, Topic
  <2> QED BY <1>0, <1>1, <1>2, <2>1, SubscribeIsHonest
<1>6. CASE ServerDiscardArrived
  <2>1. Take(Server) /\ UNCHANGED <<m_msgPtr, th, ran>>
    BY <1>6 DEF ServerDiscardArrived, serverVars
  <2> QED BY <1>0, <1>1, <1>2, <2>1, TakeIsHonest
<1>7. CASE ServerConsume
  <2>1. Take(Server) /\ m_msgPtr' = Head(inbox[Server]) /\ UNCHANGED <<th, ran>>
    BY <1>7 DEF ServerConsume
  <2>2. NetHonest' /\ HistoryGrows
    BY <1>0, <1>1, <2>1, TakeIsHonest
  <2>3. inbox[Server] # <<>>
    BY <2>1 DEF Take
  <2>4. Head(inbox[Server]) = inbox[Server][1] /\ 1 \in 1..Len(inbox[Server])
    BY <1>0, <2>3, TailElements
  <2>5. HonestNext(m_msgPtr')
    BY <1>0, <2>1, <2>2, <2>4, HonestStays DEF NetHonest
  <2>6. Honest(m_msgPtr)'
    BY <2>5, HonestAfter
  <2>7. ThreadsAreHonest' /\ AnswersAreEarned' /\ MarkIsKnown'
    BY <1>0, <2>1 DEF ServerHonest, ThreadsAreHonest, AnswersAreEarned, MarkIsKnown,
       WasAsked, WasRun
  <2> QED BY <2>2, <2>6, <2>7, AnswersParts DEF ServerHonest
<1>8. ASSUME NEW h \in Handler, ServerSpawn(h) PROVE AnswersInv'
  <2> DEFINE t == [IdleThread EXCEPT !.pc = "readTopic", !.job = m_msgPtr]
  <2>1. /\ th' = [th EXCEPT ![h] = t]
        /\ UNCHANGED <<netVars, m_msgPtr, ran>>
    BY <1>8 DEF ServerSpawn, brokerVars, netVars
  <2>2. t.pc = "readTopic"
    BY DEF IdleThread
  <2> HIDE DEF t
  <2>3. ServerHonest'
    BY <1>0, <1>1, <2>1, <2>2, ThreadGoesOnHonest DEF ServerHonest, AnswersAreEarned
  <2> QED BY <1>0, <1>1, <2>1, <2>3, QuietIsHonest, AnswersParts
<1>9. CASE ServerPublishKey
  <2> DEFINE ip == m_msgPtr.body.ip
             m  == [topic |-> ip, body |-> m_publicKey, from |-> Server]
  <2>1. /\ Publish(Server, ip, m_publicKey) /\ UNCHANGED <<m_msgPtr, th, ran>>
        /\ ip \in Client
    BY <1>9, AnnouncedClient DEF ServerPublishKey, Serving
  <2>2. /\ m_publicKey \in PrivateBody
        /\ m_publicKey.type \notin {"backup", "reply", "text"}
        /\ m_publicKey \in {KeyBody, EmptyBody}
    BY IInvParts DEF ServerPart, ServerTypeOK, PrivateBody, KeyBody, EmptyBody
  <2> HIDE DEF ip
  <2>3. m \in Message /\ HonestNext(m)
    BY <2>1, <2>2, PrivateMessage DEF HonestNext, Session
  <2> QED BY <1>0, <1>1, <1>2, <2>1, <2>3, PublishIsHonest DEF Topic
<1>10. ASSUME NEW h \in Handler, HandlerStep(h), ~HandlerSearchMisses(h)
       PROVE  AnswersInv'
  BY <1>10, ThreadIsHonest DEF HandlerStep
<1>11. CASE ServerExit
  BY <1>11, EndIsHonest DEF ServerExit
<1>12. CASE ServerLinkLost
  BY <1>11, <1>12, EndIsHonest DEF ServerLinkLost
<1>13. CASE ServerFailure
  BY <1>3, <1>6, <1>11, <1>12, <1>13 DEF ServerFailure, HandlerReadRaces,
     HandlerSearchRaces, HandlerThrows
<1>14. CASE ServerMain
  BY <1>3, <1>4, <1>5, <1>7, <1>8, <1>9, <1>14 DEF ServerMain
<1> QED BY <1>3, <1>10, <1>11, <1>13, <1>14 DEF ServerNext, HandlerSearchMisses

\* Whatever waits anywhere says what happened, and on the channel of a client that
\* has asked nothing it is the key.
THEOREM MessagesStayHonest == Spec => []AnswersInv
<1>1. Init => AnswersInv
  <2> SUFFICES ASSUME Init PROVE AnswersInv
    OBVIOUS
  <2>1. /\ \A t \in Topic : retained[t] = Null
        /\ \A s \in Session : inbox[s] = <<>> /\ \A t \in Topic : sub[s][t] = "none"
    BY DEF Init, BrokerInit
  <2>2. NetHonest
    BY <2>1 DEF NetHonest, Honest, OwnChannelOnly, RetainedTopicInv, Session
  <2>3. ServerHonest
    BY DEF Init, ServerInit, ClientInit, ServerHonest, Honest, ThreadsAreHonest,
       IdleThread, AnswersAreEarned, MarkIsKnown, WasAsked
  <2> QED BY <2>2, <2>3, AnswersParts
<1>2. IInv /\ KeyChannelInv /\ AnswersInv /\ [Next]_vars => AnswersInv'
  <2> SUFFICES ASSUME IInv, KeyChannelInv, AnswersInv, [Next]_vars PROVE AnswersInv'
    OBVIOUS
  <2>1. CASE UNCHANGED vars
    BY <2>1 DEF vars, brokerVars, serverVars, clientVars, AnswersInv,
       AnswersAreEarned, MarkIsKnown, MessagesAreHonest, ThreadsAreHonest,
       OwnChannelOnly, RetainedTopicInv, Honest, NothingAsked, FirstRuns, WasAsked,
       WasRun
  <2> QED BY <2>1, AskingLasts, ClientIsHonest, ServerIsHonest DEF Next
<1> QED BY <1>1, <1>2, Invariance, KeyChannelHolds, PTL DEF Spec

\* Nothing is copied that nobody asked for, and no client is told of a copy that
\* was not tried on its host: for any number of clients, threads, restarts and
\* failures, and in spite of the races on m_msgPtr.
THEOREM AnswersEarned == Spec => []AnswersAreEarned
<1>1. AnswersInv => AnswersAreEarned
  BY DEF AnswersInv
<1> QED BY <1>1, MessagesStayHonest, PTL

-----------------------------------------------------------------------------
(* What a client takes for the key is the key.                             *)

\* Who meets the messages of an earlier run still does, and what was sent stays
\* sent.
LEMMA MistakableStays ==
  ASSUME IInv, KeyChannelInv, Next, NEW c \in Client, Mistakable(c)
  PROVE  Mistakable(c)'
<1>0. ClientTypeOK
  BY IInvParts DEF ClientPart
<1>1. CASE ServerNext /\ UNCHANGED clientVars
  <2>1. serverRuns \in Nat /\ serverRuns' \in {serverRuns, serverRuns + 1}
    BY <1>1, ServerStarts DEF KeyChannelInv
  <2> QED BY <1>1, <2>1 DEF clientVars, Mistakable, FirstRuns
<1>2. ASSUME NEW d \in Client, ClientNext(d), UNCHANGED serverVars
      PROVE  Mistakable(c)'
  <2>1. markSent' = markSent \/ \E line \in Lines :
          markSent' = (markSent \/ HasMark(line))
    BY <1>2 DEF ClientNext, ClientMain, ClientConnect, ClientPublish,
       ClientPublishFails, ClientStartConsuming, ClientSubscribe, ClientWaitKey,
       ClientReceive, ClientRequest, ClientLinkLost, ClientStop, Goto
  <2>2. clientRuns' = clientRuns
        \/ clientRuns' = [clientRuns EXCEPT ![d] = @ + 1]
    BY <1>2 DEF ClientNext, ClientMain, ClientConnect, ClientPublish,
       ClientPublishFails, ClientStartConsuming, ClientSubscribe, ClientWaitKey,
       ClientReceive, ClientRequest, ClientLinkLost, ClientStop, Goto
  <2>3. clientRuns[c] \in Nat /\ clientRuns'[c] \in {clientRuns[c], clientRuns[c] + 1}
    BY <1>0, <2>2 DEF ClientTypeOK
  <2>4. serverRuns' = serverRuns
    BY <1>2 DEF serverVars
  <2>5. ~FirstRuns(c)'
    <3>1. serverRuns' \in Nat /\ ~(serverRuns <= 1 /\ clientRuns[c] <= 1)
      BY <1>0, <2>4, IInvParts DEF Mistakable, FirstRuns, ServerPart, ServerTypeOK
    <3>2. ~(serverRuns' <= 1 /\ clientRuns'[c] <= 1)
      BY <2>3, <2>4, <3>1
    <3> QED BY <3>2 DEF FirstRuns
  <2>6. markSent'
    BY <2>1 DEF Mistakable
  <2> QED BY <2>5, <2>6 DEF Mistakable
<1> QED BY <1>1, <1>2 DEF Next

\* A message with the mark is the key, or the client met the messages of earlier
\* runs after some line with the mark was sent.
LEMMA MarkedIsKey ==
  ASSUME IInv, KeyChannelInv, AnswersInv, NEW c \in Client, cpc[c] = "waitKey",
         NEW msg \in Message \cup {Null}, IsKeyMsg(c, msg), Honest(msg)
  PROVE  msg.body = KeyBody \/ Mistakable(c)
<1>1. /\ msg # Null /\ msg.topic = c /\ msg.body \in PrivateBody
      /\ HasMark(msg.body)
  BY KeyMsgIsPrivate DEF IsKeyMsg
<1>2. CASE FirstRuns(c)
  <2>1. msg.body \in {KeyBody, EmptyBody}
    BY <1>1, <1>2 DEF NothingAsked, Honest
  <2> QED BY <1>1, <2>1 DEF HasMark, EmptyBody
<1>3. CASE ~FirstRuns(c)
  <2>1. CASE msg.body.type = "key"
    BY <1>1, <2>1 DEF PrivateBody, KeyBody
  <2>2. CASE msg.body.type = "text" /\ msg.body.marked
    BY <1>1, <1>3, <2>2 DEF Honest, Mistakable
  <2>3. CASE msg.body.type \in {"backup", "reply"} /\ msg.body.path \in MarkedPath
    <3>1. WasAsked(msg.body.path)
      BY <1>1, <2>3 DEF Honest, WasRun, AnswersInv, AnswersAreEarned
    <3> QED BY <1>3, <2>3, <3>1 DEF AnswersInv, MarkIsKnown, Mistakable
  <2> QED BY <1>1, <2>1, <2>2, <2>3 DEF HasMark
<1> QED BY <1>2, <1>3

LEMMA ConnectKeepsTaken ==
  ASSUME IInv, TakenInv, NEW c \in Client, ClientConnect(c),
         \A d \in Client : Mistakable(d) => Mistakable(d)'
  PROVE  TakenInv'
<1>1. /\ authorizedKeys' = authorizedKeys
      /\ m_serverPublicKey' = [m_serverPublicKey EXCEPT ![c] = Null]
  BY DEF ClientConnect
<1>2. \A d \in Client : m_serverPublicKey'[d] \in {m_serverPublicKey[d], Null}
  BY <1>1, IInvParts DEF ClientPart, ClientTypeOK
<1>3. \A f \in Client \X Word : f[1] \in Client
  OBVIOUS
<1> QED BY <1>1, <1>2, <1>3 DEF TakenInv, OnlyKeysInstalled

LEMMA WaitKeyKeepsTaken ==
  ASSUME IInv, KeyChannelInv, AnswersInv, TakenInv, NEW c \in Client,
         ClientWaitKey(c), \A d \in Client : Mistakable(d) => Mistakable(d)'
  PROVE  TakenInv'
<1> DEFINE msg == Head(inbox[c])
<1>0. /\ ClientTypeOK /\ NetTypeOK /\ cpc[c] = "waitKey" /\ Take(c)
      /\ \A f \in Client \X Word : f[1] \in Client
  BY IInvParts DEF ClientPart, ClientWaitKey
<1>1. inbox[c] # <<>> /\ inbox[c] \in Seq(Message \cup {Null}) /\ c \in Session
  BY <1>0 DEF Take, NetTypeOK, Session
<1>2. msg \in Message \cup {Null} /\ msg = inbox[c][1] /\ 1 \in 1..Len(inbox[c])
  BY <1>1, TailElements
<1>3. Honest(msg)
  BY <1>1, <1>2 DEF AnswersInv, MessagesAreHonest
<1>4. CASE ~IsKeyMsg(c, msg)
  <2>1. UNCHANGED <<m_serverPublicKey, authorizedKeys>>
    BY <1>4 DEF ClientWaitKey
  <2> QED BY <1>0, <2>1 DEF TakenInv, OnlyKeysInstalled
<1>5. CASE IsKeyMsg(c, msg)
  <2> DEFINE text == msg.body
             f    == KeyFile(c)
  <2>1. text = KeyBody \/ Mistakable(c)'
    BY <1>0, <1>2, <1>3, <1>5, MarkedIsKey
  <2>2. text \in PrivateBody
    BY <1>2, <1>5, KeyMsgIsPrivate
  <2>3. HandlePubKeyMsg(c, text)
    BY <1>5 DEF ClientWaitKey
  <2> HIDE DEF msg, text, f
  <2>4. /\ m_serverPublicKey'[c] = text
        /\ \A d \in Client \ {c} : m_serverPublicKey'[d] = m_serverPublicKey[d]
        /\ \/ authorizedKeys' = authorizedKeys
           \/ /\ f \in Client \X Word
              /\ authorizedKeys' = [authorizedKeys EXCEPT ![f] = Append(@, text)]
    BY <1>0, <2>2, <2>3, KeyHandled DEF f
  <2>5. \A d \in Client :
          m_serverPublicKey'[d] \in {Null, KeyBody} \/ Mistakable(d)'
    BY <2>1, <2>4 DEF TakenInv
  <2>6. CASE authorizedKeys' = authorizedKeys
    BY <1>0, <2>5, <2>6 DEF TakenInv, OnlyKeysInstalled
  <2>7. CASE /\ f \in Client \X Word
             /\ authorizedKeys' = [authorizedKeys EXCEPT ![f] = Append(@, text)]
    <3>1. \A g \in (Client \X Word) \ {f} : authorizedKeys'[g] = authorizedKeys[g]
      BY <1>0, <2>7 DEF ClientTypeOK
    <3>2. /\ authorizedKeys[f] \in Seq(PrivateBody)
          /\ authorizedKeys'[f] = Append(authorizedKeys[f], text)
      BY <1>0, <2>7 DEF ClientTypeOK
    <3>3. f[1] = c
      BY DEF f, KeyFile
    <3>4. \A i \in 1..Len(authorizedKeys'[f]) :
            \/ authorizedKeys'[f][i] = text
            \/ /\ i \in 1..Len(authorizedKeys[f])
               /\ authorizedKeys'[f][i] = authorizedKeys[f][i]
      BY <2>2, <3>2, AppendElements
    <3>5. OnlyKeysInstalled'
      BY <1>0, <2>1, <2>7, <3>1, <3>3, <3>4 DEF TakenInv, OnlyKeysInstalled
    <3> QED BY <2>5, <3>5 DEF TakenInv
  <2> QED BY <2>4, <2>6, <2>7
<1> QED BY <1>4, <1>5

\* What clients have taken for the key, and what they have added to the files, is
\* the key, but where an earlier run's line with the mark was taken for it.
THEOREM TakenAreKeys == Spec => []TakenInv
<1>1. Init => TakenInv
  BY DEF Init, ClientInit, TakenInv, OnlyKeysInstalled
<1>2. IInv /\ KeyChannelInv /\ AnswersInv /\ TakenInv /\ [Next]_vars => TakenInv'
  <2> SUFFICES ASSUME IInv, KeyChannelInv, AnswersInv, TakenInv, [Next]_vars
               PROVE  TakenInv'
    OBVIOUS
  <2>0. \A f \in Client \X Word : f[1] \in Client
    OBVIOUS
  <2>1. CASE UNCHANGED vars
    BY <2>1 DEF vars, clientVars, serverVars, TakenInv, OnlyKeysInstalled, Mistakable,
       FirstRuns
  <2>2. CASE Next
    <3>1. \A d \in Client : Mistakable(d) => Mistakable(d)'
      BY <2>2, MistakableStays
    <3>2. CASE \E c \in Client : ClientConnect(c) \/ ClientWaitKey(c)
      BY <3>1, <3>2, ConnectKeepsTaken, WaitKeyKeepsTaken
    <3>3. CASE ~ \E c \in Client : ClientConnect(c) \/ ClientWaitKey(c)
      BY <2>0, <2>2, <3>1, <3>3, KeyVarsKept DEF keyVars, TakenInv, OnlyKeysInstalled
    <3> QED BY <3>2, <3>3
  <2> QED BY <2>1, <2>2
<1> QED BY <1>1, <1>2, Invariance, KeyChannelHolds, MessagesStayHonest, PTL DEF Spec

\* A client that works while connected has the key, unless it took an earlier
\* run's line with the mark for it: for any interleaving of starts, keys,
\* requests, losses and restarts.
THEOREM WorkFollowsKey == Spec => []ConnectedWorkersHaveKey
<1>1. IInv /\ TakenInv => ConnectedWorkersHaveKey
  BY DEF IInv, ClientSessionInv, TakenInv, ConnectedWorkersHaveKey
<1> QED BY <1>1, Invariance, TakenAreKeys, PTL

\* Nothing but the key gets into an authorized_keys file, with the same exception.
THEOREM OnlyKeysAreInstalled == Spec => []OnlyKeysInstalled
<1>1. TakenInv => OnlyKeysInstalled
  BY DEF TakenInv
<1> QED BY <1>1, TakenAreKeys, PTL

-----------------------------------------------------------------------------
(* A request is lost only when it is replaced.                             *)

\* Until something fails, every client is connected and, from the wait for the
\* key on, subscribed to its channel.
Subscribed(c) ==
  cpc[c] # "off" =>
    /\ clink[c]
    /\ cpc[c] \in {"waitKey", "ready"} => sub[c][c] = "local"

SubscribedInv == faults = 0 => \A c \in Client : Subscribed(c)

LEMMA ClientStaysSubscribed ==
  ASSUME IInv, RetainedTopicInv, NEW d \in Client, ClientNext(d), ~Fault,
         \A c \in Client : Subscribed(c)
  PROVE  \A c \in Client : Subscribed(c)'
<1>0. /\ NetTypeOK /\ ClientTypeOK /\ d \in Session /\ d \in Topic
  BY IInvParts DEF ClientPart, Session, Topic
<1>1. ASSUME NEW c \in Client, c # d PROVE Subscribed(c)'
  <2>1. sub'[c] = sub[c]
    BY <1>1, ClientEffect DEF OthersHear, Session
  <2>2. cpc'[c] = cpc[c] /\ clink'[c] = clink[c]
    BY <1>0, <1>1 DEF ClientTypeOK, ClientNext, ClientMain, ClientConnect, ClientPublish,
       ClientPublishFails, ClientStartConsuming, ClientSubscribe, ClientWaitKey,
       ClientReceive, ClientRequest, ClientLinkLost, ClientStop, Goto
  <2> QED BY <2>1, <2>2 DEF Subscribed
<1>2. Subscribed(d)'
  <2>1. CASE ClientConnect(d)
    BY <1>0, <2>1 DEF ClientConnect, ClientTypeOK, Subscribed
  <2>2. CASE ClientPublish(d) \/ ClientStartConsuming(d)
    <3>1. clink' = clink /\ cpc'[d] \in {"consume", "listen"} /\ cpc[d] # "off"
      BY <1>0, <2>2 DEF ClientPublish, ClientStartConsuming, Goto, ClientTypeOK
    <3> QED BY <3>1 DEF Subscribed
  <2>3. CASE ClientPublishFails(d) \/ ClientStop(d)
    <3>1. cpc'[d] = "off"
      BY <1>0, <2>3 DEF ClientPublishFails, ClientStop, ClientTypeOK
    <3> QED BY <3>1 DEF Subscribed
  <2>4. CASE ClientSubscribe(d)
    <3>1. cpc[d] = "listen" /\ clink[d] /\ clink' = clink
      BY <2>4 DEF ClientSubscribe, Goto, Subscribed
    <3>2. Subscribe(d, d, "local")
      BY <2>4, <3>1 DEF ClientSubscribe
    <3>3. sub'[d][d] = "local"
      BY <1>0, <3>2 DEF Subscribe, NetTypeOK
    <3> QED BY <3>1, <3>3 DEF Subscribed
  <2>5. CASE ClientWaitKey(d) \/ ClientReceive(d) \/ ClientRequest(d)
    <3>1. sub' = sub /\ clink' = clink
      BY <2>5 DEF ClientWaitKey, ClientReceive, ClientRequest, Take, Publish, netVars
    <3>2. /\ cpc[d] # "off"
          /\ cpc'[d] \in {"waitKey", "ready"} => cpc[d] \in {"waitKey", "ready"}
      BY <1>0, <2>5 DEF ClientWaitKey, ClientReceive, ClientRequest, ClientTypeOK
    <3> QED BY <3>1, <3>2 DEF Subscribed
  <2>6. ~ClientLinkLost(d)
    BY DEF ClientLinkLost
  <2> QED BY <2>1, <2>2, <2>3, <2>4, <2>5, <2>6 DEF ClientNext, ClientMain
<1> QED BY <1>1, <1>2

\* The server changes its own subscriptions only.
LEMMA ServerLeavesSubscribed ==
  ASSUME IInv, ServerNext, UNCHANGED clientVars, NEW c \in Client, Subscribed(c)
  PROVE  Subscribed(c)'
<1> SUFFICES sub'[c] = sub[c]
  BY DEF clientVars, Subscribed
<1>0. NetTypeOK /\ c # Server /\ c \in Session /\ Server \in Session
  BY IInvParts, NamesAreDistinct DEF Session
<1>1. ASSUME NEW t, NEW mode, Subscribe(Server, t, mode) PROVE sub'[c] = sub[c]
  BY <1>0, <1>1 DEF Subscribe, NetTypeOK
<1>2. ASSUME NEW rest, EndSession(Server, rest) PROVE sub'[c] = sub[c]
  BY <1>0, <1>2 DEF EndSession, NetTypeOK
<1>3. CASE ServerMain
  BY <1>1, <1>3 DEF ServerMain, ServerSetups, ServerDisableCallbacks,
     ServerInstallCallbacks, ServerConsume, ServerNewSubscriber, ServerSpawn,
     ServerSubscribeClient, ServerPublishKey, ServerRegister, Take, Publish,
     brokerVars, netVars
<1>4. ASSUME NEW h \in Handler, HandlerStep(h) PROVE sub'[c] = sub[c]
  BY <1>2, <1>4 DEF HandlerStep, HandlerReadTopic, HandlerReadPayload, HandlerSearch,
     HandlerSearchMisses, HandlerExec, HandlerReply, ServerExit, Publish, brokerVars
<1>5. CASE ServerFailure
  BY <1>2, <1>5 DEF ServerFailure, ServerDiscardArrived, ServerNewSubscriberFails,
     ServerLinkLost, HandlerReadRaces, HandlerSearchRaces, HandlerThrows,
     ServerExit, Take, netVars
<1>6. CASE ServerConnect \/ ServerCannotReadKey
  BY <1>6 DEF ServerConnect, ServerCannotReadKey, brokerVars, netVars
<1> QED BY <1>3, <1>4, <1>5, <1>6 DEF ServerNext

LEMMA ClientsAreSubscribed == Spec => []SubscribedInv
<1>1. Init => SubscribedInv
  BY DEF Init, ClientInit, SubscribedInv, Subscribed
<1>2. IInv /\ RegistrationInv /\ SubscribedInv /\ [Next]_vars => SubscribedInv'
  <2> SUFFICES ASSUME IInv, RegistrationInv, SubscribedInv, [Next]_vars, faults' = 0
               PROVE  \A c \in Client : Subscribed(c)'
    BY DEF SubscribedInv
  <2>0. faults \in Nat
    BY IInvParts
  <2>1. CASE UNCHANGED vars
    BY <2>1 DEF vars, brokerVars, clientVars, SubscribedInv, Subscribed
  <2>2. CASE Next
    <3>1. faults = 0 /\ ~Fault
      BY <2>0, <2>2, FaultsGrow DEF Fault
    <3>2. RetainedTopicInv /\ \A c \in Client : Subscribed(c)
      BY <3>1 DEF RegistrationInv, SubscribedInv
    <3> QED BY <2>2, <3>1, <3>2, ClientStaysSubscribed, ServerLeavesSubscribed
            DEF Next
  <2> QED BY <2>1, <2>2
<1> QED BY <1>1, <1>2, Invariance, RegistrationHolds, PTL DEF Spec

\* The server, or a reply, has the request still.
Kept(c, path) == RequestInHand(c, path) \/ ReplyOnItsWay(c, path)

IsQueued(c, path) ==
  \E i \in 1..Len(inbox[Server]) : IsRequest(inbox[Server][i], c, path)

LEMMA QueuedStays ==
  ASSUME NetTypeOK, NEW c, NEW path, IsQueued(c, path), Grows(Server)
  PROVE  IsQueued(c, path)'
  BY GrowsKeeps DEF Session, IsQueued, IsRequest

LEMMA ReplyStays ==
  ASSUME NetTypeOK, NEW c \in Client, NEW path, ReplyOnItsWay(c, path), Grows(c)
  PROVE  ReplyOnItsWay(c, path)'
  BY GrowsKeeps DEF Session, ReplyOnItsWay

\* A step that takes nothing from the server's queue and from m_msgPtr, and
\* after which the threads are as far with the request as before, or further.
LEMMA InHandStays ==
  ASSUME NetTypeOK, NEW c \in Client, NEW path, RequestInHand(c, path),
         Grows(Server), m_msgPtr' = m_msgPtr,
         spc = "assign" /\ IsRequest(m_msgPtr, c, path) => spc' = "assign",
         \A h \in Handler :
           /\ WorksFor(h, c, path) => WorksFor(h, c, path)'
           /\ IsRequest(m_msgPtr, c, path) /\ StillReads(h, c) =>
                StillReads(h, c)' \/ WorksFor(h, c, path)'
  PROVE  RequestInHand(c, path)'
<1>1. CASE IsQueued(c, path)
  BY <1>1, QueuedStays DEF IsQueued, RequestInHand
<1>2. IsRequest(m_msgPtr, c, path)' <=> IsRequest(m_msgPtr, c, path)
  BY DEF IsRequest
<1>3. CASE IsRequest(m_msgPtr, c, path) /\ spc = "assign"
  BY <1>2, <1>3 DEF RequestInHand
<1>4. CASE BeingRead(c, path)
  BY <1>2, <1>4 DEF BeingRead, RequestInHand
<1>5. CASE \E h \in Handler : WorksFor(h, c, path)
  BY <1>5 DEF RequestInHand
<1> QED BY <1>1, <1>3, <1>4, <1>5 DEF IsQueued, RequestInHand

\* A step of the others that leaves the server's own state alone.
LEMMA ServerLeftAlone ==
  ASSUME NetTypeOK, NEW c \in Client, NEW path, RequestInHand(c, path),
         Grows(Server), UNCHANGED <<m_msgPtr, th, spc>>
  PROVE  RequestInHand(c, path)'
  BY InHandStays DEF StillReads, WorksFor

\* The steps of the clients.
LEMMA ClientKeepsRequest ==
  ASSUME IInv, RetainedTopicInv, NEW d \in Client, ClientNext(d), ~Fault,
         UNCHANGED serverVars, NEW c \in Client, NEW path \in Path,
         Kept(c, path), cpc[c] = "ready", cpc'[c] = "ready"
  PROVE  Kept(c, path)' \/ path \in answered'[c]
<1>0. /\ NetTypeOK /\ ClientTypeOK /\ Server \in Session \ {d} /\ c \in Session
      /\ c \in Topic
  BY IInvParts, NamesAreDistinct DEF ClientPart, Session, Topic
<1>1. OthersHear(d)
  BY ClientEffect
<1>2. CASE RequestInHand(c, path)
  <2>1. Grows(Server)
    BY <1>0, <1>1 DEF OthersHear, Grows
  <2> QED BY <1>0, <1>2, <2>1, ServerLeftAlone DEF serverVars, Kept
<1>3. CASE ReplyOnItsWay(c, path)
  <2>1. CASE d # c \/ ClientRequest(d)
    <3>1. d # c => Grows(c)
      BY <1>0, <1>1 DEF OthersHear, Grows
    <3>2. ASSUME d = c, ClientRequest(d) PROVE Grows(c)
      <4>1. UNCHANGED netVars => Grows(c)
        BY DEF netVars, Grows
      <4>2. ASSUME NEW line \in Lines, Publish(c, c, line) PROVE Grows(c)
        <5>1. line \in PrivateBody
          BY TypedLine
        <5>2. [topic |-> c, body |-> line, from |-> c] \in Message
          BY <1>0, <5>1, PrivateMessage
        <5> QED BY <1>0, <4>2, <5>2, PublishHeard DEF Grows
      <4> QED BY <3>2, <4>1, <4>2 DEF ClientRequest, netVars
    <3> QED BY <1>0, <1>3, <2>1, <3>1, <3>2, ReplyStays DEF Kept
  <2>2. CASE d = c /\ ClientReceive(d)
    <3>1. /\ inbox[c] # <<>> /\ inbox'[c] = Tail(inbox[c])
          /\ inbox[c] \in Seq(Message \cup {Null})
      BY <1>0, <2>2, TakeEffect DEF ClientReceive, NetTypeOK
    <3>2. PICK i \in 1..Len(inbox[c]) :
            /\ inbox[c][i] # Null
            /\ inbox[c][i].body.type = "reply" /\ inbox[c][i].body.path = path
      BY <1>3 DEF ReplyOnItsWay
    <3>3. CASE i = 1
      <4>1. Head(inbox[c]) = inbox[c][i]
        BY <3>1, <3>3, TailElements
      <4> QED BY <1>0, <2>2, <3>2, <4>1 DEF ClientReceive, ClientTypeOK
    <3>4. CASE i # 1
      <4>1. i - 1 \in 1..Len(Tail(inbox[c])) /\ Tail(inbox[c])[i - 1] = inbox[c][i]
        BY <3>1, <3>4
      <4> QED BY <3>1, <3>2, <4>1 DEF ReplyOnItsWay, Kept
    <3> QED BY <3>3, <3>4
  <2>3. d = c => ClientRequest(d) \/ ClientReceive(d)
    BY <1>0 DEF ClientNext, ClientMain, ClientConnect, ClientPublish,
       ClientPublishFails, ClientStartConsuming, ClientSubscribe, ClientWaitKey,
       ClientLinkLost, ClientStop, ClientTypeOK
  <2> QED BY <2>1, <2>2, <2>3
<1> QED BY <1>2, <1>3 DEF Kept

\* A thread that reads, searches or copies gets on with the request.
LEMMA ThreadKeepsRequest ==
  ASSUME IInv, NEW h \in Handler, NEW c \in Client, NEW path \in Path,
         HandlerReadTopic(h) \/ HandlerReadPayload(h) \/ HandlerSearch(h)
           \/ HandlerExec(h),
         RequestInHand(c, path)
  PROVE  RequestInHand(c, path)'
<1>0. th \in [Handler -> Thread] /\ th[h] \in Thread /\ NetTypeOK /\ c # Null
  BY IInvParts, NullIsNothingElse DEF ServerPart, ServerTypeOK, Topic
<1>1. UNCHANGED <<inbox, m_msgPtr, spc>>
  BY DEF HandlerReadTopic, HandlerReadPayload, HandlerSearch, HandlerExec, brokerVars
<1>2. \A g \in Handler \ {h} : th'[g] = th[g]
  BY ThreadLearns
<1>3. /\ WorksFor(h, c, path) => WorksFor(h, c, path)'
      /\ IsRequest(m_msgPtr, c, path) /\ StillReads(h, c) =>
           StillReads(h, c)' \/ WorksFor(h, c, path)'
  <2>1. CASE HandlerReadTopic(h)
    <3>1. /\ th[h].pc = "readTopic" /\ th'[h].pc = "readPayload"
          /\ th'[h].subscriberIp = m_msgPtr.topic
      BY <1>0, <2>1 DEF HandlerReadTopic, Thread
    <3> QED BY <3>1 DEF WorksFor, StillReads, IsRequest
  <2>2. CASE HandlerReadPayload(h)
    <3>1. th[h].pc = "readPayload"
      BY <2>2 DEF HandlerReadPayload
    <3>2. ASSUME IsRequest(m_msgPtr, c, path)
          PROVE  /\ th'[h].pc = "search" /\ th'[h].subscriberIp = th[h].subscriberIp
                 /\ th'[h].backUpPath = BackupBody(path)
      <4>1. m_msgPtr.body = BackupBody(path) /\ m_msgPtr.body.type = "backup"
        BY <3>2 DEF IsRequest, BackupBody
      <4> QED BY <1>0, <2>2, <4>1 DEF HandlerReadPayload, Thread
    <3> QED BY <3>1, <3>2 DEF WorksFor, StillReads
  <2>3. CASE HandlerSearch(h)
    <3>1. PICK i \in 1..Len(m_clients) :
            th' = [th EXCEPT ![h].pc = "exec",
                             ![h].cmnd = CopyCommand(th[h].subscriberIp,
                                           m_clients[i], th[h].backUpPath)]
      BY <2>3 DEF HandlerSearch
    <3>2. th'[h] = [th[h] EXCEPT !.pc = "exec",
                                 !.cmnd = CopyCommand(th[h].subscriberIp,
                                            m_clients[i], th[h].backUpPath)]
      BY <1>0, <3>1
    <3>3. /\ th[h].pc = "search" /\ th'[h].pc = "exec"
          /\ th'[h].subscriberIp = th[h].subscriberIp
          /\ th'[h].backUpPath = th[h].backUpPath
      BY <1>0, <2>3, <3>2 DEF HandlerSearch, Thread
    <3> QED BY <3>3 DEF WorksFor, StillReads
  <2>4. CASE HandlerExec(h)
    <3>1. PICK ok \in BOOLEAN : th' = [th EXCEPT ![h].pc = "reply", ![h].ok = ok]
      BY <2>4 DEF HandlerExec
    <3>2. th'[h] = [th[h] EXCEPT !.pc = "reply", !.ok = ok]
      BY <1>0, <3>1
    <3>3. /\ th[h].pc = "exec" /\ th'[h].pc = "reply"
          /\ th'[h].subscriberIp = th[h].subscriberIp
          /\ th'[h].backUpPath = th[h].backUpPath
      BY <1>0, <2>4, <3>2 DEF HandlerExec, Thread
    <3> QED BY <3>3 DEF WorksFor, StillReads
  <2> QED BY <2>1, <2>2, <2>3, <2>4
<1>4. ASSUME NEW g \in Handler
      PROVE  /\ WorksFor(g, c, path) => WorksFor(g, c, path)'
             /\ IsRequest(m_msgPtr, c, path) /\ StillReads(g, c) =>
                  StillReads(g, c)' \/ WorksFor(g, c, path)'
  BY <1>2, <1>3 DEF WorksFor, StillReads
<1> QED BY <1>0, <1>1, <1>4, InHandStays DEF Grows

\* A thread that replies does so on the channel of its client, which hears it.
LEMMA ReplyKeepsRequest ==
  ASSUME IInv, NEW h \in Handler, HandlerReply(h), NEW c \in Client,
         NEW path \in Path, Kept(c, path), sub[c][c] = "local"
  PROVE  Kept(c, path)'
<1>0. th \in [Handler -> Thread] /\ th[h] \in Thread /\ NetTypeOK /\ ThreadInv
  BY IInvParts DEF ServerPart, ServerTypeOK
<1> DEFINE d == th[h].subscriberIp
           body == ReplyBody(th[h].backUpPath.path, th[h].ok)
<1>1. /\ th[h].pc = "reply" /\ th' = [th EXCEPT ![h] = IdleThread]
      /\ Publish(Server, d, body) /\ UNCHANGED <<m_msgPtr, spc>>
  BY DEF HandlerReply
<1>2. d \in Client /\ body \in PrivateBody
  <2>1. d \in Client /\ th[h].backUpPath \in [type : {"backup"}, path : Path]
    BY <1>0, <1>1 DEF ThreadInv
  <2> QED BY <1>0, <2>1 DEF ReplyBody, PrivateBody, Thread
<1>3. /\ inbox'[Server] = inbox[Server]
      /\ Grows(c)
  BY <1>1, <1>2, ServerPublishes DEF Grows
<1>4. CASE ReplyOnItsWay(c, path)
  BY <1>0, <1>3, <1>4, ReplyStays DEF Kept
<1>5. CASE WorksFor(h, c, path)
  <2> DEFINE m == [topic |-> c, body |-> body, from |-> Server]
  <2>1. d = c /\ th[h].backUpPath.path = path
    BY <1>5 DEF WorksFor, BackupBody
  <2>2. body.type = "reply" /\ body.path = path
    BY <2>1 DEF ReplyBody
  <2>3. inbox'[c] = Append(inbox[c], m)
    BY <1>1, <2>1 DEF Publish, Accepts, Session
  <2>4. m \in Message
    BY <1>2, PrivateMessage DEF Session
  <2>5. m # Null /\ inbox[c] \in Seq(Message \cup {Null})
    BY <1>0, <2>4, NullIsNothingElse DEF NetTypeOK, Session
  <2>6. m.body = body
    OBVIOUS
  <2> HIDE DEF m, body
  <2>7. Len(inbox[c]) + 1 \in 1..Len(inbox'[c]) /\ inbox'[c][Len(inbox[c]) + 1] = m
    BY <2>3, <2>4, <2>5, AppendElements
  <2> QED BY <2>2, <2>5, <2>6, <2>7 DEF ReplyOnItsWay, Kept
<1>6. CASE RequestInHand(c, path) /\ ~WorksFor(h, c, path)
  <2>1. ASSUME NEW g \in Handler
        PROVE  /\ WorksFor(g, c, path) => WorksFor(g, c, path)'
               /\ StillReads(g, c) => StillReads(g, c)'
    <3>1. g # h => th'[g] = th[g]
      BY <1>0, <1>1
    <3>2. ~StillReads(h, c)
      BY <1>1 DEF StillReads
    <3> QED BY <1>6, <3>1, <3>2 DEF WorksFor, StillReads
  <2> QED BY <1>0, <1>1, <1>3, <1>6, <2>1, InHandStays DEF Grows, Kept
<1> QED BY <1>4, <1>5, <1>6 DEF Kept

\* What is taken from the queue is dropped only before the server hears a client,
\* and replaces m_msgPtr otherwise.
LEMMA TakeKeepsRequest ==
  ASSUME IInv, RegFacts, ServerDiscardArrived \/ ServerConsume,
         NEW c \in Client, NEW path \in Path, Kept(c, path)
  PROVE  Kept(c, path)' \/ (BeingRead(c, path) /\ m_msgPtr' # m_msgPtr)
<1>0. /\ NetTypeOK /\ MainThreadInv /\ c # Public
      /\ inbox[Server] \in Seq(Message \cup {Null})
  BY IInvParts, NamesAreDistinct DEF ServerPart, NetTypeOK, Session
<1>1. Take(Server) /\ inbox'[c] = inbox[c] /\ th' = th
  BY ServerTakes DEF ServerDiscardArrived, ServerConsume, serverVars
<1>2. CASE ReplyOnItsWay(c, path)
  BY <1>1, <1>2 DEF ReplyOnItsWay, Kept
<1>3. CASE RequestInHand(c, path) /\ ServerDiscardArrived
  <2>1. spc = "discard" /\ m_clients = <<>> /\ \A h \in Handler : th[h].pc = "idle"
    BY <1>0, <1>3 DEF ServerDiscardArrived, MainThreadInv, ServerReady
  <2>2. ~IsQueued(c, path)
    <3>1. sub[Server][c] # "nolocal"
      BY <2>1 DEF RegFacts, HeardAreRegistered, Registered
    <3> QED BY <1>0, <3>1 DEF RegFacts, QueuedAreHeard, IsQueued, IsRequest
  <2> QED BY <1>3, <2>1, <2>2
          DEF RequestInHand, IsQueued, BeingRead, StillReads, WorksFor
<1>4. CASE RequestInHand(c, path) /\ ServerConsume
  <2>1. /\ spc = "consume" /\ spc' = "assign" /\ m_msgPtr' = Head(inbox[Server])
        /\ inbox[Server] # <<>> /\ inbox'[Server] = Tail(inbox[Server])
    BY <1>0, <1>1, <1>4, TakeEffect DEF ServerConsume, Session
  <2>2. CASE IsQueued(c, path)
    <3>1. PICK i \in 1..Len(inbox[Server]) : IsRequest(inbox[Server][i], c, path)
      BY <2>2 DEF IsQueued
    <3>2. CASE i = 1
      <4>1. m_msgPtr' = inbox[Server][i]
        BY <1>0, <2>1, <3>2, TailElements
      <4> QED BY <2>1, <3>1, <4>1 DEF IsRequest, RequestInHand, Kept
    <3>3. CASE i # 1
      <4>1. /\ i - 1 \in 1..Len(Tail(inbox[Server]))
            /\ Tail(inbox[Server])[i - 1] = inbox[Server][i]
        BY <1>0, <2>1, <3>3
      <4>2. IsQueued(c, path)'
        BY <2>1, <3>1, <4>1 DEF IsQueued, IsRequest
      <4> QED BY <4>2 DEF IsQueued, RequestInHand, Kept
    <3> QED BY <3>2, <3>3
  <2>3. CASE BeingRead(c, path) /\ m_msgPtr' = m_msgPtr
    BY <2>1, <2>3 DEF BeingRead, IsRequest, RequestInHand, Kept
  <2>4. CASE \E h \in Handler : WorksFor(h, c, path)
    BY <1>1, <2>4 DEF WorksFor, RequestInHand, Kept
  <2> QED BY <1>4, <2>1, <2>2, <2>3, <2>4 DEF RequestInHand, IsQueued
<1> QED BY <1>2, <1>3, <1>4 DEF Kept

\* The main thread's other steps take nothing.
LEMMA MainKeepsRequest ==
  ASSUME IInv, ServerMain, ~ServerConsume, ~Fault,
         NEW c \in Client, NEW path \in Path, Kept(c, path)
  PROVE  Kept(c, path)'
<1>0. /\ NetTypeOK /\ th \in [Handler -> Thread] /\ c # Public /\ c # Server
      /\ Server \in Session /\ c \in Session /\ Public \in Topic
  BY IInvParts, NamesAreDistinct DEF ServerPart, ServerTypeOK, Session, Topic
<1>1. ASSUME Grows(Server), Grows(c), UNCHANGED <<m_msgPtr, th>>,
             spc = "assign" => m_msgPtr.topic = Public
      PROVE  Kept(c, path)'
  BY <1>0, <1>1, InHandStays, ReplyStays DEF Kept, StillReads, WorksFor, IsRequest
<1>2. CASE \/ ServerDisableCallbacks \/ ServerInstallCallbacks
           \/ ServerNewSubscriber \/ ServerRegister
  BY <1>1, <1>2 DEF ServerDisableCallbacks, ServerInstallCallbacks,
     ServerNewSubscriber, ServerRegister, brokerVars, Grows
<1>3. ASSUME NEW t \in Topic, Subscribe(Server, t, "nolocal")
      PROVE  Grows(Server) /\ Grows(c)
  BY <1>0, <1>3, SubscribeEffect DEF SubMode, Receives, Grows
<1>4. CASE ServerSetups
  BY <1>0, <1>1, <1>3, <1>4 DEF ServerSetups, netVars, Grows
<1>5. CASE ServerSubscribeClient
  <2>1. m_msgPtr.body.ip \in Topic /\ spc = "subscribe"
    BY <1>5, AnnouncedClient DEF ServerSubscribeClient, Serving, Topic
  <2> QED BY <1>1, <1>3, <1>5, <2>1 DEF ServerSubscribeClient
<1>6. CASE ServerPublishKey
  <2>1. PICK d \in Client, body \in PrivateBody : Publish(Server, d, body)
    BY <1>6, ServerPublishesOn
  <2>2. Grows(Server) /\ Grows(c)
    BY <2>1, ServerPublishes DEF Grows
  <2> QED BY <1>1, <1>6, <2>2 DEF ServerPublishKey
<1>7. ASSUME NEW h \in Handler, ServerSpawn(h) PROVE Kept(c, path)'
  <2>1. /\ UNCHANGED <<inbox, m_msgPtr>> /\ th[h].pc = "idle"
        /\ th'[h].pc = "readTopic" /\ \A g \in Handler \ {h} : th'[g] = th[g]
    BY <1>0, <1>7 DEF ServerSpawn, IdleThread, brokerVars
  <2>2. CASE IsRequest(m_msgPtr, c, path)
    <3>1. BeingRead(c, path)'
      BY <2>1, <2>2 DEF BeingRead, StillReads, IsRequest
    <3> QED BY <3>1 DEF RequestInHand, Kept
  <2>3. CASE ~IsRequest(m_msgPtr, c, path)
    <3>1. \A g \in Handler : WorksFor(g, c, path) => WorksFor(g, c, path)'
      BY <2>1 DEF WorksFor
    <3> QED BY <1>0, <2>1, <2>3, <3>1, InHandStays, ReplyStays DEF Grows, Kept
  <2> QED BY <2>2, <2>3
<1> QED BY <1>2, <1>4, <1>5, <1>6, <1>7 DEF ServerMain

\* The steps of the server.
LEMMA ServerKeepsRequest ==
  ASSUME IInv, RegFacts, ServerNext, ~Fault, spc' # "down",
         NEW c \in Client, NEW path \in Path, Kept(c, path), sub[c][c] = "local"
  PROVE  Kept(c, path)' \/ (BeingRead(c, path) /\ m_msgPtr' # m_msgPtr)
<1>0. NetTypeOK
  BY IInvParts
<1>1. ~ServerExit
  BY DEF ServerExit
<1>2. CASE ServerMain
  BY <1>2, MainKeepsRequest, TakeKeepsRequest
<1>3. ASSUME NEW h \in Handler, HandlerStep(h) PROVE Kept(c, path)'
  <2>1. CASE HandlerReply(h)
    BY <2>1, ReplyKeepsRequest
  <2>2. CASE \/ HandlerReadTopic(h) \/ HandlerReadPayload(h) \/ HandlerSearch(h)
             \/ HandlerExec(h)
    <3>1. inbox' = inbox
      BY <2>2 DEF HandlerReadTopic, HandlerReadPayload, HandlerSearch, HandlerExec,
         brokerVars
    <3> QED BY <2>2, <3>1, ThreadKeepsRequest DEF Kept, ReplyOnItsWay
  <2> QED BY <1>1, <1>3, <2>1, <2>2 DEF HandlerStep, HandlerSearchMisses
<1>4. CASE ServerConnect \/ ServerCannotReadKey
  <2>1. UNCHANGED <<inbox, m_msgPtr, th>> /\ spc # "assign"
    BY <1>4 DEF ServerConnect, ServerCannotReadKey, brokerVars, netVars
  <2> QED BY <1>0, <2>1, InHandStays DEF Grows, StillReads, WorksFor, Kept, ReplyOnItsWay
<1>5. CASE ServerFailure
  BY <1>1, <1>5, TakeKeepsRequest DEF ServerFailure, ServerNewSubscriberFails,
     ServerLinkLost, HandlerReadRaces, HandlerSearchRaces, HandlerThrows
<1> QED BY <1>2, <1>3, <1>4, <1>5 DEF ServerNext

\* Until something fails, a request that has reached the server is answered, or
\* it is replaced in m_msgPtr before its thread has read it, or the server
\* crashes: for any number of clients and threads.
THEOREM RequestsAreKept == Spec => LostOnlyWhenReplaced
<1>1. IInv /\ RegistrationInv /\ SubscribedInv /\ [Next]_vars =>
        [\A c \in Client : \A path \in Path :
           /\ RequestInHand(c, path) \/ ReplyOnItsWay(c, path)
           /\ cpc[c] = "ready" /\ cpc'[c] = "ready"
           /\ spc' # "down" /\ faults' = 0
           => \/ RequestInHand(c, path)' \/ ReplyOnItsWay(c, path)'
              \/ path \in answered'[c]
              \/ BeingRead(c, path) /\ m_msgPtr' # m_msgPtr]_vars
  <2> SUFFICES ASSUME IInv, RegistrationInv, SubscribedInv, Next,
                      NEW c \in Client, NEW path \in Path, Kept(c, path),
                      cpc[c] = "ready", cpc'[c] = "ready", spc' # "down", faults' = 0
               PROVE  \/ Kept(c, path)' \/ path \in answered'[c]
                      \/ BeingRead(c, path) /\ m_msgPtr' # m_msgPtr
    BY DEF Kept
  <2>1. faults = 0 /\ ~Fault
    <3>1. faults \in Nat
      BY IInvParts
    <3> QED BY <3>1, FaultsGrow DEF Fault
  <2>2. RegFacts /\ RetainedTopicInv /\ sub[c][c] = "local"
    BY <2>1 DEF RegistrationInv, RegFacts, SubscribedInv, Subscribed
  <2>3. CASE ServerNext
    BY <2>1, <2>2, <2>3, ServerKeepsRequest
  <2>4. ASSUME NEW d \in Client, ClientNext(d), UNCHANGED serverVars
        PROVE  Kept(c, path)' \/ path \in answered'[c]
    BY <2>1, <2>2, <2>4, ClientKeepsRequest
  <2> QED BY <2>3, <2>4 DEF Next
<1> QED BY <1>1, Invariance, RegistrationHolds, ClientsAreSubscribed, PTL
        DEF Spec, LostOnlyWhenReplaced
=============================================================================
