-------------------------- MODULE BupSystemProofs ---------------------------
(***************************************************************************)
(* Proofs about BupSystem, for any number of clients, threads, runs and    *)
(* failures: TypeOK and the safety properties that the race runs check.    *)
(***************************************************************************)
EXTENDS BupSystem, TLAPS

-----------------------------------------------------------------------------
(* The messages of the broker.                                             *)

\* NetTypeOK: the part of BrokerTypeOK about the messages under way.
NetTypeOK ==
  /\ retained \in [Topic -> Message \cup {Null}]
  /\ sub \in [Session -> [Topic -> SubMode]]
  /\ inbox \in [Session -> Seq(Message \cup {Null})]

\* queue' is queue, with m appended if it was accepted under the given mode.
Receives(s, m, mode) ==
  \/ inbox'[s] = inbox[s]
  \/ inbox'[s] = Append(inbox[s], m) /\ Accepts(mode, m, s)

\* Appending keeps the elements and adds one at the end.
LEMMA AppendElements ==
  ASSUME NEW S, NEW q \in Seq(S), NEW e \in S
  PROVE  /\ Append(q, e) \in Seq(S)
         /\ Len(Append(q, e)) = Len(q) + 1
         /\ \A i \in 1..Len(q) : Append(q, e)[i] = q[i]
         /\ Append(q, e)[Len(q) + 1] = e
  OBVIOUS

\* The tail of a nonempty queue holds elements of it only, and so its head.
LEMMA TailElements ==
  ASSUME NEW S, NEW q \in Seq(S), q # <<>>
  PROVE  /\ Tail(q) \in Seq(S)
         /\ Head(q) \in S /\ Head(q) = q[1] /\ 1 \in 1..Len(q)
         /\ \A i \in 1..Len(Tail(q)) : i + 1 \in 1..Len(q) /\ Tail(q)[i] = q[i + 1]
  OBVIOUS

\* publish() leaves well formed messages, and gives each session at most the
\* published one.
LEMMA PublishEffect ==
  ASSUME NetTypeOK, NEW s \in Session, NEW t \in Topic, NEW body,
         [topic |-> t, body |-> body, from |-> s] \in Message,
         Publish(s, t, body)
  PROVE  /\ NetTypeOK'
         /\ sub' = sub
         /\ \A r \in Session :
              Receives(r, [topic |-> t, body |-> body, from |-> s], sub[r][t])
<1> DEFINE m == [topic |-> t, body |-> body, from |-> s]
<1>1. retained' \in [Topic -> Message \cup {Null}]
  BY DEF Publish, NetTypeOK
<1>2. inbox' = [r \in Session |-> IF Accepts(sub[r][t], m, r)
                                  THEN Append(inbox[r], m) ELSE inbox[r]]
  BY DEF Publish
<1>3. \A r \in Session : /\ inbox'[r] \in Seq(Message \cup {Null})
                         /\ Receives(r, m, sub[r][t])
  BY <1>2 DEF NetTypeOK, Receives
<1>4. inbox' \in [Session -> Seq(Message \cup {Null})]
  BY <1>2, <1>3
<1>5. sub' = sub
  BY DEF Publish
<1> QED BY <1>1, <1>3, <1>4, <1>5 DEF NetTypeOK

\* subscribe() changes one mode, and gives the session at most the retained
\* message of the topic.
LEMMA SubscribeEffect ==
  ASSUME NetTypeOK, NEW s \in Session, NEW t \in Topic,
         NEW mode \in SubMode, Subscribe(s, t, mode)
  PROVE  /\ NetTypeOK'
         /\ sub'[s] = [sub[s] EXCEPT ![t] = mode]
         /\ \A r \in Session \ {s} : sub'[r] = sub[r] /\ inbox'[r] = inbox[r]
         /\ \/ inbox'[s] = inbox[s]
            \/ /\ retained[t] \in Message
               /\ Receives(s, retained[t], mode)
<1>1. retained' = retained /\ sub' = [sub EXCEPT ![s][t] = mode]
  BY DEF Subscribe
<1>2. CASE retained[t] # Null /\ Accepts(mode, retained[t], s)
  <2>1. inbox' = [inbox EXCEPT ![s] = Append(@, retained[t])]
    BY <1>2 DEF Subscribe
  <2>2. retained[t] \in Message
    BY <1>2 DEF NetTypeOK
  <2> QED BY <1>1, <1>2, <2>1, <2>2 DEF NetTypeOK, Receives
<1>3. CASE ~(retained[t] # Null /\ Accepts(mode, retained[t], s))
  <2>1. inbox' = inbox
    BY <1>3 DEF Subscribe
  <2> QED BY <1>1, <2>1 DEF NetTypeOK
<1> QED BY <1>2, <1>3

\* The end of a session clears its subscriptions and sets its queue.
LEMMA EndSessionEffect ==
  ASSUME NetTypeOK, NEW s \in Session, NEW rest \in Seq(Message \cup {Null}),
         EndSession(s, rest)
  PROVE  /\ NetTypeOK'
         /\ \A t \in Topic : sub'[s][t] = "none"
         /\ \A r \in Session \ {s} : sub'[r] = sub[r] /\ inbox'[r] = inbox[r]
         /\ inbox'[s] = rest
<1>1. sub' = [sub EXCEPT ![s] = [t \in Topic |-> "none"]]
      /\ inbox' = [inbox EXCEPT ![s] = rest]
  BY DEF EndSession
<1>2. ASSUME NEW t \in Topic, retained[t] # Null
      PROVE  [retained[t] EXCEPT !.from = Nobody] \in Message
  BY <1>2 DEF NetTypeOK, Message
<1>3. retained' \in [Topic -> Message \cup {Null}]
  BY <1>2 DEF EndSession, NetTypeOK
<1> QED BY <1>1, <1>3 DEF NetTypeOK, SubMode

\* get() takes the head of one queue.
LEMMA TakeEffect ==
  ASSUME NetTypeOK, NEW s \in Session, Take(s)
  PROVE  /\ NetTypeOK'
         /\ sub' = sub
         /\ inbox[s] # <<>> /\ inbox'[s] = Tail(inbox[s])
         /\ \A r \in Session \ {s} : inbox'[r] = inbox[r]
<1>1. /\ inbox[s] # <<>> /\ inbox' = [inbox EXCEPT ![s] = Tail(@)]
      /\ sub' = sub /\ retained' = retained
  BY DEF Take
<1>2. inbox[s] \in Seq(Message \cup {Null})
  BY DEF NetTypeOK
<1>3. Tail(inbox[s]) \in Seq(Message \cup {Null})
  BY <1>1, <1>2
<1> QED BY <1>1, <1>3 DEF NetTypeOK

-----------------------------------------------------------------------------
(* The records on the wire.                                                *)

\* What a message carries depends on its topic.
LEMMA MessageFacts ==
  ASSUME NEW m \in Message
  PROVE  /\ m.topic \in Topic
         /\ m.topic = Public => m.body \in PublicBody
         /\ m.topic # Public => m.topic \in Client /\ m.body \in PrivateBody
         /\ m.body.type = "backup" => m.body \in [type : {"backup"}, path : Path]
<1>1. CASE m \in [topic : {Public}, body : PublicBody, from : Session \cup {Nobody}]
  BY <1>1 DEF PublicBody, Topic
<1>2. CASE m \in [topic : Client, body : PrivateBody, from : Session \cup {Nobody}]
  <2>1. m.topic \in Client /\ m.topic # Public /\ m.body \in PrivateBody
    BY <1>2, NamesAreDistinct
  <2>2. m.body.type = "backup" => m.body \in [type : {"backup"}, path : Path]
    BY <2>1 DEF PrivateBody
  <2> QED BY <2>1, <2>2 DEF Topic
<1> QED BY <1>1, <1>2 DEF Message

\* A message on a private channel, and an announcement, are messages.
LEMMA PrivateMessage ==
  ASSUME NEW c \in Client, NEW body \in PrivateBody, NEW s \in Session
  PROVE  [topic |-> c, body |-> body, from |-> s] \in Message
  BY DEF Message

LEMMA Announcement ==
  ASSUME NEW c \in Client, NEW line \in InfoLine, NEW s \in Session
  PROVE  [topic |-> Public, body |-> SubscribeBody(c, line), from |-> s] \in Message
<1>1. SubscribeBody(c, line) \in PublicBody
  BY DEF SubscribeBody, PublicBody
<1> QED BY <1>1 DEF Message

\* The registration of an announcement owns the directory of its address.
LEMMA RegistrationType ==
  ASSUME NEW body \in PublicBody
  PROVE  /\ NewRegistration(body) \in Registration
         /\ NewRegistration(body).ip = body.ip
         /\ NewRegistration(body).backupPath = body.ip
<1>1. body.ip \in Client /\ body.line \in InfoLine
  BY DEF PublicBody
<1>2. body.line \in Seq(Word)
  BY <1>1, NamesAreDistinct
<1>3. User(body.line) \in Word \cup {NoUser}
  BY <1>2 DEF User
<1> QED BY <1>1, <1>3 DEF NewRegistration, Registration

-----------------------------------------------------------------------------
(* The parts of the invariant, by the module whose state they are about.   *)

ServerPart ==
  /\ ServerTypeOK /\ RegisteredAreHeard /\ NoEchoToServer
  /\ CopiesToOwnDirectory /\ MainThreadInv /\ ThreadInv /\ OwnDirectoryInv
  /\ ServerSessionInv

\* What ClientSessionInv says of one client.
ClientOK(c) ==
  /\ ~clink[c] => \A t \in Topic : sub[c][t] = "none"
  /\ cpc[c] = "off" => ~clink[c] /\ inbox[c] = <<>>
  /\ cpc[c] # "off" => infoLine[c] # Null
  /\ cpc[c] = "cmdOnly" => ~clink[c]
  /\ cpc[c] = "ready" /\ clink[c] => m_serverPublicKey[c] # Null
  /\ \A i \in 1..Len(inbox[c]) : inbox[c][i] = Null => ~clink[c]

ClientPart == ClientTypeOK /\ \A c \in Client : ClientOK(c)

\* The parts make up the invariant, before and after a step.
LEMMA IInvParts ==
  /\ IInv <=> NetTypeOK /\ faults \in Nat /\ ServerPart /\ ClientPart
  /\ IInv' <=> NetTypeOK' /\ faults' \in Nat /\ ServerPart' /\ ClientPart'
  BY DEF IInv, TypeOK, BrokerTypeOK, NetTypeOK, ServerPart, ClientPart, ClientOK,
     ClientSessionInv

LEMMA InitIInv == Init => IInv
<1> SUFFICES ASSUME Init PROVE IInv
  OBVIOUS
<1> USE DEF Init
<1>1. NetTypeOK /\ faults \in Nat
  BY DEF BrokerInit, NetTypeOK, SubMode
<1>2. IdleThread \in Thread
  BY DEF IdleThread, Thread, ThreadPc
<1>3. ServerTypeOK
  <2>1. th \in [Handler -> Thread]
    BY <1>2 DEF ServerInit
  <2>2. m_clients \in Seq(Registration)
    BY DEF ServerInit
  <2>3. m_publicKey \in {KeyBody, EmptyBody} /\ ran \subseteq Command
    BY DEF ServerInit
  <2> QED BY <2>1, <2>2, <2>3 DEF ServerInit, ServerTypeOK, ServerPc
<1>4. Server \in Session
  BY DEF Session
<1>5. ServerPart
  BY <1>3, <1>4 DEF BrokerInit, ServerInit, ServerPart, IdleThread,
     RegisteredAreHeard, NoEchoToServer, CopiesToOwnDirectory,
     MainThreadInv, ThreadInv, OwnDirectoryInv, ServerSessionInv, Serving,
     ServerReady
<1>6. ClientTypeOK
  <2>1. authorizedKeys \in [Client \X Word -> Seq(PrivateBody)]
    BY DEF ClientInit
  <2> QED BY <2>1 DEF ClientInit, ClientTypeOK, ClientPc
<1>7. ASSUME NEW c \in Client PROVE ClientOK(c)
  BY DEF BrokerInit, ClientInit, ClientOK, Session
<1> QED BY <1>1, <1>5, <1>6, <1>7, IInvParts DEF ClientPart

\* The session of a client is left alone by the steps of the others, except
\* for the messages its subscriptions deliver.
LEMMA ClientKept ==
  ASSUME NEW c \in Client, NetTypeOK, ClientOK(c),
         cpc'[c] = cpc[c], clink'[c] = clink[c],
         m_serverPublicKey'[c] = m_serverPublicKey[c],
         infoLine'[c] = infoLine[c], sub'[c] = sub[c],
         \/ inbox'[c] = inbox[c]
         \/ \E m \in Message, t \in Topic :
              sub[c][t] # "none" /\ inbox'[c] = Append(inbox[c], m)
  PROVE  ClientOK(c)'
<1>1. CASE inbox'[c] = inbox[c]
  BY <1>1 DEF ClientOK
<1>2. CASE inbox'[c] # inbox[c]
  <2>1. PICK m \in Message, t \in Topic :
          sub[c][t] # "none" /\ inbox'[c] = Append(inbox[c], m)
    BY <1>2
  <2>2. clink[c] /\ cpc[c] # "off"
    BY <2>1 DEF ClientOK
  <2>3. inbox[c] \in Seq(Message \cup {Null})
    BY DEF NetTypeOK, Session
  <2>4. \A i \in 1..Len(inbox'[c]) : inbox'[c][i] # Null
    <3>1. \A i \in 1..Len(inbox[c]) : inbox[c][i] # Null
      BY <2>2 DEF ClientOK
    <3>2. m # Null
      BY NullIsNothingElse
    <3> QED BY <2>1, <2>3, <3>1, <3>2, AppendElements
  <2> QED BY <2>2, <2>4 DEF ClientOK
<1> QED BY <1>1, <1>2

\* The server is left alone by the steps of the clients, except for the
\* messages they publish.
LEMMA ServerKept ==
  ASSUME NetTypeOK, ServerPart, UNCHANGED serverVars, sub'[Server] = sub[Server],
         \/ inbox'[Server] = inbox[Server]
         \/ \E m \in Message :
              m.from # Server /\ inbox'[Server] = Append(inbox[Server], m)
  PROVE  ServerPart'
<1> USE DEF serverVars
<1>1. \A i \in 1..Len(inbox'[Server]) :
        inbox'[Server][i] # Null /\ inbox'[Server][i].from # Server
  <2>1. \A i \in 1..Len(inbox[Server]) :
          inbox[Server][i] # Null /\ inbox[Server][i].from # Server
    BY DEF ServerPart, ServerSessionInv, NoEchoToServer
  <2>2. CASE inbox'[Server] = inbox[Server]
    BY <2>1, <2>2
  <2>3. CASE inbox'[Server] # inbox[Server]
    <3>1. PICK m \in Message :
            m.from # Server /\ inbox'[Server] = Append(inbox[Server], m)
      BY <2>3
    <3>2. m # Null
      BY NullIsNothingElse
    <3>3. inbox[Server] \in Seq(Message \cup {Null})
      BY DEF NetTypeOK, Session
    <3> QED BY <2>1, <3>1, <3>2, <3>3, AppendElements
  <2> QED BY <2>2, <2>3
<1>2. ServerTypeOK' /\ CopiesToOwnDirectory' /\ ThreadInv' /\ OwnDirectoryInv'
  BY DEF ServerPart, ServerTypeOK, CopiesToOwnDirectory, ThreadInv, OwnDirectoryInv
<1>3. RegisteredAreHeard' /\ MainThreadInv'
  BY DEF ServerPart, RegisteredAreHeard, MainThreadInv, ServerReady
<1>4. NoEchoToServer' /\ ServerSessionInv'
  BY <1>1 DEF ServerPart, NoEchoToServer, ServerSessionInv
<1> QED BY <1>2, <1>3, <1>4 DEF ServerPart

-----------------------------------------------------------------------------
(* The steps of a client.                                                  *)

\* A step of client c keeps the invariant if it keeps the types and the part
\* about c, and disturbs the sessions of the others only by what it publishes.
LEMMA ClientStepKeeps ==
  ASSUME IInv, NEW c \in Client, UNCHANGED serverVars,
         NetTypeOK', faults' \in Nat, ClientTypeOK', ClientOK(c)',
         \A d \in Client \ {c} :
           /\ cpc'[d] = cpc[d] /\ clink'[d] = clink[d]
           /\ m_serverPublicKey'[d] = m_serverPublicKey[d]
           /\ infoLine'[d] = infoLine[d],
         \A s \in Session \ {c} :
           /\ sub'[s] = sub[s]
           /\ \/ inbox'[s] = inbox[s]
              \/ \E m \in Message, t \in Topic :
                   /\ m.from = c /\ m.topic = t /\ sub[s][t] # "none"
                   /\ inbox'[s] = Append(inbox[s], m)
  PROVE  IInv'
<1>0. NetTypeOK /\ ServerPart /\ ClientPart
  BY IInvParts
<1>1. ServerPart'
  <2>1. Server \in Session \ {c} /\ c # Server
    BY NamesAreDistinct DEF Session
  <2>2. sub'[Server] = sub[Server]
    BY <2>1
  <2>3. \/ inbox'[Server] = inbox[Server]
        \/ \E m \in Message :
             m.from # Server /\ inbox'[Server] = Append(inbox[Server], m)
    BY <2>1
  <2> QED BY <1>0, <2>2, <2>3, ServerKept
<1>2. ASSUME NEW d \in Client \ {c} PROVE ClientOK(d)'
  <2>1. d \in Session \ {c}
    BY DEF Session
  <2>2. sub'[d] = sub[d]
    BY <2>1
  <2>3. \/ inbox'[d] = inbox[d]
        \/ \E m \in Message, t \in Topic :
             sub[d][t] # "none" /\ inbox'[d] = Append(inbox[d], m)
    BY <2>1
  <2>4. ClientOK(d)
    BY <1>0 DEF ClientPart
  <2> QED BY <1>0, <2>2, <2>3, <2>4, ClientKept
<1>3. ClientPart'
  BY <1>2 DEF ClientPart
<1> QED BY <1>1, <1>3, IInvParts

\* What a step of c does to the other sessions.
OthersHear(c) ==
  \A s \in Session \ {c} :
    /\ sub'[s] = sub[s]
    /\ \/ inbox'[s] = inbox[s]
       \/ \E m \in Message, t \in Topic :
            /\ m.from = c /\ m.topic = t /\ sub[s][t] # "none"
            /\ inbox'[s] = Append(inbox[s], m)

\* What publish() does to any session: its queue may grow if it subscribes.
LEMMA PublishHeard ==
  ASSUME NetTypeOK, NEW s \in Session, NEW t \in Topic, NEW body,
         [topic |-> t, body |-> body, from |-> s] \in Message,
         Publish(s, t, body)
  PROVE  /\ NetTypeOK' /\ OthersHear(s) /\ sub' = sub
         /\ \A r \in Session :
              \/ inbox'[r] = inbox[r]
              \/ \E m \in Message, u \in Topic :
                   /\ m.from = s /\ m.topic = u /\ sub[r][u] # "none"
                   /\ inbox'[r] = Append(inbox[r], m)
<1> DEFINE m == [topic |-> t, body |-> body, from |-> s]
<1>1. /\ NetTypeOK' /\ sub' = sub
      /\ \A r \in Session : Receives(r, m, sub[r][t])
  BY PublishEffect
<1>2. ASSUME NEW r \in Session
      PROVE  \/ inbox'[r] = inbox[r]
             \/ \E n \in Message, u \in Topic :
                  /\ n.from = s /\ n.topic = u /\ sub[r][u] # "none"
                  /\ inbox'[r] = Append(inbox[r], n)
  <2>1. Receives(r, m, sub[r][t])
    BY <1>1
  <2>2. m.from = s /\ m.topic = t
    OBVIOUS
  <2>3. CASE inbox'[r] # inbox[r]
    <3>1. inbox'[r] = Append(inbox[r], m) /\ sub[r][t] # "none"
      BY <2>1, <2>3 DEF Receives, Accepts
    <3> QED BY <2>2, <3>1
  <2> QED BY <2>3
<1> QED BY <1>1, <1>2 DEF OthersHear

\* A queue that only grows by a message gets no null message.
LEMMA GrowsWithoutNull ==
  ASSUME NetTypeOK, NEW s \in Session,
         \/ inbox'[s] = inbox[s]
         \/ \E m \in Message : inbox'[s] = Append(inbox[s], m)
  PROVE  \A i \in 1..Len(inbox'[s]) :
           inbox'[s][i] = Null => \E j \in 1..Len(inbox[s]) : inbox[s][j] = Null
<1>1. CASE inbox'[s] = inbox[s]
  BY <1>1
<1>2. CASE inbox'[s] # inbox[s]
  <2>1. PICK m \in Message : inbox'[s] = Append(inbox[s], m)
    BY <1>2
  <2>2. m # Null
    BY NullIsNothingElse
  <2>3. inbox[s] \in Seq(Message \cup {Null})
    BY DEF NetTypeOK
  <2> QED BY <2>1, <2>2, <2>3, AppendElements
<1> QED BY <1>1, <1>2

LEMMA ClientConnectKeeps ==
  ASSUME IInv, NEW c \in Client, UNCHANGED serverVars, ClientConnect(c)
  PROVE  IInv'
<1>0. NetTypeOK /\ faults \in Nat /\ ClientTypeOK /\ ClientOK(c)
  BY IInvParts DEF ClientPart
<1>1. NetTypeOK' /\ faults' \in Nat
  BY <1>0 DEF ClientConnect, netVars, NetTypeOK, Fault, NoFault
<1>2. ClientTypeOK'
  <2>1. infoLine' \in [Client -> InfoLine \cup {Null}]
    BY <1>0 DEF ClientConnect, ClientTypeOK
  <2>2. /\ clink' \in [Client -> BOOLEAN]
        /\ m_serverPublicKey' \in [Client -> PrivateBody \cup {Null}]
    BY <1>0 DEF ClientConnect, ClientTypeOK
  <2>3. cpc' \in [Client -> ClientPc] /\ clientRuns' \in [Client -> Nat]
    BY <1>0 DEF ClientConnect, ClientTypeOK, ClientPc
  <2> QED BY <1>0, <2>1, <2>2, <2>3 DEF ClientConnect, ClientTypeOK
<1>3. infoLine'[c] # Null
  BY <1>0, NullIsNothingElse DEF ClientConnect, ClientTypeOK
<1>4. ClientOK(c)'
  BY <1>0, <1>3 DEF ClientConnect, ClientOK, netVars, ClientTypeOK
<1>5. \A s \in Session \ {c} : sub'[s] = sub[s] /\ inbox'[s] = inbox[s]
  BY DEF ClientConnect, netVars
<1>6. \A d \in Client \ {c} :
           /\ cpc'[d] = cpc[d] /\ clink'[d] = clink[d]
           /\ m_serverPublicKey'[d] = m_serverPublicKey[d]
           /\ infoLine'[d] = infoLine[d]
  BY <1>0 DEF ClientConnect, ClientTypeOK
<1> QED BY <1>1, <1>2, <1>4, <1>5, <1>6, ClientStepKeeps

LEMMA ClientPublishKeeps ==
  ASSUME IInv, NEW c \in Client, UNCHANGED serverVars, ClientPublish(c)
  PROVE  IInv'
<1>0. NetTypeOK /\ faults \in Nat /\ ClientTypeOK /\ ClientOK(c) /\ c \in Session
  BY IInvParts DEF ClientPart, Session
<1>1. infoLine[c] \in InfoLine
  BY <1>0 DEF ClientPublish, ClientOK, ClientTypeOK
<1>2. Publish(c, Public, SubscribeBody(c, infoLine[c])) /\ Public \in Topic
  BY DEF ClientPublish, Topic
<1>3. /\ NetTypeOK' /\ OthersHear(c) /\ sub' = sub
      /\ \/ inbox'[c] = inbox[c]
         \/ \E m \in Message, u \in Topic :
              sub[c][u] # "none" /\ inbox'[c] = Append(inbox[c], m)
  BY <1>0, <1>1, <1>2, Announcement, PublishHeard
<1>4. faults' \in Nat
  BY <1>0 DEF ClientPublish, NoFault
<1>5. ClientTypeOK'
  BY <1>0 DEF ClientPublish, Goto, ClientTypeOK, ClientPc
<1>6. ClientOK(c)'
  <2>1. \A i \in 1..Len(inbox'[c]) :
          inbox'[c][i] = Null => \E j \in 1..Len(inbox[c]) : inbox[c][j] = Null
    BY <1>0, <1>3, GrowsWithoutNull
  <2> QED BY <1>0, <1>3, <2>1 DEF ClientPublish, Goto, ClientOK, ClientTypeOK
<1>7. \A d \in Client \ {c} :
           /\ cpc'[d] = cpc[d] /\ clink'[d] = clink[d]
           /\ m_serverPublicKey'[d] = m_serverPublicKey[d]
           /\ infoLine'[d] = infoLine[d]
  BY <1>0 DEF ClientPublish, Goto, ClientTypeOK
<1> QED BY <1>3, <1>4, <1>5, <1>6, <1>7, ClientStepKeeps DEF OthersHear

\* The process of a client ends: ClientPublishFails and ClientStop.
LEMMA ClientEndsKeeps ==
  ASSUME IInv, NEW c \in Client, UNCHANGED serverVars, faults' \in Nat,
         EndSession(c, <<>>),
         clink' = [clink EXCEPT ![c] = FALSE], cpc' = [cpc EXCEPT ![c] = "off"],
         UNCHANGED <<infoLine, m_serverPublicKey, authorizedKeys, asked,
                     markSent, answered, reqs, clientRuns>>
  PROVE  IInv'
<1>0. NetTypeOK /\ ClientTypeOK /\ c \in Session /\ <<>> \in Seq(Message \cup {Null})
  BY IInvParts DEF ClientPart, Session
<1>1. /\ NetTypeOK' /\ inbox'[c] = <<>>
      /\ \A t \in Topic : sub'[c][t] = "none"
      /\ \A r \in Session \ {c} : sub'[r] = sub[r] /\ inbox'[r] = inbox[r]
  BY <1>0, EndSessionEffect
<1>2. ClientTypeOK'
  BY <1>0 DEF ClientTypeOK, ClientPc
<1>3. ClientOK(c)'
  BY <1>0, <1>1 DEF ClientOK, ClientTypeOK
<1>4. \A d \in Client \ {c} :
           /\ cpc'[d] = cpc[d] /\ clink'[d] = clink[d]
           /\ m_serverPublicKey'[d] = m_serverPublicKey[d]
           /\ infoLine'[d] = infoLine[d]
  BY <1>0 DEF ClientTypeOK
<1> QED BY <1>1, <1>2, <1>3, <1>4, ClientStepKeeps

LEMMA ClientLinkLostKeeps ==
  ASSUME IInv, NEW c \in Client, UNCHANGED serverVars, ClientLinkLost(c)
  PROVE  IInv'
<1>0. /\ NetTypeOK /\ faults \in Nat /\ ClientTypeOK /\ ClientOK(c) /\ c \in Session
      /\ inbox[c] \in Seq(Message \cup {Null})
  BY IInvParts DEF ClientPart, Session, NetTypeOK
<1>1. PICK n \in 0..Len(inbox[c]) :
        EndSession(c, IF Listening(c)
                      THEN Append(SubSeq(inbox[c], 1, n), Null) ELSE <<>>)
  BY DEF ClientLinkLost
<1> DEFINE rest == IF Listening(c)
                   THEN Append(SubSeq(inbox[c], 1, n), Null) ELSE <<>>
<1>2. rest \in Seq(Message \cup {Null})
  <2>1. SubSeq(inbox[c], 1, n) \in Seq(Message \cup {Null})
    BY <1>0
  <2> QED BY <2>1
<1>3. /\ NetTypeOK' /\ inbox'[c] = rest
      /\ \A t \in Topic : sub'[c][t] = "none"
      /\ \A r \in Session \ {c} : sub'[r] = sub[r] /\ inbox'[r] = inbox[r]
  BY <1>0, <1>1, <1>2, EndSessionEffect
<1>4. ClientTypeOK' /\ faults' \in Nat
  BY <1>0 DEF ClientLinkLost, ClientTypeOK, Fault
<1>5. clink'[c] = FALSE
  BY <1>0 DEF ClientLinkLost, ClientTypeOK
<1>6. cpc[c] # "off"
  BY <1>0 DEF ClientOK, ClientLinkLost
<1>7. ClientOK(c)'
  BY <1>0, <1>3, <1>5, <1>6 DEF ClientLinkLost, ClientOK, ClientTypeOK
<1>8. \A d \in Client \ {c} :
           /\ cpc'[d] = cpc[d] /\ clink'[d] = clink[d]
           /\ m_serverPublicKey'[d] = m_serverPublicKey[d]
           /\ infoLine'[d] = infoLine[d]
  BY <1>0 DEF ClientLinkLost, ClientTypeOK
<1> QED BY <1>3, <1>4, <1>7, <1>8, ClientStepKeeps

LEMMA ClientStartConsumingKeeps ==
  ASSUME IInv, NEW c \in Client, UNCHANGED serverVars, ClientStartConsuming(c)
  PROVE  IInv'
<1>0. NetTypeOK /\ faults \in Nat /\ ClientTypeOK /\ ClientOK(c)
  BY IInvParts DEF ClientPart
<1> USE DEF ClientStartConsuming, Goto, brokerVars
<1>1. NetTypeOK' /\ faults' \in Nat
  BY <1>0 DEF NetTypeOK
<1>2. ClientTypeOK'
  BY <1>0 DEF ClientTypeOK, ClientPc
<1>3. ClientOK(c)'
  BY <1>0 DEF ClientOK, ClientTypeOK
<1>4. \A d \in Client \ {c} :
           /\ cpc'[d] = cpc[d] /\ clink'[d] = clink[d]
           /\ m_serverPublicKey'[d] = m_serverPublicKey[d]
           /\ infoLine'[d] = infoLine[d]
  BY <1>0 DEF ClientTypeOK
<1> QED BY <1>1, <1>2, <1>3, <1>4, ClientStepKeeps

LEMMA ClientSubscribeKeeps ==
  ASSUME IInv, NEW c \in Client, UNCHANGED serverVars, ClientSubscribe(c)
  PROVE  IInv'
<1>0. /\ NetTypeOK /\ faults \in Nat /\ ClientTypeOK /\ ClientOK(c)
      /\ c \in Session /\ c \in Topic /\ "local" \in SubMode
  BY IInvParts DEF ClientPart, Session, Topic, SubMode
<1>1. faults' \in Nat
  BY <1>0 DEF ClientSubscribe, Fault, NoFault
<1>2. ClientTypeOK'
  BY <1>0 DEF ClientSubscribe, Goto, ClientTypeOK, ClientPc
<1>3. \A d \in Client \ {c} :
           /\ cpc'[d] = cpc[d] /\ clink'[d] = clink[d]
           /\ m_serverPublicKey'[d] = m_serverPublicKey[d]
           /\ infoLine'[d] = infoLine[d]
  BY <1>0 DEF ClientSubscribe, Goto, ClientTypeOK
<1>4. CASE clink[c] /\ Subscribe(c, c, "local")
  <2>1. /\ NetTypeOK'
        /\ \A r \in Session \ {c} : sub'[r] = sub[r] /\ inbox'[r] = inbox[r]
        /\ \/ inbox'[c] = inbox[c]
           \/ \E m \in Message : inbox'[c] = Append(inbox[c], m)
    <3>1. /\ NetTypeOK'
          /\ \A r \in Session \ {c} : sub'[r] = sub[r] /\ inbox'[r] = inbox[r]
          /\ \/ inbox'[c] = inbox[c]
             \/ retained[c] \in Message /\ Receives(c, retained[c], "local")
      BY <1>0, <1>4, SubscribeEffect
    <3> QED BY <3>1 DEF Receives
  <2>2. \A i \in 1..Len(inbox'[c]) :
          inbox'[c][i] = Null => \E j \in 1..Len(inbox[c]) : inbox[c][j] = Null
    BY <1>0, <2>1, GrowsWithoutNull
  <2>3. ClientOK(c)'
    BY <1>0, <1>4, <2>2 DEF ClientSubscribe, Goto, ClientOK, ClientTypeOK
  <2> QED BY <1>1, <1>2, <1>3, <2>1, <2>3, ClientStepKeeps
<1>5. CASE UNCHANGED netVars
  <2>1. NetTypeOK' /\ \A r \in Session : sub'[r] = sub[r] /\ inbox'[r] = inbox[r]
    BY <1>0, <1>5 DEF netVars, NetTypeOK
  <2>2. ClientOK(c)'
    BY <1>0, <1>5 DEF ClientSubscribe, Goto, ClientOK, ClientTypeOK, netVars
  <2> QED BY <1>1, <1>2, <1>3, <2>1, <2>2, ClientStepKeeps
<1> QED BY <1>4, <1>5 DEF ClientSubscribe

\* A client takes a message: its null message can only be the mark of a
\* connection that is lost already.
LEMMA ClientTakes ==
  ASSUME NetTypeOK, NEW c \in Client, ClientOK(c), Take(c)
  PROVE  /\ NetTypeOK'
         /\ \A r \in Session \ {c} : sub'[r] = sub[r] /\ inbox'[r] = inbox[r]
         /\ sub' = sub
         /\ Head(inbox[c]) \in Message \cup {Null}
         /\ Head(inbox[c]) = Null => ~clink[c]
         /\ \A i \in 1..Len(inbox'[c]) : inbox'[c][i] = Null => ~clink[c]
<1>0. c \in Session /\ inbox[c] \in Seq(Message \cup {Null})
  BY DEF Session, NetTypeOK
<1>1. /\ NetTypeOK' /\ sub' = sub
      /\ inbox[c] # <<>> /\ inbox'[c] = Tail(inbox[c])
      /\ \A r \in Session \ {c} : inbox'[r] = inbox[r]
  BY <1>0, TakeEffect
<1>2. \A i \in 1..Len(inbox[c]) : inbox[c][i] = Null => ~clink[c]
  BY DEF ClientOK
<1>3. /\ Head(inbox[c]) \in Message \cup {Null} /\ Head(inbox[c]) = inbox[c][1]
      /\ 1 \in 1..Len(inbox[c])
      /\ \A i \in 1..Len(Tail(inbox[c])) :
           i + 1 \in 1..Len(inbox[c]) /\ Tail(inbox[c])[i] = inbox[c][i + 1]
  BY <1>0, <1>1, TailElements
<1>4. Head(inbox[c]) = Null => ~clink[c]
  BY <1>2, <1>3
<1>5. \A i \in 1..Len(inbox'[c]) : inbox'[c][i] = Null => ~clink[c]
  BY <1>1, <1>2, <1>3
<1> QED BY <1>1, <1>3, <1>4, <1>5

\* A text is taken for the key: the client has it, and its file has it as well or
\* may be left alone.
LEMMA KeyHandled ==
  ASSUME ClientTypeOK, NEW c \in Client, NEW text \in PrivateBody,
         HandlePubKeyMsg(c, text)
  PROVE  /\ m_serverPublicKey' \in [Client -> PrivateBody \cup {Null}]
         /\ m_serverPublicKey'[c] = text
         /\ \A d \in Client \ {c} : m_serverPublicKey'[d] = m_serverPublicKey[d]
         /\ authorizedKeys' \in [Client \X Word -> Seq(PrivateBody)]
         /\ \/ /\ authorizedKeys' = authorizedKeys
               /\ TRUE \in IsTxtExist(c, text)
            \/ /\ FALSE \in IsTxtExist(c, text)
               /\ KeyFile(c) \in HasKeyFile /\ KeyFile(c) \in Client \X Word
               /\ authorizedKeys' = [authorizedKeys EXCEPT
                                      ![KeyFile(c)] = Append(@, text)]
<1>1. m_serverPublicKey' = [m_serverPublicKey EXCEPT ![c] = text]
  BY DEF HandlePubKeyMsg
<1>2. PICK exists \in IsTxtExist(c, text) :
        authorizedKeys' = IF exists THEN authorizedKeys
                          ELSE [authorizedKeys EXCEPT
                                  ![KeyFile(c)] = Append(@, text)]
  BY DEF HandlePubKeyMsg
<1>3. exists \in BOOLEAN
  BY <1>2 DEF IsTxtExist, Holds
<1>4. CASE exists = TRUE
  <2>1. authorizedKeys' = authorizedKeys /\ TRUE \in IsTxtExist(c, text)
    BY <1>2, <1>4
  <2> QED BY <1>1, <2>1 DEF ClientTypeOK
<1>5. CASE exists = FALSE
  <2>1. /\ FALSE \in IsTxtExist(c, text)
        /\ authorizedKeys' = [authorizedKeys EXCEPT
                                ![KeyFile(c)] = Append(@, text)]
    BY <1>2, <1>5
  <2>2. KeyFile(c) \in HasKeyFile
    BY <2>1 DEF IsTxtExist
  <2>3. KeyFile(c) \in Client \X Word
    BY <2>2, ClientBounds
  <2>4. authorizedKeys' \in [Client \X Word -> Seq(PrivateBody)]
    BY <2>1, <2>3 DEF ClientTypeOK
  <2> QED BY <1>1, <2>1, <2>2, <2>3, <2>4 DEF ClientTypeOK
<1> QED BY <1>3, <1>4, <1>5

\* A message that a client takes for the key is a private one.
LEMMA KeyMsgIsPrivate ==
  ASSUME NEW c \in Client, NEW msg \in Message \cup {Null}, IsKeyMsg(c, msg)
  PROVE  msg \in Message /\ msg.topic = c /\ msg.body \in PrivateBody
         /\ HasMark(msg.body)
<1>1. msg \in Message /\ msg.topic = c /\ c # Public /\ HasMark(msg.body)
  BY NamesAreDistinct DEF IsKeyMsg
<1> QED BY <1>1, MessageFacts

LEMMA ClientWaitKeyKeeps ==
  ASSUME IInv, NEW c \in Client, UNCHANGED serverVars, ClientWaitKey(c)
  PROVE  IInv'
<1>0. NetTypeOK /\ faults \in Nat /\ ClientTypeOK /\ ClientOK(c)
  BY IInvParts DEF ClientPart
<1>1. Take(c) /\ cpc[c] = "waitKey"
  BY DEF ClientWaitKey
<1> DEFINE msg == Head(inbox[c])
<1>2. /\ NetTypeOK' /\ sub' = sub
      /\ \A r \in Session \ {c} : sub'[r] = sub[r] /\ inbox'[r] = inbox[r]
      /\ msg \in Message \cup {Null} /\ (msg = Null => ~clink[c])
      /\ \A i \in 1..Len(inbox'[c]) : inbox'[c][i] = Null => ~clink[c]
  BY <1>0, <1>1, ClientTakes
<1>3. UNCHANGED <<faults, clink, infoLine, asked, markSent, answered, reqs,
                  clientRuns>>
  BY DEF ClientWaitKey
<1>4. CASE IsKeyMsg(c, msg)
  <2>1. HandlePubKeyMsg(c, msg.body) /\ cpc' = [cpc EXCEPT ![c] = "ready"]
    BY <1>4 DEF ClientWaitKey
  <2>2. msg.body \in PrivateBody
    BY <1>2, <1>4, KeyMsgIsPrivate
  <2>3. /\ m_serverPublicKey' \in [Client -> PrivateBody \cup {Null}]
        /\ m_serverPublicKey'[c] = msg.body
        /\ \A d \in Client \ {c} : m_serverPublicKey'[d] = m_serverPublicKey[d]
        /\ authorizedKeys' \in [Client \X Word -> Seq(PrivateBody)]
    BY <1>0, <2>1, <2>2, KeyHandled
  <2>4. ClientTypeOK' /\ faults' \in Nat
    <3>1. cpc' \in [Client -> ClientPc]
      BY <1>0, <2>1 DEF ClientTypeOK, ClientPc
    <3> QED BY <1>0, <1>3, <2>3, <3>1 DEF ClientTypeOK
  <2>5. ClientOK(c)'
    <3>1. cpc'[c] = "ready" /\ m_serverPublicKey'[c] # Null
      BY <1>0, <2>1, <2>2, <2>3, NullIsNothingElse DEF ClientTypeOK
    <3> QED BY <1>0, <1>1, <1>2, <1>3, <3>1 DEF ClientOK
  <2>6. \A d \in Client \ {c} :
           /\ cpc'[d] = cpc[d] /\ clink'[d] = clink[d]
           /\ m_serverPublicKey'[d] = m_serverPublicKey[d]
           /\ infoLine'[d] = infoLine[d]
    BY <1>0, <1>3, <2>1, <2>3 DEF ClientTypeOK
  <2> QED BY <1>2, <2>4, <2>5, <2>6, ClientStepKeeps
<1>5. CASE ~IsKeyMsg(c, msg)
  <2>1. /\ cpc' = [cpc EXCEPT ![c] = IF msg = Null THEN "ready" ELSE @]
        /\ UNCHANGED <<m_serverPublicKey, authorizedKeys>>
    BY <1>5 DEF ClientWaitKey
  <2>2. ClientTypeOK' /\ faults' \in Nat
    <3>1. cpc' \in [Client -> ClientPc]
      BY <1>0, <2>1 DEF ClientTypeOK, ClientPc
    <3> QED BY <1>0, <1>3, <2>1, <3>1 DEF ClientTypeOK
  <2>3. ClientOK(c)'
    <3>1. cpc'[c] = IF msg = Null THEN "ready" ELSE "waitKey"
      BY <1>0, <1>1, <2>1 DEF ClientTypeOK
    <3> QED BY <1>0, <1>1, <1>2, <1>3, <2>1, <3>1 DEF ClientOK
  <2>4. \A d \in Client \ {c} :
           /\ cpc'[d] = cpc[d] /\ clink'[d] = clink[d]
           /\ m_serverPublicKey'[d] = m_serverPublicKey[d]
           /\ infoLine'[d] = infoLine[d]
    BY <1>0, <1>3, <2>1 DEF ClientTypeOK
  <2> QED BY <1>2, <2>2, <2>3, <2>4, ClientStepKeeps
<1> QED BY <1>4, <1>5

LEMMA ClientReceiveKeeps ==
  ASSUME IInv, NEW c \in Client, UNCHANGED serverVars, ClientReceive(c)
  PROVE  IInv'
<1>0. NetTypeOK /\ faults \in Nat /\ ClientTypeOK /\ ClientOK(c)
  BY IInvParts DEF ClientPart
<1>1. Take(c) /\ cpc[c] = "ready"
  BY DEF ClientReceive
<1> DEFINE msg == Head(inbox[c])
           reply == msg # Null /\ msg.body.type = "reply"
<1>2. /\ NetTypeOK' /\ sub' = sub
      /\ \A r \in Session \ {c} : sub'[r] = sub[r] /\ inbox'[r] = inbox[r]
      /\ msg \in Message \cup {Null} /\ (msg = Null => ~clink[c])
      /\ \A i \in 1..Len(inbox'[c]) : inbox'[c][i] = Null => ~clink[c]
  BY <1>0, <1>1, ClientTakes
<1>3. /\ cpc' = [cpc EXCEPT ![c] = IF msg = Null THEN "cmdOnly" ELSE @]
      /\ answered' = [answered EXCEPT ![c] =
                        IF reply THEN @ \cup {msg.body.path} ELSE @]
      /\ UNCHANGED <<faults, clink, infoLine, m_serverPublicKey, authorizedKeys,
                     asked, markSent, reqs, clientRuns>>
  BY DEF ClientReceive
<1>4. answered' \in [Client -> SUBSET Path]
  <2>1. reply => msg.body.path \in Path
    <3>1. reply => msg.body \in PrivateBody \cup PublicBody
      BY <1>2, MessageFacts
    <3> QED BY <3>1 DEF PrivateBody, PublicBody
  <2> QED BY <1>0, <1>3, <2>1 DEF ClientTypeOK
<1>5. ClientTypeOK' /\ faults' \in Nat
  <2>1. cpc' \in [Client -> ClientPc]
    BY <1>0, <1>3 DEF ClientTypeOK, ClientPc
  <2> QED BY <1>0, <1>3, <1>4, <2>1 DEF ClientTypeOK
<1>6. ClientOK(c)'
  <2>1. cpc'[c] = IF msg = Null THEN "cmdOnly" ELSE "ready"
    BY <1>0, <1>1, <1>3 DEF ClientTypeOK
  <2> QED BY <1>0, <1>1, <1>2, <1>3, <2>1 DEF ClientOK
<1>7. \A d \in Client \ {c} :
           /\ cpc'[d] = cpc[d] /\ clink'[d] = clink[d]
           /\ m_serverPublicKey'[d] = m_serverPublicKey[d]
           /\ infoLine'[d] = infoLine[d]
  BY <1>0, <1>3 DEF ClientTypeOK
<1> QED BY <1>2, <1>5, <1>6, <1>7, ClientStepKeeps

\* What a user types is a private payload, and no reply.
LEMMA TypedLine ==
  ASSUME NEW line \in Lines
  PROVE  /\ line \in PrivateBody /\ line.type # "reply"
         /\ line.type = "backup" => line.path \in Path
<1>1. ASSUME NEW p \in Path, line = BackupBody(p)
      PROVE  line \in PrivateBody /\ line.type = "backup" /\ line.path \in Path
  BY <1>1 DEF BackupBody, PrivateBody
<1>2. ASSUME NEW marked \in BOOLEAN, line = TextBody(marked)
      PROVE  line \in PrivateBody /\ line.type = "text"
  BY <1>2 DEF TextBody, PrivateBody
<1>3. CASE line = EmptyBody
  BY <1>3 DEF EmptyBody, PrivateBody
<1> QED BY <1>1, <1>2, <1>3 DEF Lines

LEMMA ClientRequestKeeps ==
  ASSUME IInv, NEW c \in Client, UNCHANGED serverVars, ClientRequest(c)
  PROVE  IInv'
<1>0. /\ NetTypeOK /\ faults \in Nat /\ ClientTypeOK /\ ClientOK(c)
      /\ c \in Session /\ c \in Topic
  BY IInvParts DEF ClientPart, Session, Topic
<1>1. PICK line \in Lines :
       \/ /\ clink[c] /\ Publish(c, c, line) /\ NoFault
          /\ asked' = [asked EXCEPT ![c] =
                         IF line.type = "backup" THEN @ \cup {line.path} ELSE @]
          /\ markSent' = (markSent \/ HasMark(line))
       \/ /\ IF clink[c] THEN Fault ELSE NoFault
          /\ UNCHANGED <<netVars, asked, markSent>>
  BY DEF ClientRequest
<1>2. /\ reqs' = [reqs EXCEPT ![c] = @ + 1]
      /\ UNCHANGED <<cpc, clink, infoLine, m_serverPublicKey, authorizedKeys,
                     answered, clientRuns>>
  BY DEF ClientRequest
<1>3. line \in PrivateBody /\ (line.type = "backup" => line.path \in Path)
  BY TypedLine
<1>4. faults' \in Nat
  BY <1>0, <1>1 DEF Fault, NoFault
<1>5. ClientTypeOK'
  <2>0. \/ asked' = asked
        \/ asked' = [asked EXCEPT ![c] =
                       IF line.type = "backup" THEN @ \cup {line.path} ELSE @]
    BY <1>1
  <2>1. asked' \in [Client -> SUBSET Path]
    <3>1. asked \in [Client -> SUBSET Path]
      BY <1>0 DEF ClientTypeOK
    <3>2. (IF line.type = "backup" THEN asked[c] \cup {line.path} ELSE asked[c])
            \in SUBSET Path
      BY <1>3, <3>1
    <3> QED BY <2>0, <3>1, <3>2
  <2>4. markSent' \in BOOLEAN
    BY <1>0, <1>1 DEF ClientTypeOK
  <2>2. reqs' \in [Client -> Nat]
    BY <1>0, <1>2 DEF ClientTypeOK
  <2>3. UNCHANGED <<cpc, clink, infoLine, m_serverPublicKey, authorizedKeys,
                    answered, clientRuns>>
    BY <1>2
  <2> QED BY <1>0, <2>1, <2>2, <2>3, <2>4 DEF ClientTypeOK
<1>6. \A d \in Client \ {c} :
           /\ cpc'[d] = cpc[d] /\ clink'[d] = clink[d]
           /\ m_serverPublicKey'[d] = m_serverPublicKey[d]
           /\ infoLine'[d] = infoLine[d]
  BY <1>2
<1>7. CASE Publish(c, c, line)
  <2>1. /\ NetTypeOK' /\ OthersHear(c) /\ sub' = sub
        /\ \/ inbox'[c] = inbox[c]
           \/ \E m \in Message, u \in Topic :
                sub[c][u] # "none" /\ inbox'[c] = Append(inbox[c], m)
    BY <1>0, <1>3, <1>7, PrivateMessage, PublishHeard
  <2>2. ClientOK(c)'
    BY <1>0, <1>2, <2>1, ClientKept
  <2> QED BY <1>4, <1>5, <1>6, <2>1, <2>2, ClientStepKeeps DEF OthersHear
<1>8. CASE UNCHANGED netVars
  <2>1. NetTypeOK' /\ sub' = sub /\ inbox' = inbox
    BY <1>0, <1>8 DEF netVars, NetTypeOK
  <2>2. ClientOK(c)'
    BY <1>0, <1>2, <2>1, ClientKept
  <2> QED BY <1>4, <1>5, <1>6, <2>1, <2>2, ClientStepKeeps
<1> QED BY <1>1, <1>7, <1>8

LEMMA ClientNextKeeps ==
  ASSUME IInv, NEW c \in Client, UNCHANGED serverVars, ClientNext(c)
  PROVE  IInv'
<1>0. faults \in Nat
  BY IInvParts
<1>1. CASE ClientPublishFails(c)
  <2>1. faults' \in Nat
    BY <1>0, <1>1 DEF ClientPublishFails, Fault, NoFault
  <2> QED BY <1>1, <2>1, ClientEndsKeeps DEF ClientPublishFails
<1>2. CASE ClientStop(c)
  <2>1. faults' \in Nat
    BY <1>0, <1>2 DEF ClientStop
  <2> QED BY <1>2, <2>1, ClientEndsKeeps DEF ClientStop
<1> QED
  BY <1>1, <1>2, ClientConnectKeeps, ClientPublishKeeps, ClientStartConsumingKeeps,
     ClientSubscribeKeeps, ClientWaitKeyKeeps, ClientRequestKeeps,
     ClientReceiveKeeps, ClientLinkLostKeeps
     DEF ClientNext, ClientMain

-----------------------------------------------------------------------------
(* The steps of the server.                                                *)

\* A step of the server keeps the invariant if it keeps the types and the
\* server's part, and gives the clients only what they subscribe to.
LEMMA ServerStepKeeps ==
  ASSUME IInv, UNCHANGED clientVars, NetTypeOK', faults' \in Nat, ServerPart',
         \A c \in Client :
           /\ sub'[c] = sub[c]
           /\ \/ inbox'[c] = inbox[c]
              \/ \E m \in Message, t \in Topic :
                   sub[c][t] # "none" /\ inbox'[c] = Append(inbox[c], m)
  PROVE  IInv'
<1>0. NetTypeOK /\ ClientPart
  BY IInvParts
<1>1. ASSUME NEW c \in Client PROVE ClientOK(c)'
  <2>1. ClientOK(c)
    BY <1>0 DEF ClientPart
  <2>2. /\ cpc'[c] = cpc[c] /\ clink'[c] = clink[c]
        /\ m_serverPublicKey'[c] = m_serverPublicKey[c] /\ infoLine'[c] = infoLine[c]
    BY DEF clientVars
  <2> QED BY <1>0, <2>1, <2>2, ClientKept
<1>2. ClientTypeOK'
  BY <1>0 DEF ClientPart, ClientTypeOK, clientVars
<1> QED BY <1>1, <1>2, IInvParts DEF ClientPart

\* The whole server state but its program counter and threads is unchanged.
LEMMA ServerQuietStep ==
  ASSUME IInv, UNCHANGED clientVars, UNCHANGED netVars, faults' \in Nat,
         UNCHANGED <<m_msgPtr, m_clients>>,
         ServerTypeOK', CopiesToOwnDirectory', MainThreadInv', ThreadInv'
  PROVE  IInv'
<1>0. NetTypeOK /\ ServerPart
  BY IInvParts
<1> USE DEF netVars
<1>1. NetTypeOK'
  BY <1>0 DEF NetTypeOK
<1>2. ServerPart'
  BY <1>0 DEF ServerPart, RegisteredAreHeard, NoEchoToServer, OwnDirectoryInv,
     ServerSessionInv
<1> QED BY <1>1, <1>2, ServerStepKeeps

LEMMA ServerConnectKeeps ==
  ASSUME IInv, UNCHANGED clientVars, ServerConnect
  PROVE  IInv'
<1>0. ServerPart /\ faults \in Nat
  BY IInvParts
<1> USE DEF ServerConnect
<1>1. faults' \in Nat /\ UNCHANGED netVars
  BY <1>0 DEF Fault, NoFault
<1>2. ServerTypeOK'
  <2>1. m_publicKey' \in {KeyBody, EmptyBody} /\ slink' \in BOOLEAN
    OBVIOUS
  <2>2. serverRuns' \in Nat
    BY <1>0 DEF ServerPart, ServerTypeOK
  <2> QED BY <1>0, <2>1, <2>2 DEF ServerPart, ServerTypeOK, ServerPc
<1>3. CopiesToOwnDirectory' /\ ThreadInv'
  BY <1>0 DEF ServerPart, CopiesToOwnDirectory, ThreadInv
<1>4. MainThreadInv'
  BY <1>0 DEF ServerPart, MainThreadInv, Serving, ServerReady
<1> QED BY <1>1, <1>2, <1>3, <1>4, ServerQuietStep

LEMMA ServerCannotReadKeyKeeps ==
  ASSUME IInv, UNCHANGED clientVars, ServerCannotReadKey
  PROVE  IInv'
<1>0. ServerPart /\ faults \in Nat
  BY IInvParts
<1> USE DEF ServerCannotReadKey, brokerVars, netVars
<1>1. faults' \in Nat /\ UNCHANGED netVars
  BY <1>0
<1>2. ServerTypeOK'
  BY <1>0 DEF ServerPart, ServerTypeOK
<1>3. CopiesToOwnDirectory' /\ ThreadInv'
  BY <1>0 DEF ServerPart, CopiesToOwnDirectory, ThreadInv
<1>4. MainThreadInv'
  BY <1>0 DEF ServerPart, MainThreadInv, ServerReady
<1> QED BY <1>1, <1>2, <1>3, <1>4, ServerQuietStep

\* The steps that only move the main thread on.
LEMMA ServerGotoKeeps ==
  ASSUME IInv, UNCHANGED clientVars,
         \/ ServerDisableCallbacks \/ ServerInstallCallbacks
         \/ ServerNewSubscriber \/ ServerNewSubscriberFails
  PROVE  IInv'
<1>0. ServerPart /\ faults \in Nat
  BY IInvParts
<1> USE DEF ServerDisableCallbacks, ServerInstallCallbacks, ServerNewSubscriber,
            ServerNewSubscriberFails, brokerVars, netVars
<1>1. faults' \in Nat /\ UNCHANGED netVars
  BY <1>0 DEF Fault
<1>2. ServerTypeOK'
  BY <1>0 DEF ServerPart, ServerTypeOK, ServerPc
<1>3. CopiesToOwnDirectory' /\ ThreadInv'
  BY <1>0 DEF ServerPart, CopiesToOwnDirectory, ThreadInv
<1>4. MainThreadInv'
  BY <1>0 DEF ServerPart, MainThreadInv, Serving, ServerReady
<1> QED BY <1>1, <1>2, <1>3, <1>4, ServerQuietStep

LEMMA ServerSpawnKeeps ==
  ASSUME IInv, UNCHANGED clientVars, NEW h \in Handler, ServerSpawn(h)
  PROVE  IInv'
<1>0. ServerPart /\ faults \in Nat
  BY IInvParts
<1> USE DEF ServerSpawn, brokerVars, netVars
<1>1. faults' \in Nat /\ UNCHANGED netVars
  BY <1>0
<1>2. ServerTypeOK'
  <2>1. [IdleThread EXCEPT !.pc = "readTopic", !.job = m_msgPtr] \in Thread
    BY <1>0 DEF IdleThread, Thread, ThreadPc, ServerPart, ServerTypeOK
  <2>2. th' \in [Handler -> Thread]
    BY <1>0, <2>1 DEF ServerPart, ServerTypeOK
  <2> QED BY <1>0, <2>2 DEF ServerPart, ServerTypeOK, ServerPc
<1>3. CopiesToOwnDirectory'
  BY <1>0 DEF ServerPart, CopiesToOwnDirectory
<1>4. MainThreadInv'
  BY <1>0 DEF ServerPart, MainThreadInv, Serving, ServerReady
<1>5. ThreadInv'
  <2>1. m_msgPtr # Null
    BY <1>0 DEF ServerPart, MainThreadInv, Serving
  <2>2. th'[h].pc = "readTopic" /\ \A g \in Handler \ {h} : th'[g] = th[g]
    BY <1>0 DEF ServerPart, ServerTypeOK, IdleThread
  <2> QED BY <1>0, <2>1, <2>2 DEF ServerPart, ThreadInv
<1> QED BY <1>1, <1>2, <1>3, <1>4, <1>5, ServerQuietStep

\* A step of thread h that changes its own locals only.
LEMMA ThreadStepKeeps ==
  ASSUME IInv, UNCHANGED clientVars, UNCHANGED brokerVars, NEW h \in Handler,
         UNCHANGED <<spc, slink, m_publicKey, m_msgPtr, m_clients, serverRuns>>,
         NEW t \in Thread, th' = [th EXCEPT ![h] = t], th[h].pc # "idle",
         ran' \subseteq Command, CopiesToOwnDirectory',
         t.pc \in {"readPayload", "search", "exec", "reply"} =>
           t.subscriberIp \in Topic,
         t.pc \in {"search", "exec", "reply"} =>
           t.backUpPath \in [type : {"backup"}, path : Path],
         t.pc \in {"exec", "reply"} =>
           /\ t.subscriberIp \in Client
           /\ t.cmnd \in Command /\ t.cmnd.dir = t.cmnd.host
  PROVE  IInv'
<1>0. ServerPart /\ faults \in Nat
  BY IInvParts
<1>1. faults' \in Nat /\ UNCHANGED netVars
  BY <1>0 DEF brokerVars, netVars
<1>2. ServerTypeOK'
  <2>1. th' \in [Handler -> Thread]
    BY <1>0 DEF ServerPart, ServerTypeOK
  <2> QED BY <1>0, <2>1 DEF ServerPart, ServerTypeOK
<1>3. th'[h] = t /\ \A g \in Handler \ {h} : th'[g] = th[g]
  BY <1>0 DEF ServerPart, ServerTypeOK
<1>4. ThreadInv'
  BY <1>0, <1>3 DEF ServerPart, ThreadInv
<1>5. MainThreadInv'
  <2>1. ServerReady
    BY <1>0 DEF ServerPart, MainThreadInv
  <2> QED BY <1>0, <1>1, <2>1 DEF ServerPart, MainThreadInv, ServerReady, netVars
<1> QED BY <1>1, <1>2, <1>4, <1>5, ServerQuietStep

LEMMA HandlerReadTopicKeeps ==
  ASSUME IInv, UNCHANGED clientVars, NEW h \in Handler, HandlerReadTopic(h)
  PROVE  IInv'
<1>0. ServerTypeOK /\ ThreadInv /\ CopiesToOwnDirectory
  BY IInvParts DEF ServerPart
<1> DEFINE t == [th[h] EXCEPT !.pc = "readPayload", !.subscriberIp = m_msgPtr.topic]
<1>1. th[h] \in Thread /\ th[h].pc = "readTopic"
  BY <1>0 DEF ServerTypeOK, HandlerReadTopic
<1>2. m_msgPtr \in Message
  BY <1>0, <1>1 DEF ThreadInv, ServerTypeOK
<1>3. m_msgPtr.topic \in Topic
  BY <1>2, MessageFacts
<1>4. t \in Thread /\ t.pc = "readPayload" /\ t.subscriberIp \in Topic
  BY <1>1, <1>3 DEF Thread, ThreadPc
<1>5. th' = [th EXCEPT ![h] = t]
  BY <1>0 DEF HandlerReadTopic, ServerTypeOK
<1> HIDE DEF t
<1>6. ran' \subseteq Command /\ CopiesToOwnDirectory'
  BY <1>0 DEF HandlerReadTopic, ServerTypeOK, CopiesToOwnDirectory
<1>7. /\ UNCHANGED <<spc, slink, m_publicKey, m_msgPtr, m_clients, serverRuns>>
      /\ UNCHANGED brokerVars
  BY DEF HandlerReadTopic
<1> QED BY <1>1, <1>4, <1>5, <1>6, <1>7, ThreadStepKeeps

LEMMA HandlerReadPayloadKeeps ==
  ASSUME IInv, UNCHANGED clientVars, NEW h \in Handler, HandlerReadPayload(h)
  PROVE  IInv'
<1>0. ServerTypeOK /\ ThreadInv /\ CopiesToOwnDirectory
  BY IInvParts DEF ServerPart
<1> DEFINE t == IF m_msgPtr.body.type = "backup"
                THEN [th[h] EXCEPT !.pc = "search", !.backUpPath = m_msgPtr.body]
                ELSE IdleThread
<1>1. th[h] \in Thread /\ th[h].pc = "readPayload" /\ th[h].subscriberIp \in Topic
  BY <1>0 DEF ServerTypeOK, HandlerReadPayload, ThreadInv
<1>2. m_msgPtr \in Message
  BY <1>0, <1>1 DEF ThreadInv, ServerTypeOK
<1>3. /\ m_msgPtr.body \in PrivateBody \cup PublicBody
      /\ m_msgPtr.body.type = "backup" =>
           m_msgPtr.body \in [type : {"backup"}, path : Path]
  BY <1>2, MessageFacts
<1>4. t \in Thread /\ t.pc \in {"idle", "search"}
      /\ (t.pc = "search" => /\ t.subscriberIp \in Topic
                             /\ t.backUpPath \in [type : {"backup"}, path : Path])
  <2>1. CASE m_msgPtr.body.type = "backup"
    BY <1>1, <1>3, <2>1 DEF Thread, ThreadPc
  <2>2. CASE m_msgPtr.body.type # "backup"
    BY <2>2 DEF Thread, ThreadPc, IdleThread
  <2> QED BY <2>1, <2>2
<1>5. th' = [th EXCEPT ![h] = t]
  BY <1>0 DEF HandlerReadPayload, ServerTypeOK
<1> HIDE DEF t
<1>6. ran' \subseteq Command /\ CopiesToOwnDirectory'
  BY <1>0 DEF HandlerReadPayload, ServerTypeOK, CopiesToOwnDirectory
<1>7. /\ UNCHANGED <<spc, slink, m_publicKey, m_msgPtr, m_clients, serverRuns>>
      /\ UNCHANGED brokerVars
  BY DEF HandlerReadPayload
<1> QED BY <1>1, <1>4, <1>5, <1>6, <1>7, ThreadStepKeeps

LEMMA HandlerSearchKeeps ==
  ASSUME IInv, UNCHANGED clientVars, NEW h \in Handler, HandlerSearch(h)
  PROVE  IInv'
<1>0. ServerTypeOK /\ ThreadInv /\ CopiesToOwnDirectory /\ OwnDirectoryInv
  BY IInvParts DEF ServerPart
<1>1. /\ th[h] \in Thread /\ th[h].pc = "search"
      /\ th[h].subscriberIp \in Topic
      /\ th[h].backUpPath \in [type : {"backup"}, path : Path]
  BY <1>0 DEF ServerTypeOK, HandlerSearch, ThreadInv
<1>2. PICK i \in 1..Len(m_clients) :
        /\ FirstWith(th[h].subscriberIp, i)
        /\ th' = [th EXCEPT
                    ![h].pc = "exec",
                    ![h].cmnd = CopyCommand(th[h].subscriberIp, m_clients[i],
                                            th[h].backUpPath)]
  BY DEF HandlerSearch
<1> DEFINE cmnd == CopyCommand(th[h].subscriberIp, m_clients[i], th[h].backUpPath)
           t == [th[h] EXCEPT !.pc = "exec", !.cmnd = cmnd]
<1>3. /\ m_clients[i] \in Registration
      /\ m_clients[i].ip = th[h].subscriberIp
      /\ m_clients[i].backupPath = m_clients[i].ip
  BY <1>0, <1>2 DEF FirstWith, ServerTypeOK, OwnDirectoryInv
<1>4. cmnd \in Command /\ cmnd.dir = cmnd.host /\ th[h].subscriberIp \in Client
  BY <1>1, <1>3 DEF CopyCommand, Command, Registration
<1>5. th' = [th EXCEPT ![h] = t]
  BY <1>0, <1>2 DEF ServerTypeOK
<1> HIDE DEF cmnd
<1>6. t \in Thread /\ t.pc = "exec" /\ t.subscriberIp = th[h].subscriberIp
      /\ t.backUpPath = th[h].backUpPath /\ t.cmnd = cmnd
  BY <1>1, <1>4 DEF Thread, ThreadPc
<1> HIDE DEF t
<1>7. ran' \subseteq Command /\ CopiesToOwnDirectory'
  BY <1>0 DEF HandlerSearch, ServerTypeOK, CopiesToOwnDirectory
<1>8. /\ UNCHANGED <<spc, slink, m_publicKey, m_msgPtr, m_clients, serverRuns>>
      /\ UNCHANGED brokerVars
  BY DEF HandlerSearch
<1> QED BY <1>1, <1>4, <1>5, <1>6, <1>7, <1>8, ThreadStepKeeps

LEMMA HandlerExecKeeps ==
  ASSUME IInv, UNCHANGED clientVars, NEW h \in Handler, HandlerExec(h)
  PROVE  IInv'
<1>0. ServerTypeOK /\ ThreadInv /\ CopiesToOwnDirectory
  BY IInvParts DEF ServerPart
<1>1. /\ th[h] \in Thread /\ th[h].pc = "exec"
      /\ th[h].subscriberIp \in Client
      /\ th[h].backUpPath \in [type : {"backup"}, path : Path]
      /\ th[h].cmnd \in Command /\ th[h].cmnd.dir = th[h].cmnd.host
  BY <1>0 DEF ServerTypeOK, HandlerExec, ThreadInv
<1>2. PICK ok \in BOOLEAN : th' = [th EXCEPT ![h].pc = "reply", ![h].ok = ok]
  BY DEF HandlerExec
<1> DEFINE t == [th[h] EXCEPT !.pc = "reply", !.ok = ok]
<1>3. th' = [th EXCEPT ![h] = t]
  BY <1>0, <1>2 DEF ServerTypeOK
<1>4. /\ t \in Thread /\ t.pc = "reply" /\ t.subscriberIp = th[h].subscriberIp
      /\ t.backUpPath = th[h].backUpPath /\ t.cmnd = th[h].cmnd
  BY <1>1 DEF Thread, ThreadPc
<1> HIDE DEF t
<1>5. ran' \subseteq Command /\ CopiesToOwnDirectory'
  BY <1>0, <1>1 DEF HandlerExec, ServerTypeOK, CopiesToOwnDirectory
<1>6. /\ UNCHANGED <<spc, slink, m_publicKey, m_msgPtr, m_clients, serverRuns>>
      /\ UNCHANGED brokerVars
  BY DEF HandlerExec
<1>7. t.subscriberIp \in Topic
  BY <1>1, <1>4 DEF Topic
<1> QED BY <1>1, <1>3, <1>4, <1>5, <1>6, <1>7, ThreadStepKeeps

\* The server process ends: its sessions' state goes with it.
LEMMA ServerExitKeeps ==
  ASSUME IInv, UNCHANGED clientVars, faults' \in Nat, ServerExit
  PROVE  IInv'
<1>0. NetTypeOK /\ ServerPart /\ Server \in Session
      /\ <<>> \in Seq(Message \cup {Null})
  BY IInvParts DEF Session
<1> USE DEF ServerExit
<1>1. /\ NetTypeOK' /\ inbox'[Server] = <<>>
      /\ \A t \in Topic : sub'[Server][t] = "none"
      /\ \A r \in Session \ {Server} : sub'[r] = sub[r] /\ inbox'[r] = inbox[r]
  BY <1>0, EndSessionEffect
<1>2. ServerTypeOK'
  <2>1. IdleThread \in Thread
    BY DEF IdleThread, Thread, ThreadPc
  <2>2. th' \in [Handler -> Thread] /\ m_clients' \in Seq(Registration)
    BY <2>1
  <2> QED BY <1>0, <2>2 DEF ServerPart, ServerTypeOK, ServerPc
<1>3. \A h \in Handler : th'[h].pc = "idle"
  BY DEF IdleThread
<1>4. ServerPart'
  BY <1>0, <1>1, <1>2, <1>3 DEF ServerPart, RegisteredAreHeard, NoEchoToServer,
     CopiesToOwnDirectory, MainThreadInv, ThreadInv, OwnDirectoryInv,
     ServerSessionInv, Serving, ServerReady
<1>5. \A c \in Client : c \in Session \ {Server}
  BY NamesAreDistinct DEF Session
<1> QED BY <1>1, <1>4, <1>5, ServerStepKeeps

LEMMA ServerLinkLostKeeps ==
  ASSUME IInv, UNCHANGED clientVars, ServerLinkLost
  PROVE  IInv'
<1>0. NetTypeOK /\ ServerPart /\ Server \in Session /\ faults \in Nat
      /\ <<>> \in Seq(Message \cup {Null})
  BY IInvParts DEF Session
<1>1. faults' \in Nat
  BY <1>0 DEF ServerLinkLost, Fault
<1>2. CASE spc # "discard"
  BY <1>1, <1>2, ServerExitKeeps DEF ServerLinkLost
<1>3. CASE spc = "discard"
  <2>1. /\ EndSession(Server, <<>>) /\ slink' = FALSE
        /\ UNCHANGED <<spc, m_publicKey, m_msgPtr, m_clients, th, ran, serverRuns>>
    BY <1>3 DEF ServerLinkLost
  <2>2. /\ NetTypeOK' /\ inbox'[Server] = <<>>
        /\ \A t \in Topic : sub'[Server][t] = "none"
        /\ \A r \in Session \ {Server} : sub'[r] = sub[r] /\ inbox'[r] = inbox[r]
    BY <1>0, <2>1, EndSessionEffect
  <2>3. m_clients = <<>>
    BY <1>0, <1>3 DEF ServerPart, MainThreadInv, ServerReady
  <2>4. ServerTypeOK' /\ CopiesToOwnDirectory' /\ ThreadInv' /\ OwnDirectoryInv'
    BY <1>0, <2>1 DEF ServerPart, ServerTypeOK, CopiesToOwnDirectory, ThreadInv,
       OwnDirectoryInv
  <2>5. RegisteredAreHeard' /\ MainThreadInv'
    BY <1>0, <1>3, <2>1, <2>3 DEF ServerPart, RegisteredAreHeard, MainThreadInv,
       Serving, ServerReady
  <2>6. NoEchoToServer' /\ ServerSessionInv'
    BY <1>0, <2>1, <2>2 DEF ServerPart, NoEchoToServer, ServerSessionInv
  <2>7. ServerPart'
    BY <2>4, <2>5, <2>6 DEF ServerPart
  <2>8. \A c \in Client : c \in Session \ {Server}
    BY NamesAreDistinct DEF Session
  <2> QED BY <1>1, <2>2, <2>7, <2>8, ServerStepKeeps
<1> QED BY <1>2, <1>3

\* The server subscribes with no-local: the retained message it may get is not
\* its own, and it hears the topic from now on.
LEMMA ServerSubscribes ==
  ASSUME IInv, NEW t \in Topic, Subscribe(Server, t, "nolocal")
  PROVE  /\ NetTypeOK' /\ sub'[Server] = [sub[Server] EXCEPT ![t] = "nolocal"]
         /\ \A c \in Client : sub'[c] = sub[c] /\ inbox'[c] = inbox[c]
         /\ \A i \in 1..Len(inbox'[Server]) :
              inbox'[Server][i] # Null /\ inbox'[Server][i].from # Server
<1>0. NetTypeOK /\ ServerPart /\ Server \in Session /\ "nolocal" \in SubMode
  BY IInvParts DEF Session, SubMode
<1>1. /\ NetTypeOK' /\ sub'[Server] = [sub[Server] EXCEPT ![t] = "nolocal"]
      /\ \A r \in Session \ {Server} : sub'[r] = sub[r] /\ inbox'[r] = inbox[r]
      /\ \/ inbox'[Server] = inbox[Server]
         \/ retained[t] \in Message /\ Receives(Server, retained[t], "nolocal")
  BY <1>0, SubscribeEffect
<1>2. \A c \in Client : c \in Session \ {Server}
  BY NamesAreDistinct DEF Session
<1>3. \A i \in 1..Len(inbox[Server]) :
        inbox[Server][i] # Null /\ inbox[Server][i].from # Server
  BY <1>0 DEF ServerPart, ServerSessionInv, NoEchoToServer
<1>4. CASE inbox'[Server] = inbox[Server]
  BY <1>1, <1>2, <1>3, <1>4
<1>5. CASE inbox'[Server] # inbox[Server]
  <2>1. /\ retained[t] \in Message /\ inbox'[Server] = Append(inbox[Server], retained[t])
        /\ retained[t].from # Server
    BY <1>1, <1>5 DEF Receives, Accepts
  <2>2. retained[t] # Null
    BY <2>1, NullIsNothingElse
  <2>3. inbox[Server] \in Seq(Message \cup {Null})
    BY <1>0 DEF NetTypeOK
  <2>4. \A i \in 1..Len(inbox'[Server]) :
          inbox'[Server][i] # Null /\ inbox'[Server][i].from # Server
    BY <1>3, <2>1, <2>2, <2>3, AppendElements
  <2> QED BY <1>1, <1>2, <2>4
<1> QED BY <1>4, <1>5

LEMMA ServerSetupsKeeps ==
  ASSUME IInv, UNCHANGED clientVars, ServerSetups
  PROVE  IInv'
<1>0. NetTypeOK /\ ServerPart /\ faults \in Nat /\ Public \in Topic
  BY IInvParts DEF Topic
<1>1. /\ spc = "setup" /\ spc' = "start" /\ faults' \in Nat
      /\ UNCHANGED <<slink, m_publicKey, m_msgPtr, m_clients, th, ran, serverRuns>>
  BY <1>0 DEF ServerSetups, Fault, NoFault
<1>2. ServerTypeOK' /\ CopiesToOwnDirectory' /\ ThreadInv' /\ OwnDirectoryInv'
  BY <1>0, <1>1 DEF ServerPart, ServerTypeOK, ServerPc, CopiesToOwnDirectory,
     ThreadInv, OwnDirectoryInv
<1>3. RegisteredAreHeard' /\ MainThreadInv'
  BY <1>0, <1>1 DEF ServerPart, RegisteredAreHeard, MainThreadInv, Serving,
     ServerReady
<1>4. CASE Subscribe(Server, Public, "nolocal")
  <2>1. /\ NetTypeOK' /\ sub'[Server] = [sub[Server] EXCEPT ![Public] = "nolocal"]
        /\ \A c \in Client : sub'[c] = sub[c] /\ inbox'[c] = inbox[c]
        /\ \A i \in 1..Len(inbox'[Server]) :
             inbox'[Server][i] # Null /\ inbox'[Server][i].from # Server
    BY <1>0, <1>4, ServerSubscribes
  <2>2. sub[Server] \in [Topic -> SubMode]
    BY <1>0 DEF NetTypeOK, Session
  <2>3. NoEchoToServer' /\ ServerSessionInv'
    BY <1>0, <1>1, <2>1, <2>2 DEF ServerPart, NoEchoToServer, ServerSessionInv
  <2>4. ServerPart'
    BY <1>2, <1>3, <2>3 DEF ServerPart
  <2> QED BY <1>1, <2>1, <2>4, ServerStepKeeps
<1>5. CASE UNCHANGED netVars
  BY <1>0, <1>1, <1>2, <1>3, <1>5, ServerQuietStep
<1> QED BY <1>4, <1>5 DEF ServerSetups

\* The server takes a message: not null, and not its own.
LEMMA ServerTakes ==
  ASSUME IInv, Take(Server)
  PROVE  /\ NetTypeOK' /\ sub' = sub
         /\ \A c \in Client : inbox'[c] = inbox[c]
         /\ \A i \in 1..Len(inbox'[Server]) :
              inbox'[Server][i] # Null /\ inbox'[Server][i].from # Server
         /\ Head(inbox[Server]) \in Message /\ Head(inbox[Server]).from # Server
<1>0. /\ NetTypeOK /\ ServerPart /\ Server \in Session
      /\ inbox[Server] \in Seq(Message \cup {Null})
  BY IInvParts DEF Session, NetTypeOK
<1>1. /\ NetTypeOK' /\ sub' = sub
      /\ inbox[Server] # <<>> /\ inbox'[Server] = Tail(inbox[Server])
      /\ \A r \in Session \ {Server} : inbox'[r] = inbox[r]
  BY <1>0, TakeEffect
<1>2. \A c \in Client : c \in Session \ {Server}
  BY NamesAreDistinct DEF Session
<1>3. \A i \in 1..Len(inbox[Server]) :
        inbox[Server][i] # Null /\ inbox[Server][i].from # Server
  BY <1>0 DEF ServerPart, ServerSessionInv, NoEchoToServer
<1>4. /\ Head(inbox[Server]) \in Message \cup {Null}
      /\ Head(inbox[Server]) = inbox[Server][1] /\ 1 \in 1..Len(inbox[Server])
      /\ \A i \in 1..Len(Tail(inbox[Server])) :
           /\ i + 1 \in 1..Len(inbox[Server])
           /\ Tail(inbox[Server])[i] = inbox[Server][i + 1]
  BY <1>0, <1>1, TailElements
<1>5. Head(inbox[Server]) \in Message /\ Head(inbox[Server]).from # Server
  BY <1>3, <1>4
<1>6. \A i \in 1..Len(inbox'[Server]) :
        inbox'[Server][i] # Null /\ inbox'[Server][i].from # Server
  BY <1>1, <1>3, <1>4
<1> QED BY <1>1, <1>2, <1>5, <1>6

LEMMA ServerTakeKeeps ==
  ASSUME IInv, UNCHANGED clientVars, ServerDiscardArrived \/ ServerConsume
  PROVE  IInv'
<1>0. ServerPart /\ faults \in Nat
  BY IInvParts
<1>1. /\ Take(Server) /\ faults' \in Nat
      /\ UNCHANGED <<slink, m_publicKey, m_clients, th, ran, serverRuns>>
  BY <1>0 DEF ServerDiscardArrived, ServerConsume, serverVars
<1>2. /\ NetTypeOK' /\ sub' = sub
      /\ \A c \in Client : inbox'[c] = inbox[c]
      /\ \A i \in 1..Len(inbox'[Server]) :
           inbox'[Server][i] # Null /\ inbox'[Server][i].from # Server
      /\ Head(inbox[Server]) \in Message /\ Head(inbox[Server]).from # Server
  BY <1>1, ServerTakes
<1>3. \/ /\ spc' = spc /\ m_msgPtr' = m_msgPtr
      \/ /\ spc = "consume" /\ spc' = "assign" /\ m_msgPtr' = Head(inbox[Server])
  BY DEF ServerDiscardArrived, ServerConsume, serverVars
<1>4. m_msgPtr' # m_msgPtr => m_msgPtr' \in Message /\ m_msgPtr' # Null
  BY <1>2, <1>3, NullIsNothingElse
<1>5. spc' # spc => m_msgPtr' \in Message /\ m_msgPtr' # Null
  BY <1>2, <1>3, NullIsNothingElse
<1>6. ServerTypeOK'
  BY <1>0, <1>1, <1>3, <1>4 DEF ServerPart, ServerTypeOK, ServerPc
<1>7. RegisteredAreHeard' /\ OwnDirectoryInv' /\ CopiesToOwnDirectory'
  BY <1>0, <1>1, <1>2 DEF ServerPart, RegisteredAreHeard, OwnDirectoryInv,
     CopiesToOwnDirectory
<1>8. MainThreadInv'
  BY <1>0, <1>1, <1>2, <1>3, <1>5 DEF ServerPart, MainThreadInv, Serving, ServerReady
<1>9. ThreadInv'
  BY <1>0, <1>1, <1>4 DEF ServerPart, ThreadInv
<1>10. NoEchoToServer' /\ ServerSessionInv'
  BY <1>0, <1>2, <1>3 DEF ServerPart, NoEchoToServer, ServerSessionInv
<1>11. ServerPart'
  BY <1>6, <1>7, <1>8, <1>9, <1>10 DEF ServerPart
<1> QED BY <1>1, <1>2, <1>11, ServerStepKeeps

\* While it handles an announcement, the main thread knows who announced itself.
LEMMA AnnouncedClient ==
  ASSUME IInv, spc \in Serving \ {"assign"}
  PROVE  /\ m_msgPtr \in Message /\ m_msgPtr.topic = Public
         /\ m_msgPtr.body \in PublicBody /\ m_msgPtr.body.ip \in Client
<1>1. m_msgPtr \in Message /\ m_msgPtr.topic = Public
  BY IInvParts DEF ServerPart, ServerTypeOK, MainThreadInv
<1>2. m_msgPtr.body \in PublicBody
  BY <1>1, MessageFacts
<1> QED BY <1>1, <1>2 DEF PublicBody

LEMMA ServerSubscribeClientKeeps ==
  ASSUME IInv, UNCHANGED clientVars, ServerSubscribeClient
  PROVE  IInv'
<1> DEFINE ip == m_msgPtr.body.ip
<1>0. NetTypeOK /\ ServerPart /\ faults \in Nat
  BY IInvParts
<1>1. /\ spc = "subscribe" /\ spc' = "publishKey" /\ faults' \in Nat
      /\ Subscribe(Server, ip, "nolocal")
      /\ UNCHANGED <<slink, m_publicKey, m_msgPtr, m_clients, th, ran, serverRuns>>
  BY <1>0 DEF ServerSubscribeClient
<1>2. ip \in Topic
  BY <1>1, AnnouncedClient DEF Serving, Topic
<1>3. /\ NetTypeOK' /\ sub'[Server] = [sub[Server] EXCEPT ![ip] = "nolocal"]
      /\ \A c \in Client : sub'[c] = sub[c] /\ inbox'[c] = inbox[c]
      /\ \A i \in 1..Len(inbox'[Server]) :
           inbox'[Server][i] # Null /\ inbox'[Server][i].from # Server
  BY <1>1, <1>2, ServerSubscribes
<1>4. sub[Server] \in [Topic -> SubMode]
  BY <1>0 DEF NetTypeOK, Session
<1>5. ServerTypeOK' /\ CopiesToOwnDirectory' /\ ThreadInv' /\ OwnDirectoryInv'
  BY <1>0, <1>1 DEF ServerPart, ServerTypeOK, ServerPc, CopiesToOwnDirectory,
     ThreadInv, OwnDirectoryInv
<1>6. RegisteredAreHeard'
  <2>1. \A i \in 1..Len(m_clients) : m_clients[i].ip \in Topic
    <3>1. m_clients \in Seq(Registration)
      BY <1>0 DEF ServerPart, ServerTypeOK
    <3>2. \A i \in 1..Len(m_clients) : m_clients[i] \in Registration
      BY <3>1
    <3> QED BY <3>2 DEF Registration, Topic
  <2> QED BY <1>0, <1>1, <1>3, <1>4, <2>1 DEF ServerPart, RegisteredAreHeard
<1>7. MainThreadInv'
  <2>1. sub'[Server][ip] = "nolocal" /\ m_msgPtr' = m_msgPtr
    BY <1>1, <1>2, <1>3, <1>4
  <2> QED BY <1>0, <1>1, <2>1 DEF ServerPart, MainThreadInv, Serving, ServerReady
<1>8. NoEchoToServer' /\ ServerSessionInv'
  BY <1>0, <1>1, <1>3, <1>4 DEF ServerPart, NoEchoToServer, ServerSessionInv
<1>9. ServerPart'
  BY <1>5, <1>6, <1>7, <1>8 DEF ServerPart
<1> QED BY <1>1, <1>3, <1>9, ServerStepKeeps

LEMMA ServerRegisterKeeps ==
  ASSUME IInv, UNCHANGED clientVars, ServerRegister
  PROVE  IInv'
<1> DEFINE new == NewRegistration(m_msgPtr.body)
<1>0. NetTypeOK /\ ServerPart /\ faults \in Nat /\ m_clients \in Seq(Registration)
  BY IInvParts DEF ServerPart, ServerTypeOK
<1>1. /\ spc = "register" /\ spc' = "consume"
      /\ m_clients' = Append(m_clients, new)
      /\ UNCHANGED <<brokerVars, slink, m_publicKey, m_msgPtr, th, ran, serverRuns>>
  BY DEF ServerRegister
<1>2. NetTypeOK' /\ faults' \in Nat /\ sub' = sub /\ inbox' = inbox
  BY <1>0, <1>1 DEF brokerVars, NetTypeOK
<1>3. new \in Registration /\ new.backupPath = new.ip /\ new.ip = m_msgPtr.body.ip
  <2>1. m_msgPtr.body \in PublicBody
    BY <1>1, AnnouncedClient DEF Serving
  <2> QED BY <2>1, RegistrationType
<1>4. sub[Server][new.ip] = "nolocal"
  BY <1>0, <1>1, <1>3 DEF ServerPart, MainThreadInv
<1> HIDE DEF new
<1>5. /\ m_clients' \in Seq(Registration)
      /\ \A i \in 1..Len(m_clients') :
           m_clients'[i] = new \/ (i \in 1..Len(m_clients) /\ m_clients'[i] = m_clients[i])
  BY <1>0, <1>1, <1>3, AppendElements
<1>6. ServerTypeOK' /\ CopiesToOwnDirectory' /\ ThreadInv'
  BY <1>0, <1>1, <1>5 DEF ServerPart, ServerTypeOK, ServerPc, CopiesToOwnDirectory,
     ThreadInv
<1>7. OwnDirectoryInv' /\ RegisteredAreHeard'
  BY <1>0, <1>2, <1>3, <1>4, <1>5 DEF ServerPart, OwnDirectoryInv, RegisteredAreHeard
<1>8. MainThreadInv' /\ NoEchoToServer' /\ ServerSessionInv'
  BY <1>0, <1>1, <1>2 DEF ServerPart, MainThreadInv, NoEchoToServer,
     ServerSessionInv, Serving, ServerReady
<1>9. ServerPart'
  BY <1>6, <1>7, <1>8 DEF ServerPart
<1> QED BY <1>2, <1>9, ServerStepKeeps

\* The server publishes: nothing comes back to it.
LEMMA ServerPublishes ==
  ASSUME IInv, NEW c \in Client, NEW body \in PrivateBody, Publish(Server, c, body)
  PROVE  /\ NetTypeOK' /\ sub' = sub /\ inbox'[Server] = inbox[Server]
         /\ \A d \in Client :
              \/ inbox'[d] = inbox[d]
              \/ \E m \in Message, t \in Topic :
                   sub[d][t] # "none" /\ inbox'[d] = Append(inbox[d], m)
<1> DEFINE m == [topic |-> c, body |-> body, from |-> Server]
<1>0. NetTypeOK /\ ServerPart /\ Server \in Session /\ c \in Topic /\ m \in Message
  BY IInvParts, PrivateMessage DEF Session, Topic
<1>1. /\ NetTypeOK' /\ sub' = sub
      /\ \A r \in Session : Receives(r, m, sub[r][c])
  BY <1>0, PublishEffect
<1>2. inbox'[Server] = inbox[Server]
  <2>1. sub[Server][c] # "local"
    BY <1>0 DEF ServerPart, ServerSessionInv
  <2>2. m.from = Server
    OBVIOUS
  <2> QED BY <1>0, <1>1, <2>1, <2>2 DEF Receives, Accepts
<1>3. ASSUME NEW d \in Client, inbox'[d] # inbox[d]
      PROVE  sub[d][c] # "none" /\ inbox'[d] = Append(inbox[d], m)
  <2>1. Receives(d, m, sub[d][c])
    BY <1>1 DEF Session
  <2> QED BY <1>3, <2>1 DEF Receives, Accepts
<1> QED BY <1>0, <1>1, <1>2, <1>3

LEMMA ServerPublishKeyKeeps ==
  ASSUME IInv, UNCHANGED clientVars, ServerPublishKey
  PROVE  IInv'
<1>0. ServerPart /\ faults \in Nat
  BY IInvParts
<1>1. /\ spc = "publishKey" /\ spc' = "register" /\ faults' \in Nat
      /\ Publish(Server, m_msgPtr.body.ip, m_publicKey)
      /\ UNCHANGED <<slink, m_publicKey, m_msgPtr, m_clients, th, ran, serverRuns>>
  BY <1>0 DEF ServerPublishKey
<1>2. m_msgPtr.body.ip \in Client /\ m_publicKey \in PrivateBody
  <2>1. m_msgPtr.body.ip \in Client
    BY <1>1, AnnouncedClient DEF Serving
  <2> QED BY <1>0, <2>1 DEF ServerPart, ServerTypeOK, PrivateBody, KeyBody, EmptyBody
<1>3. /\ NetTypeOK' /\ sub' = sub /\ inbox'[Server] = inbox[Server]
      /\ \A d \in Client :
           \/ inbox'[d] = inbox[d]
           \/ \E m \in Message, t \in Topic :
                sub[d][t] # "none" /\ inbox'[d] = Append(inbox[d], m)
  BY <1>1, <1>2, ServerPublishes
<1>4. ServerPart'
  <2>1. ServerTypeOK' /\ CopiesToOwnDirectory' /\ ThreadInv' /\ OwnDirectoryInv'
    BY <1>0, <1>1 DEF ServerPart, ServerTypeOK, ServerPc, CopiesToOwnDirectory,
       ThreadInv, OwnDirectoryInv
  <2>2. /\ RegisteredAreHeard' /\ MainThreadInv'
        /\ NoEchoToServer' /\ ServerSessionInv'
    BY <1>0, <1>1, <1>3 DEF ServerPart, RegisteredAreHeard, MainThreadInv,
       NoEchoToServer, ServerSessionInv, Serving, ServerReady
  <2> QED BY <2>1, <2>2 DEF ServerPart
<1> QED BY <1>1, <1>3, <1>4, ServerStepKeeps

LEMMA HandlerReplyKeeps ==
  ASSUME IInv, UNCHANGED clientVars, NEW h \in Handler, HandlerReply(h)
  PROVE  IInv'
<1>0. ServerPart /\ faults \in Nat
  BY IInvParts
<1> DEFINE body == ReplyBody(th[h].backUpPath.path, th[h].ok)
<1>1. /\ th[h].pc = "reply" /\ faults' \in Nat
      /\ Publish(Server, th[h].subscriberIp, body)
      /\ th' = [th EXCEPT ![h] = IdleThread]
      /\ UNCHANGED <<spc, slink, m_publicKey, m_msgPtr, m_clients, ran, serverRuns>>
  BY <1>0 DEF HandlerReply
<1>2. th[h].subscriberIp \in Client /\ body \in PrivateBody
  <2>1. /\ th[h].subscriberIp \in Client /\ th[h] \in Thread
        /\ th[h].backUpPath \in [type : {"backup"}, path : Path]
    BY <1>0, <1>1 DEF ServerPart, ThreadInv, ServerTypeOK
  <2> QED BY <2>1 DEF ReplyBody, PrivateBody, Thread
<1>3. /\ NetTypeOK' /\ sub' = sub /\ inbox'[Server] = inbox[Server]
      /\ \A d \in Client :
           \/ inbox'[d] = inbox[d]
           \/ \E m \in Message, t \in Topic :
                sub[d][t] # "none" /\ inbox'[d] = Append(inbox[d], m)
  BY <1>1, <1>2, ServerPublishes
<1>4. ServerPart'
  <2>1. /\ th' \in [Handler -> Thread] /\ th'[h].pc = "idle"
        /\ \A g \in Handler \ {h} : th'[g] = th[g]
    BY <1>0, <1>1 DEF ServerPart, ServerTypeOK, IdleThread, Thread, ThreadPc
  <2>2. ServerTypeOK' /\ CopiesToOwnDirectory' /\ OwnDirectoryInv'
    BY <1>0, <1>1, <2>1 DEF ServerPart, ServerTypeOK, ServerPc,
       CopiesToOwnDirectory, OwnDirectoryInv
  <2>3. ThreadInv'
    BY <1>0, <1>1, <2>1 DEF ServerPart, ThreadInv
  <2>4. /\ RegisteredAreHeard' /\ MainThreadInv'
        /\ NoEchoToServer' /\ ServerSessionInv'
    BY <1>0, <1>1, <1>3, <2>1 DEF ServerPart, RegisteredAreHeard, MainThreadInv,
       NoEchoToServer, ServerSessionInv, Serving, ServerReady
  <2> QED BY <2>2, <2>3, <2>4 DEF ServerPart
<1> QED BY <1>1, <1>3, <1>4, ServerStepKeeps

LEMMA ServerNextKeeps ==
  ASSUME IInv, UNCHANGED clientVars, ServerNext
  PROVE  IInv'
<1>0. faults \in Nat
  BY IInvParts
<1>1. ASSUME NEW h \in Handler, HandlerStep(h) PROVE IInv'
  <2>1. CASE HandlerSearchMisses(h)
    BY <1>0, <2>1, ServerExitKeeps DEF HandlerSearchMisses, NoFault
  <2> QED BY <1>1, <2>1, HandlerReadTopicKeeps, HandlerReadPayloadKeeps,
             HandlerSearchKeeps, HandlerExecKeeps, HandlerReplyKeeps DEF HandlerStep
<1>2. ASSUME NEW h \in Handler,
             HandlerReadRaces(h) \/ HandlerSearchRaces(h) \/ HandlerThrows(h)
      PROVE  IInv'
  BY <1>0, <1>2, ServerExitKeeps DEF HandlerReadRaces, HandlerSearchRaces,
     HandlerThrows, NoFault, Fault
<1>3. CASE ServerFailure
  BY <1>2, <1>3, ServerTakeKeeps, ServerGotoKeeps, ServerLinkLostKeeps
     DEF ServerFailure
<1>4. CASE ServerMain
  BY <1>4, ServerSetupsKeeps, ServerGotoKeeps, ServerTakeKeeps, ServerSpawnKeeps,
     ServerSubscribeClientKeeps, ServerPublishKeyKeeps, ServerRegisterKeeps
     DEF ServerMain
<1> QED
  BY <1>1, <1>3, <1>4, ServerConnectKeeps, ServerCannotReadKeyKeeps DEF ServerNext

-----------------------------------------------------------------------------
(* The theorems.                                                           *)

LEMMA StutterKeeps == IInv /\ UNCHANGED vars => IInv'
  BY DEF vars, brokerVars, serverVars, clientVars, IInv, TypeOK, BrokerTypeOK,
     ServerTypeOK, ClientTypeOK, RegisteredAreHeard, NoEchoToServer,
     CopiesToOwnDirectory, MainThreadInv, ThreadInv,
     OwnDirectoryInv, ServerSessionInv, ClientSessionInv, ServerReady

\* The invariant behind the safety properties holds throughout.
THEOREM Invariance == Spec => []IInv
<1>1. IInv /\ [Next]_vars => IInv'
  <2> SUFFICES ASSUME IInv, [Next]_vars PROVE IInv'
    OBVIOUS
  <2>1. CASE ServerNext /\ UNCHANGED clientVars
    BY <2>1, ServerNextKeeps
  <2>2. ASSUME NEW c \in Client, ClientNext(c), UNCHANGED serverVars PROVE IInv'
    BY <2>2, ClientNextKeeps
  <2>3. CASE UNCHANGED vars
    BY <2>3, StutterKeeps
  <2> QED BY <2>1, <2>2, <2>3 DEF Next
<1> QED BY <1>1, InitIInv, PTL DEF Spec

\* Every variable keeps its type: no step of the server, its threads or a
\* client leaves an ill-formed message, thread or registration.
THEOREM TypeCorrect == Spec => []TypeOK
<1>1. IInv => TypeOK
  BY DEF IInv
<1> QED BY <1>1, Invariance, PTL

\* The server hears the private channel of every client it has registered.
THEOREM RegisteredAlwaysHeard == Spec => []RegisteredAreHeard
<1>1. IInv => RegisteredAreHeard
  BY DEF IInv
<1> QED BY <1>1, Invariance, PTL

\* No publication of the server ever comes back to it.
THEOREM ServerNeverEchoes == Spec => []NoEchoToServer
<1>1. IInv => NoEchoToServer
  BY DEF IInv
<1> QED BY <1>1, Invariance, PTL

\* Whatever the threads read from m_msgPtr, each copy lands in the directory
\* of the host it came from.
THEOREM CopiesStaySeparate == Spec => []CopiesToOwnDirectory
<1>1. IInv => CopiesToOwnDirectory
  BY DEF IInv
<1> QED BY <1>1, Invariance, PTL

-----------------------------------------------------------------------------
(* The key in the authorized_keys files.                                   *)

\* keyVars: what the installed keys depend on.
keyVars == <<m_serverPublicKey, infoLine, authorizedKeys>>

\* A client changes what it knows of the key only when it starts, and when it
\* takes a message while it waits.
LEMMA KeyVarsKept ==
  ASSUME [Next]_vars,
         ~ \E c \in Client : ClientConnect(c) \/ ClientWaitKey(c)
  PROVE  UNCHANGED keyVars
<1>1. CASE UNCHANGED vars \/ UNCHANGED clientVars
  BY <1>1 DEF vars, clientVars, keyVars
<1>2. ASSUME NEW c \in Client, ClientNext(c) PROVE UNCHANGED keyVars
  BY <1>2 DEF ClientNext, ClientMain, ClientPublish, ClientPublishFails,
     ClientStartConsuming, ClientSubscribe, ClientReceive, ClientRequest,
     ClientLinkLost, ClientStop, Goto, keyVars
<1> QED BY <1>1, <1>2 DEF Next

\* A client that starts has no key, and the files are as they were.
LEMMA ConnectKeepsKeyFiles ==
  ASSUME IInv, KeyFilesInv, NEW c \in Client, ClientConnect(c)
  PROVE  KeyFilesInv'
<1>0. ClientTypeOK
  BY IInvParts DEF ClientPart
<1>1. authorizedKeys' = authorizedKeys /\ m_serverPublicKey'[c] # KeyBody
  BY <1>0, NullIsNothingElse DEF ClientConnect, ClientTypeOK, PrivateBody, KeyBody
<1>2. \A d \in Client \ {c} : /\ m_serverPublicKey'[d] = m_serverPublicKey[d]
                             /\ infoLine'[d] = infoLine[d]
  BY <1>0 DEF ClientConnect, ClientTypeOK
<1> QED BY <1>1, <1>2 DEF KeyFilesInv, KeyInstalledOnce, Holds, KeyFile

\* A file that a text is added to holds what it held, and the text; and if the
\* text is the key, it had none.
LEMMA AddedToFile ==
  ASSUME ClientTypeOK, NEW f \in Client \X Word, NEW text \in PrivateBody,
         authorizedKeys' = [authorizedKeys EXCEPT ![f] = Append(@, text)],
         text = KeyBody => ~Holds(f, KeyBody),
         \A i, j \in 1..Len(authorizedKeys[f]) :
           authorizedKeys[f][i] = KeyBody /\ authorizedKeys[f][j] = KeyBody
             => i = j
  PROVE  /\ \A g \in (Client \X Word) \ {f} : authorizedKeys'[g] = authorizedKeys[g]
         /\ text = KeyBody \/ Holds(f, KeyBody) => Holds(f, KeyBody)'
         /\ \A i, j \in 1..Len(authorizedKeys'[f]) :
              authorizedKeys'[f][i] = KeyBody /\ authorizedKeys'[f][j] = KeyBody
                => i = j
<1> DEFINE old == authorizedKeys[f]
           new == authorizedKeys'[f]
<1>1. old \in Seq(PrivateBody) /\ new = Append(old, text)
      /\ \A g \in (Client \X Word) \ {f} : authorizedKeys'[g] = authorizedKeys[g]
  BY DEF ClientTypeOK
<1>2. /\ Len(new) = Len(old) + 1 /\ Len(old) \in Nat
      /\ \A i \in 1..Len(old) : new[i] = old[i]
      /\ new[Len(old) + 1] = text
  BY <1>1, AppendElements
<1>3. text = KeyBody => \A i \in 1..Len(old) : old[i] # KeyBody
  BY DEF Holds
<1>4. text = KeyBody \/ Holds(f, KeyBody) => Holds(f, KeyBody)'
  BY <1>2 DEF Holds
<1>5. ASSUME NEW i \in 1..Len(new), NEW j \in 1..Len(new),
             new[i] = KeyBody, new[j] = KeyBody
      PROVE  i = j
  <2>1. CASE i \in 1..Len(old) /\ j \in 1..Len(old)
    BY <1>2, <1>5, <2>1
  <2>2. CASE ~(i \in 1..Len(old) /\ j \in 1..Len(old))
    <3>1. text = KeyBody
      BY <1>2, <1>5, <2>2
    <3>2. i = Len(old) + 1 /\ j = Len(old) + 1
      BY <1>2, <1>3, <1>5, <3>1
    <3> QED BY <3>2
  <2> QED BY <2>1, <2>2
<1> QED BY <1>1, <1>4, <1>5

\* What a client takes for the key it adds to the file of its user, if there is
\* one, and the key only if that has it not; the files of others are left alone.
LEMMA WaitKeyKeepsKeyFiles ==
  ASSUME IInv, KeyFilesInv, NEW c \in Client, ClientWaitKey(c)
  PROVE  KeyFilesInv'
<1>0. ClientTypeOK /\ ClientOK(c) /\ NetTypeOK /\ KeyInstalledOnce
  BY IInvParts DEF ClientPart, KeyFilesInv
<1> DEFINE msg == Head(inbox[c])
           f == KeyFile(c)
<1>1. infoLine' = infoLine /\ f' = f /\ \A d \in Client : KeyFile(d)' = KeyFile(d)
  BY DEF ClientWaitKey, KeyFile
<1>2. CASE ~IsKeyMsg(c, msg)
  <2>1. UNCHANGED <<m_serverPublicKey, authorizedKeys>>
    BY <1>2 DEF ClientWaitKey
  <2> QED BY <1>1, <2>1 DEF KeyFilesInv, KeyInstalledOnce, Holds
<1>3. CASE IsKeyMsg(c, msg)
  <2>1. HandlePubKeyMsg(c, msg.body)
    BY <1>3 DEF ClientWaitKey
  <2>2. msg.body \in PrivateBody
    <3>1. msg \in Message \cup {Null}
      BY <1>0, ClientTakes DEF ClientWaitKey
    <3> QED BY <1>3, <3>1, KeyMsgIsPrivate
  <2>3. /\ m_serverPublicKey'[c] = msg.body
        /\ \A d \in Client \ {c} : m_serverPublicKey'[d] = m_serverPublicKey[d]
    BY <1>0, <2>1, <2>2, KeyHandled
  <2>4. \A d \in Client \ {c} : KeyFile(d) # f
    BY DEF KeyFile
  <2>5. CASE authorizedKeys' = authorizedKeys /\ TRUE \in IsTxtExist(c, msg.body)
    <3>1. msg.body = KeyBody /\ f \in HasKeyFile => Holds(f, KeyBody)
      BY <2>5 DEF IsTxtExist, Holds
    <3> HIDE DEF f, msg
    <3>2. \A g : Holds(g, KeyBody)' = Holds(g, KeyBody)
      BY <2>5 DEF Holds
    <3>3. ASSUME NEW d \in Client, m_serverPublicKey'[d] = KeyBody,
                 KeyFile(d)' \in HasKeyFile
          PROVE  Holds(KeyFile(d), KeyBody)'
      <4>1. Holds(KeyFile(d), KeyBody)
        <5>1. CASE d = c
          BY <1>1, <2>3, <3>1, <3>3, <5>1 DEF f
        <5>2. CASE d # c
          BY <1>0, <1>1, <2>3, <3>3, <5>2 DEF KeyInstalledOnce
        <5> QED BY <5>1, <5>2
      <4> QED BY <1>1, <2>5, <4>1 DEF Holds
    <3> QED BY <1>0, <2>5, <3>3 DEF KeyFilesInv, KeyInstalledOnce
  <2>6. CASE /\ FALSE \in IsTxtExist(c, msg.body)
             /\ f \in HasKeyFile /\ f \in Client \X Word
             /\ authorizedKeys' = [authorizedKeys EXCEPT
                                    ![f] = Append(@, msg.body)]
    <3>1. msg.body = KeyBody => ~Holds(f, KeyBody)
      BY <2>6 DEF IsTxtExist, Holds
    <3>2. /\ \A g \in (Client \X Word) \ {f} : authorizedKeys'[g] = authorizedKeys[g]
          /\ msg.body = KeyBody \/ Holds(f, KeyBody) => Holds(f, KeyBody)'
          /\ \A i, j \in 1..Len(authorizedKeys'[f]) :
               authorizedKeys'[f][i] = KeyBody /\ authorizedKeys'[f][j] = KeyBody
                 => i = j
      <4> HIDE DEF f, msg
      <4>1. \A i, j \in 1..Len(authorizedKeys[f]) :
              authorizedKeys[f][i] = KeyBody /\ authorizedKeys[f][j] = KeyBody
                => i = j
        BY <1>0, <2>6 DEF KeyInstalledOnce
      <4>2. f' = f
        BY <1>1
      <4> QED BY <1>0, <2>2, <2>6, <3>1, <4>1, <4>2, AddedToFile
    <3> HIDE DEF f, msg
    <3>3. ASSUME NEW g \in Client \X Word
          PROVE  \A i, j \in 1..Len(authorizedKeys'[g]) :
                   authorizedKeys'[g][i] = KeyBody /\ authorizedKeys'[g][j] = KeyBody
                     => i = j
      BY <1>0, <3>2 DEF KeyInstalledOnce
    <3>4. ASSUME NEW d \in Client, m_serverPublicKey'[d] = KeyBody,
                 KeyFile(d)' \in HasKeyFile
          PROVE  Holds(KeyFile(d), KeyBody)'
      <4>1. CASE d = c
        BY <1>1, <2>3, <3>2, <3>4, <4>1 DEF f, Holds
      <4>2. CASE d # c
        <5>1. Holds(KeyFile(d), KeyBody)
          BY <1>0, <1>1, <2>3, <3>4, <4>2 DEF KeyInstalledOnce
        <5>2. KeyFile(d) \in (Client \X Word) \ {f}
          BY <1>1, <2>4, <3>4, <4>2, ClientBounds
        <5> QED BY <1>1, <3>2, <5>1, <5>2 DEF Holds
      <4> QED BY <4>1, <4>2
    <3>5. \A g \in (Client \X Word) \ HasKeyFile : authorizedKeys'[g] = <<>>
      BY <2>6, <3>2 DEF KeyFilesInv
    <3> QED BY <3>3, <3>4, <3>5 DEF KeyFilesInv, KeyInstalledOnce
  <2>7. \/ authorizedKeys' = authorizedKeys /\ TRUE \in IsTxtExist(c, msg.body)
        \/ /\ FALSE \in IsTxtExist(c, msg.body)
           /\ f \in HasKeyFile /\ f \in Client \X Word
           /\ authorizedKeys' = [authorizedKeys EXCEPT
                                  ![f] = Append(@, msg.body)]
    BY <1>0, <2>1, <2>2, KeyHandled
  <2> QED BY <2>5, <2>6, <2>7
<1> QED BY <1>2, <1>3

\* Whatever the prompts were answered with, whichever files there are, and
\* whatever was taken for the key, the files hold what KeyInstalledOnce says, and
\* none is created.
THEOREM KeyFilesHold == Spec => []KeyFilesInv
<1>1. Init => KeyFilesInv
  <2> SUFFICES ASSUME Init PROVE KeyFilesInv
    OBVIOUS
  <2>1. \A c \in Client : m_serverPublicKey[c] # KeyBody
    <3>1. KeyBody # Null
      BY NullIsNothingElse DEF PrivateBody, KeyBody
    <3> QED BY <3>1 DEF Init, ClientInit
  <2>2. \A f \in Client \X Word : authorizedKeys[f] = <<>>
    BY DEF Init, ClientInit
  <2> QED BY <2>1, <2>2 DEF KeyFilesInv, KeyInstalledOnce
<1>2. IInv /\ KeyFilesInv /\ [Next]_vars => KeyFilesInv'
  <2> SUFFICES ASSUME IInv, KeyFilesInv, [Next]_vars PROVE KeyFilesInv'
    OBVIOUS
  <2>1. CASE \E c \in Client : ClientConnect(c) \/ ClientWaitKey(c)
    BY <2>1, ConnectKeepsKeyFiles, WaitKeyKeepsKeyFiles
  <2>2. CASE ~ \E c \in Client : ClientConnect(c) \/ ClientWaitKey(c)
    BY <2>2, KeyVarsKept DEF keyVars, KeyFilesInv, KeyInstalledOnce, Holds, KeyFile
  <2> QED BY <2>1, <2>2
<1> QED BY <1>1, <1>2, Invariance, PTL DEF Spec

\* No authorized_keys file ever gets the key twice, and the one of the user whose
\* client has the key holds it, if there is such a file.
THEOREM KeyIsInstalledOnce == Spec => []KeyInstalledOnce
<1>1. KeyFilesInv => KeyInstalledOnce
  BY DEF KeyFilesInv
<1> QED BY <1>1, KeyFilesHold, PTL
=============================================================================
