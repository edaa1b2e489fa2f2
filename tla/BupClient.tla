----------------------------- MODULE BupClient ------------------------------
(***************************************************************************)
(* The backup clients, appFiles/_appClient.cpp.  A client announces itself *)
(* on the public channel, subscribes to its private one, waits there for   *)
(* the server's key, and then runs two threads: one sends the lines the    *)
(* user types, the other prints what arrives.                              *)
(*                                                                         *)
(*   off -> publish -> consume -> listen -> waitKey -> ready -> cmdOnly    *)
(*                                                                         *)
(* (cmdOnly: the printing thread has met the null message and ended).      *)
(* "Faulty" variants are as in BupServer.                                  *)
(***************************************************************************)
EXTENDS MqttBroker

CONSTANTS MaxClientRuns,  \* bound: times each client is started
          MaxReq,         \* bound: lines each client's user types
          HasKeyFile      \* (client, user) pairs with an authorized_keys file

ASSUME ClientBounds ==
  /\ MaxClientRuns \in Nat
  /\ MaxReq \in Nat
  /\ HasKeyFile \subseteq Client \X Word

VARIABLES cpc,            \* program counter of each client
          clink,          \* the client is connected to the broker
          infoLine,       \* what its user typed as "user name and pwd"
          m_serverPublicKey, \* taken for the key, Null: not GOT_PUBLIC_KEY
          authorizedKeys, \* the texts added to each authorized_keys file
          asked,          \* history: the paths whose backup it requested
          markSent,       \* history: some line with the mark was sent
          answered,       \* history: the paths whose replies it printed
          reqs,           \* lines typed so far
          clientRuns      \* how often each client was started

clientVars == <<cpc, clink, infoLine, m_serverPublicKey, authorizedKeys, asked,
                markSent, answered, reqs, clientRuns>>

ClientPc == {"off", "publish", "consume", "listen", "waitKey", "ready", "cmdOnly"}

ClientTypeOK ==
  /\ cpc \in [Client -> ClientPc]
  /\ clink \in [Client -> BOOLEAN]
  /\ infoLine \in [Client -> InfoLine \cup {Null}]
  /\ m_serverPublicKey \in [Client -> PrivateBody \cup {Null}]
  /\ authorizedKeys \in [Client \X Word -> Seq(PrivateBody)]
  /\ asked \in [Client -> SUBSET Path]
  /\ markSent \in BOOLEAN
  /\ answered \in [Client -> SUBSET Path]
  /\ reqs \in [Client -> Nat]
  /\ clientRuns \in [Client -> Nat]

ClientInit ==
  /\ cpc = [c \in Client |-> "off"]
  /\ clink = [c \in Client |-> FALSE]
  /\ infoLine = [c \in Client |-> Null]
  /\ m_serverPublicKey = [c \in Client |-> Null]
  /\ authorizedKeys = [f \in Client \X Word |-> <<>>]
  /\ asked = [c \in Client |-> {}]
  /\ markSent = FALSE
  /\ answered = [c \in Client |-> {}]
  /\ reqs = [c \in Client |-> 0]
  /\ clientRuns = [c \in Client |-> 0]

\* The client goes on to pc, with nothing else of its own changed.
Goto(c, pc) ==
  /\ cpc' = [cpc EXCEPT ![c] = pc]
  /\ UNCHANGED <<clink, infoLine, m_serverPublicKey, authorizedKeys, asked,
                 markSent, answered, reqs, clientRuns>>

-----------------------------------------------------------------------------
(* init()                                                                  *)

\* setClientInfo() and connectToServer(), which ignores a failed connect.
ClientConnect(c) ==
  /\ cpc[c] = "off"
  /\ clientRuns[c] < MaxClientRuns
  /\ clientRuns' = [clientRuns EXCEPT ![c] = @ + 1]
  /\ \E line \in InfoLine : infoLine' = [infoLine EXCEPT ![c] = line]
  /\ m_serverPublicKey' = [m_serverPublicKey EXCEPT ![c] = Null]
  /\ \/ clink' = [clink EXCEPT ![c] = TRUE]  /\ NoFault
     \/ clink' = [clink EXCEPT ![c] = FALSE] /\ Fault
  /\ cpc' = [cpc EXCEPT ![c] = "publish"]
  /\ UNCHANGED <<netVars, authorizedKeys, asked, markSent, answered, reqs>>

\* clientSetups(): first the announcement on the public channel.  The will is
\* set after the connect, on options the connect did not use: no effect.
ClientPublish(c) ==
  /\ cpc[c] = "publish"
  /\ clink[c]
  /\ Publish(c, Public, SubscribeBody(c, infoLine[c]))
  /\ Goto(c, "consume")
  /\ NoFault

\* If it throws, start_consuming() is skipped, and consume_message() then
\* follows the null que_: the process crashes.
ClientPublishFails(c) ==
  /\ cpc[c] = "publish"
  /\ IF clink[c] THEN Fault ELSE NoFault
  /\ EndSession(c, <<>>)
  /\ clink' = [clink EXCEPT ![c] = FALSE]
  /\ cpc' = [cpc EXCEPT ![c] = "off"]
  /\ UNCHANGED <<infoLine, m_serverPublicKey, authorizedKeys, asked, markSent,
                 answered, reqs, clientRuns>>

\* start_consuming(): nothing is subscribed yet that could be dropped.
ClientStartConsuming(c) ==
  /\ cpc[c] = "consume"
  /\ Goto(c, "listen")
  /\ UNCHANGED brokerVars

\* subscribe(m_privateChnl, getQos()), with the default options; an exception
\* is reported and the client goes on to wait.
ClientSubscribe(c) ==
  /\ cpc[c] = "listen"
  /\ \/ clink[c] /\ Subscribe(c, c, "local") /\ NoFault
     \/ clink[c] /\ UNCHANGED netVars /\ Fault
     \/ ~clink[c] /\ UNCHANGED netVars /\ NoFault
  /\ Goto(c, "waitKey")

\* getFullFilePath(SERVER_PUBLIC_KEY_TARGET, user)
KeyFile(c) == <<c, User(infoLine[c])>>

\* The text was added to the file before.
Holds(f, text) ==
  \E i \in 1..Len(authorizedKeys[f]) : authorizedKeys[f][i] = text

\* Faulty: the text is added each time it arrives.
IsTxtExistNever(c, text) == {FALSE}

\* isTxtExist(), the results it can have: TRUE for a file that cannot be opened,
\* as the one of the empty user name, /home//.ssh/authorized_keys.  The key is
\* found where it was added and nowhere else; any other text may be contained in
\* what the file holds, and two lines with the mark need not be the same.
IsTxtExist(c, text) ==
  IF KeyFile(c) \notin HasKeyFile THEN {TRUE}
  ELSE IF text = KeyBody THEN {Holds(KeyFile(c), text)}
  ELSE {TRUE, text.type # "text" /\ Holds(KeyFile(c), text)}

\* handlePubKeyMsg() and addStrToFile(), for any text taken for the key.
HandlePubKeyMsg(c, text) ==
  /\ m_serverPublicKey' = [m_serverPublicKey EXCEPT ![c] = text]
  /\ \E exists \in IsTxtExist(c, text) :
       authorizedKeys' = IF exists THEN authorizedKeys
                         ELSE [authorizedKeys EXCEPT
                                 ![KeyFile(c)] = Append(@, text)]

\* Faulty: the payload is not looked at.
IsKeyMsgAny(c, msg) == msg # Null /\ msg.topic = c

IsKeyMsg(c, msg) == msg # Null /\ msg.topic = c /\ HasMark(msg.body)

\* Faulty: a single consume_message() instead of the loop.
ClientTakeFirst(c) ==
  /\ cpc[c] = "waitKey"
  /\ Take(c)
  /\ cpc' = [cpc EXCEPT ![c] = "ready"]
  /\ LET msg == Head(inbox[c])
     IN  IF IsKeyMsg(c, msg) THEN HandlePubKeyMsg(c, msg.body)
         ELSE UNCHANGED <<m_serverPublicKey, authorizedKeys>>
  /\ UNCHANGED <<faults, clink, infoLine, asked, markSent, answered, reqs,
                 clientRuns>>

\* getPublicKeyMsg(), one turn: the null message ends the loop, as does the
\* first private message with the mark; anything else is dropped.
ClientWaitKey(c) ==
  /\ cpc[c] = "waitKey"
  /\ Take(c)
  /\ LET msg == Head(inbox[c])
     IN  IF IsKeyMsg(c, msg)
         THEN /\ HandlePubKeyMsg(c, msg.body)
              /\ cpc' = [cpc EXCEPT ![c] = "ready"]
         ELSE /\ cpc' = [cpc EXCEPT ![c] = IF msg = Null THEN "ready" ELSE @]
              /\ UNCHANGED <<m_serverPublicKey, authorizedKeys>>
  /\ UNCHANGED <<faults, clink, infoLine, asked, markSent, answered, reqs,
                 clientRuns>>

-----------------------------------------------------------------------------
(* working(): the two threads.                                             *)

Lines == {BackupBody(p) : p \in Path}
           \cup {TextBody(TRUE), TextBody(FALSE), EmptyBody}

\* handleBackupRequest(), one turn: the exception of a failed publish is
\* reported, and the line lost.
ClientRequest(c) ==
  /\ cpc[c] \in {"ready", "cmdOnly"}
  /\ reqs[c] < MaxReq
  /\ reqs' = [reqs EXCEPT ![c] = @ + 1]
  /\ \E line \in Lines :
       \/ /\ clink[c] /\ Publish(c, c, line) /\ NoFault
          /\ asked' = [asked EXCEPT ![c] =
                         IF line.type = "backup" THEN @ \cup {line.path} ELSE @]
          /\ markSent' = (markSent \/ HasMark(line))
       \/ /\ IF clink[c] THEN Fault ELSE NoFault
          /\ UNCHANGED <<netVars, asked, markSent>>
  /\ UNCHANGED <<cpc, clink, infoLine, m_serverPublicKey, authorizedKeys,
                 answered, clientRuns>>

\* handleServerReplyMsg(), one turn: the null message ends the thread.
ClientReceive(c) ==
  /\ cpc[c] = "ready"
  /\ Take(c)
  /\ LET msg == Head(inbox[c])
     IN  /\ cpc' = [cpc EXCEPT ![c] = IF msg = Null THEN "cmdOnly" ELSE @]
         /\ answered' = [answered EXCEPT ![c] =
                           IF msg # Null /\ msg.body.type = "reply"
                           THEN @ \cup {msg.body.path} ELSE @]
  /\ UNCHANGED <<faults, clink, infoLine, m_serverPublicKey, authorizedKeys,
                 asked, markSent, reqs, clientRuns>>

-----------------------------------------------------------------------------
(* The end of a connection and of a process.                               *)

Listening(c) == cpc[c] \in {"listen", "waitKey", "ready", "cmdOnly"}

\* The connection is lost: what had reached the process stays queued, and
\* on_connection_lost() adds the null message if there is a queue.
ClientLinkLost(c) ==
  /\ clink[c]
  /\ Fault
  /\ clink' = [clink EXCEPT ![c] = FALSE]
  /\ \E n \in 0..Len(inbox[c]) :
       EndSession(c, IF Listening(c)
                     THEN Append(SubSeq(inbox[c], 1, n), Null) ELSE <<>>)
  /\ UNCHANGED <<cpc, infoLine, m_serverPublicKey, authorizedKeys, asked,
                 markSent, answered, reqs, clientRuns>>

\* The user ends the program; its own code never does (the threads loop).
ClientStop(c) ==
  /\ cpc[c] # "off"
  /\ EndSession(c, <<>>)
  /\ clink' = [clink EXCEPT ![c] = FALSE]
  /\ cpc' = [cpc EXCEPT ![c] = "off"]
  /\ UNCHANGED <<faults, infoLine, m_serverPublicKey, authorizedKeys, asked,
                 markSent, answered, reqs, clientRuns>>

ClientMain(c) ==
  \/ ClientPublish(c) \/ ClientPublishFails(c)
  \/ ClientStartConsuming(c) \/ ClientSubscribe(c) \/ ClientWaitKey(c)
  \/ ClientReceive(c)

ClientNext(c) ==
  \/ ClientConnect(c) \/ ClientMain(c) \/ ClientRequest(c)
  \/ ClientLinkLost(c) \/ ClientStop(c)
=============================================================================
