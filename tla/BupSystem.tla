----------------------------- MODULE BupSystem ------------------------------
(***************************************************************************)
(* The backup service: one server and its clients around one broker.  The  *)
(* server and the clients share nothing but the broker's state.            *)
(***************************************************************************)
EXTENDS BupServer, BupClient

CONSTANT LateClients   \* environment: clients start once the server consumes

ASSUME LateClientsIsBoolean == LateClients \in BOOLEAN

vars == <<brokerVars, serverVars, clientVars>>

TypeOK == BrokerTypeOK /\ ServerTypeOK /\ ClientTypeOK

Init == BrokerInit /\ ServerInit /\ ClientInit

ServerReady == spc \notin {"down", "setup", "start", "discard"}

Next ==
  \/ ServerNext /\ UNCHANGED clientVars
  \/ \E c \in Client :
       /\ ClientNext(c)
       /\ cpc[c] = "off" /\ LateClients => ServerReady
       /\ UNCHANGED serverVars

Spec == Init /\ [][Next]_vars

\* Every thread that can run eventually does; the user, the race outcomes and
\* the failures owe nothing.
Fairness ==
  /\ WF_vars(ServerConnect /\ UNCHANGED clientVars)
  /\ WF_vars(ServerMain /\ UNCHANGED clientVars)
  /\ \A h \in Handler : WF_vars(HandlerStep(h) /\ UNCHANGED clientVars)
  /\ \A c \in Client : WF_vars(ClientMain(c) /\ UNCHANGED serverVars)

FairSpec == Spec /\ Fairness

-----------------------------------------------------------------------------
(* Safety                                                                  *)

\* While a client is registered, the server hears its private channel: an
\* entry is pushed only after subscribe() has succeeded, and the list does not
\* outlive the session (handleNewSubscriber, exit(2)).
RegisteredAreHeard ==
  \A i \in 1..Len(m_clients) : sub[Server][m_clients[i].ip] = "nolocal"

\* "so that we don't get own messages sent back to us": no reply or key that
\* the server published on a channel it hears comes back as a request, not
\* even as the retained message of a later subscription (serverSetups).
NoEchoToServer ==
  /\ \A i \in 1..Len(inbox[Server]) : inbox[Server][i].from # Server
  /\ m_msgPtr # Null => m_msgPtr.from # Server

\* However the threads race on m_msgPtr, every copy lands in the directory of
\* the host it is taken from (handleBackupRequest, searchForClient).
CopiesToOwnDirectory ==
  \A cmnd \in ran : cmnd.dir = cmnd.host

\* Neither the server nor the client was started twice.
FirstRuns(c) == serverRuns <= 1 /\ clientRuns[c] <= 1

\* Some line with the mark was sent, and c meets the messages of earlier runs:
\* then it may take one of them for the key (isMsgTypeOf).
Mistakable(c) == ~FirstRuns(c) /\ markSent

\* A client that works while connected has received the key in this run: the
\* only other way out of getPublicKeyMsg() is the null message of a lost
\* connection, and the client never reconnects.  What it has is the key, and no
\* request or reply that quotes the mark, as long as it is not Mistakable.
ConnectedWorkersHaveKey ==
  \A c \in Client : cpc[c] \in {"ready", "cmdOnly"} /\ clink[c] =>
    \/ m_serverPublicKey[c] = KeyBody
    \/ m_serverPublicKey[c] # Null /\ Mistakable(c)

\* Nothing but the server's key is ever added to an authorized_keys file, not
\* even the empty key of a server without one, unless the client is Mistakable
\* (handlePubKeyMsg, addStrToFile).
OnlyKeysInstalled ==
  \A f \in Client \X Word : \A i \in 1..Len(authorizedKeys[f]) :
    authorizedKeys[f][i] = KeyBody \/ Mistakable(f[1])

\* No authorized_keys file gets the key twice, however often its client was
\* restarted and under whatever user names; and once a client has the key, the
\* file of the user it was started for holds it, if there is one (isTxtExist
\* takes a file that it cannot open for one that has the key).
KeyInstalledOnce ==
  /\ \A f \in Client \X Word : \A i, j \in 1..Len(authorizedKeys[f]) :
       authorizedKeys[f][i] = KeyBody /\ authorizedKeys[f][j] = KeyBody => i = j
  /\ \A c \in Client :
       m_serverPublicKey[c] = KeyBody /\ KeyFile(c) \in HasKeyFile =>
         Holds(KeyFile(c), KeyBody)

\* Until something fails, searchForClient() comes out empty only for a topic
\* that is no client at all: the one of an announcement that replaced the
\* thread's message.  (A failed registration leaves a heard, unknown client.)
MissOnlyOnReplacedMessage ==
  faults = 0 => \A h \in Handler : SearchMisses(h) => th[h].subscriberIp = Public

\* The server has still to handle an announcement of c.
AnnouncementPending(c) ==
  \/ \E i \in 1..Len(inbox[Server]) :
       inbox[Server][i].topic = Public /\ inbox[Server][i].body.ip = c
  \/ /\ spc \in {"assign", "subscribe", "publishKey"}
     /\ m_msgPtr.topic = Public /\ m_msgPtr.body.ip = c

KeyIsRetained(c) == retained[c] # Null /\ retained[c].body = KeyBody

\* Between the server's answer to an announcement and the client's own
\* subscription, the key stays the retained message of the private channel,
\* which is why it is published with "retained = true".  Not so once one of
\* them was started again: the messages of the earlier run are still retained.
KeyStaysForWaiter ==
  [][\A c \in Client :
       /\ FirstRuns(c)
       /\ cpc[c] \in {"consume", "listen"}
       /\ ~AnnouncementPending(c)
       /\ KeyIsRetained(c)
       => KeyIsRetained(c)']_vars

\* The server has the request of c for path: queued, in m_msgPtr and not yet
\* handed over or not yet read, or with a thread that has read it.
IsRequest(m, c, path) == m # Null /\ m.topic = c /\ m.body = BackupBody(path)

StillReads(h, c) ==
  \/ th[h].pc = "readTopic"
  \/ th[h].pc = "readPayload" /\ th[h].subscriberIp = c

WorksFor(h, c, path) ==
  /\ th[h].pc \in {"search", "exec", "reply"}
  /\ th[h].subscriberIp = c /\ th[h].backUpPath = BackupBody(path)

BeingRead(c, path) ==
  IsRequest(m_msgPtr, c, path) /\ \E h \in Handler : StillReads(h, c)

RequestInHand(c, path) ==
  \/ \E i \in 1..Len(inbox[Server]) : IsRequest(inbox[Server][i], c, path)
  \/ IsRequest(m_msgPtr, c, path) /\ spc = "assign"
  \/ BeingRead(c, path)
  \/ \E h \in Handler : WorksFor(h, c, path)

ReplyOnItsWay(c, path) ==
  \E i \in 1..Len(inbox[c]) :
    /\ inbox[c][i] # Null
    /\ inbox[c][i].body.type = "reply" /\ inbox[c][i].body.path = path

\* A request that has reached the server is lost in one way only, until the
\* server crashes, the client ends or something fails: the main thread replaces
\* it in m_msgPtr while its thread still has to read it.  In any other step it
\* stays with the server, or its reply is on its way, or the client prints it.
LostOnlyWhenReplaced ==
  [][\A c \in Client : \A path \in Path :
       /\ RequestInHand(c, path) \/ ReplyOnItsWay(c, path)
       /\ cpc[c] = "ready" /\ cpc'[c] = "ready"
       /\ spc' # "down" /\ faults' = 0
       => \/ RequestInHand(c, path)' \/ ReplyOnItsWay(c, path)'
          \/ path \in answered'[c]
          \/ BeingRead(c, path) /\ m_msgPtr' # m_msgPtr]_vars

-----------------------------------------------------------------------------
(* What comments and documents say of the program, and the code does not.  *)

\* A thread handles the message it was spawned for: "this msg does not need
\* sync thread -no racing condition".
HandlesOwnMessage ==
  \A h \in Handler : th[h].pc \in {"exec", "reply"} =>
    /\ th[h].subscriberIp = th[h].job.topic
    /\ th[h].backUpPath = th[h].job.body

-----------------------------------------------------------------------------
(* The inductive invariant behind the safety properties.                   *)

Serving == {"assign", "subscribe", "publishKey", "register"}

\* What the main thread knows of the message it is handling, and that no
\* client is registered, and no thread running, before it consumes.
MainThreadInv ==
  /\ spc \in Serving => m_msgPtr # Null
  /\ spc \in Serving \ {"assign"} => m_msgPtr.topic = Public
  /\ spc \in {"publishKey", "register"} =>
       sub[Server][m_msgPtr.body.ip] = "nolocal"
  /\ ~ServerReady => m_clients = <<>> /\ \A h \in Handler : th[h].pc = "idle"

\* What a thread knows from the steps behind it.
ThreadInv ==
  \A h \in Handler :
    /\ th[h].pc # "idle" => m_msgPtr # Null
    /\ th[h].pc \in {"readPayload", "search", "exec", "reply"} =>
         th[h].subscriberIp \in Topic
    /\ th[h].pc \in {"search", "exec", "reply"} =>
         th[h].backUpPath \in [type : {"backup"}, path : Path]
    /\ th[h].pc \in {"exec", "reply"} =>
         /\ th[h].subscriberIp \in Client
         /\ th[h].cmnd \in Command
         /\ th[h].cmnd.dir = th[h].cmnd.host

OwnDirectoryInv ==
  \A i \in 1..Len(m_clients) : m_clients[i].backupPath = m_clients[i].ip

\* The server subscribes with no-local only, and gets no null message.
ServerSessionInv ==
  /\ \A t \in Topic : sub[Server][t] # "local"
  /\ \A i \in 1..Len(inbox[Server]) : inbox[Server][i] # Null

\* A client without a connection subscribes to nothing, one that was not
\* started has nothing queued, the null message means a lost connection, and a
\* client that works while connected has taken something for the key.
ClientSessionInv ==
  \A c \in Client :
    /\ ~clink[c] => \A t \in Topic : sub[c][t] = "none"
    /\ cpc[c] = "off" => ~clink[c] /\ inbox[c] = <<>>
    /\ cpc[c] # "off" => infoLine[c] # Null
    /\ cpc[c] = "cmdOnly" => ~clink[c]
    /\ cpc[c] = "ready" /\ clink[c] => m_serverPublicKey[c] # Null
    /\ \A i \in 1..Len(inbox[c]) : inbox[c][i] = Null => ~clink[c]

IInv ==
  /\ TypeOK /\ RegisteredAreHeard /\ NoEchoToServer
  /\ CopiesToOwnDirectory
  /\ MainThreadInv /\ ThreadInv /\ OwnDirectoryInv
  /\ ServerSessionInv /\ ClientSessionInv

Registered(ip) == \E i \in 1..Len(m_clients) : m_clients[i].ip = ip

RetainedTopicInv == \A t \in Topic : retained[t] # Null => retained[t].topic = t

\* What the server hears it has registered, but for the client it is just
\* registering.
HeardAreRegistered ==
  \A c \in Client : sub[Server][c] = "nolocal" =>
    \/ Registered(c)
    \/ spc \in {"publishKey", "register"} /\ m_msgPtr.body.ip = c

QueuedAreHeard ==
  \A i \in 1..Len(inbox[Server]) : inbox[Server][i].topic # Public =>
    sub[Server][inbox[Server][i].topic] = "nolocal"

TakenIsRegistered ==
  m_msgPtr # Null /\ m_msgPtr.topic # Public => Registered(m_msgPtr.topic)

ThreadsAreRegistered ==
  \A h \in Handler :
    th[h].pc \in {"readPayload", "search", "exec", "reply"} =>
      th[h].subscriberIp = Public \/ Registered(th[h].subscriberIp)

\* Until something fails, every private message the server takes, and every
\* private topic a thread reads, is a registered client's.
RegistrationInv ==
  faults = 0 =>
    /\ RetainedTopicInv /\ HeardAreRegistered /\ QueuedAreHeard
    /\ TakenIsRegistered /\ ThreadsAreRegistered

\* KeyInstalledOnce, and that no file is created.
KeyFilesInv ==
  /\ KeyInstalledOnce
  /\ \A f \in (Client \X Word) \ HasKeyFile : authorizedKeys[f] = <<>>

\* c is in its first run, or before it, and cannot have sent a request yet.
NothingAsked(c) ==
  /\ FirstRuns(c)
  /\ cpc[c] \in {"off", "publish", "consume", "listen", "waitKey"}
  /\ cpc[c] = "off" => clientRuns[c] = 0

\* Then nothing on its private channel reaches the server or its threads, and
\* what is retained there is this session's own.
ChannelUnused(c) ==
  /\ \A i \in 1..Len(inbox[Server]) : inbox[Server][i].topic # c
  /\ m_msgPtr # Null => m_msgPtr.topic # c
  /\ \A h \in Handler :
       th[h].pc \in {"readPayload", "search", "exec", "reply"} =>
         th[h].subscriberIp # c
  /\ retained[c] # Null => serverRuns > 0 /\ (ServerReady \/ spc = "down")
  /\ retained[c] # Null /\ spc # "down" => retained[c].from = Server

KeyChannelInv ==
  /\ RetainedTopicInv
  /\ serverRuns = 0 => spc = "down"
  /\ \A c \in Client : clientRuns[c] = 0 => cpc[c] = "off"
  /\ \A c \in Client : NothingAsked(c) => ChannelUnused(c)

\* Clients start once the server consumes, and so far the server has been started
\* once, nothing has failed and nobody has typed a request.
Undisturbed ==
  LateClients /\ faults = 0 /\ serverRuns <= 1 /\ \A c \in Client : reqs[c] = 0

\* Then the server is up and hears announcements, those of clients that are all
\* connected and, once they wait, subscribed,
AllConnected ==
  /\ spc # "down" => slink
  /\ spc \notin {"down", "setup"} => sub[Server][Public] = "nolocal"
  /\ \A c \in Client :
       /\ cpc[c] # "off" => ServerReady /\ clink[c]
       /\ cpc[c] = "waitKey" => sub[c][c] = "local"

\* and nothing else: there is no work for a thread, and so no race.
OnlyAnnouncements ==
  /\ \A i \in 1..Len(inbox[Server]) : inbox[Server][i].topic = Public
  /\ m_msgPtr # Null => m_msgPtr.topic = Public
  /\ \A h \in Handler : th[h].pc = "idle"
  /\ \A c \in Client : retained[c] # Null => retained[c].from = Server

KeyIsQueued(c) ==
  \E i \in 1..Len(inbox[c]) :
    inbox[c][i] # Null /\ inbox[c][i].topic = c /\ inbox[c][i].body = KeyBody

\* Whoever waits for the key has it coming: the announcement has still to be
\* handled, or the key waits where the client will find it.
KeyOnItsWay ==
  \A c \in Client :
    /\ cpc[c] \in {"consume", "listen"} => AnnouncementPending(c) \/ KeyIsRetained(c)
    /\ cpc[c] = "waitKey" => AnnouncementPending(c) \/ KeyIsQueued(c)

\* Until something is disturbed, no client waits in vain for the key of a server
\* that has one, however its steps and those of the others interleave, and
\* however often it was started (handleNewSubscriber, getPublicKeyMsg).
WaiterIsServed == Undisturbed /\ m_publicKey = KeyBody => KeyOnItsWay

ServiceInv == (Undisturbed => AllConnected /\ OnlyAnnouncements) /\ WaiterIsServed

\* Some user has asked for the path; the server has tried to copy it from c.
WasAsked(path) == \E c \in Client : path \in asked[c]
WasRun(c, path) == \E cmnd \in ran : cmnd.host = c /\ cmnd.path = path

\* Whatever the threads read from m_msgPtr and whatever is delivered again,
\* nothing is copied that nobody asked for, and a client that is told of a copy
\* is told of one that was tried on its own host.
AnswersAreEarned ==
  /\ \A cmnd \in ran : WasAsked(cmnd.path)
  /\ \A c \in Client : \A path \in answered[c] : WasRun(c, path)

\* The mark is in no path that was asked for unless it was sent.
MarkIsKnown == \A path \in MarkedPath : WasAsked(path) => markSent

\* What every message says, wherever it waits: on the channel of a client that
\* has asked nothing yet it is the key, or empty for want of one,
Honest(m) ==
  m # Null =>
    /\ m.body.type = "backup" => WasAsked(m.body.path)
    /\ m.body.type = "reply" => WasRun(m.topic, m.body.path)
    /\ m.body.type = "text" /\ m.body.marked => markSent
    /\ m.topic \in Client /\ NothingAsked(m.topic) => m.body \in {KeyBody, EmptyBody}

MessagesAreHonest ==
  /\ \A t \in Topic : Honest(retained[t])
  /\ \A s \in Session : \A i \in 1..Len(inbox[s]) : Honest(inbox[s][i])
  /\ Honest(m_msgPtr)

\* what every thread works on,
ThreadsAreHonest ==
  \A h \in Handler :
    /\ th[h].pc \in {"search", "exec", "reply"} => WasAsked(th[h].backUpPath.path)
    /\ th[h].pc \in {"exec", "reply"} =>
         /\ th[h].cmnd.host = th[h].subscriberIp
         /\ th[h].cmnd.path = th[h].backUpPath.path
    /\ th[h].pc = "reply" => th[h].cmnd \in ran

\* and that a client hears its own channel only.
OwnChannelOnly ==
  \A c \in Client :
    /\ \A t \in Topic \ {c} : sub[c][t] = "none"
    /\ \A i \in 1..Len(inbox[c]) : inbox[c][i] # Null => inbox[c][i].topic = c

AnswersInv ==
  /\ AnswersAreEarned /\ MarkIsKnown /\ MessagesAreHonest /\ ThreadsAreHonest
  /\ OwnChannelOnly /\ RetainedTopicInv

\* What a client takes for the key, and what it adds to its file, is the key, if
\* the client is not Mistakable.
TakenInv ==
  /\ \A c \in Client :
       m_serverPublicKey[c] \in {Null, KeyBody} \/ Mistakable(c)
  /\ OnlyKeysInstalled

-----------------------------------------------------------------------------
(* Liveness                                                                *)

\* A client that waits for the key gets it, or is stopped by its user.
WaiterGetsKey ==
  \A c \in Client :
    cpc[c] = "waitKey" ~> (m_serverPublicKey[c] = KeyBody \/ cpc[c] = "off")

\* A requested backup is answered on the client's terminal, or the client is
\* stopped by its user.
RequestIsAnswered ==
  \A c \in Client : \A p \in Path :
    p \in asked[c] ~> (p \in answered[c] \/ cpc[c] = "off")
=============================================================================
