----------------------------- MODULE BupServer ------------------------------
(***************************************************************************)
(* The backup server, appFiles/_appServer.cpp: a main thread that connects,*)
(* subscribes to the public channel, then consumes messages one at a time, *)
(* and one thread per backup request.  All of them share the members       *)
(* m_msgPtr and m_clients without a lock.                                  *)
(*                                                                         *)
(* The main thread goes through the program counters                       *)
(*   down -> setup -> start -> discard -> consume -> assign                *)
(*   assign -> consume (a thread was spawned, or the message is ignored)   *)
(*   assign -> subscribe -> publishKey -> register -> consume              *)
(* and a thread through                                                    *)
(*   idle -> readTopic -> readPayload -> search -> exec -> reply -> idle.  *)
(*                                                                         *)
(* A definition commented "Faulty" is a variant with a plausible mistake;  *)
(* nothing uses it, it shows that the properties would notice.             *)
(***************************************************************************)
EXTENDS MqttBroker

CONSTANTS Handler,        \* bound: slots for threads running at the same time
          MaxServerRuns,  \* bound: times the server is started
          PublicKeyFile   \* what PUBLIC_KEY_PATH may hold at a start

ASSUME ServerBounds ==
  /\ MaxServerRuns \in Nat
  /\ PublicKeyFile \subseteq {"key", "other", "missing"}

VARIABLES spc,            \* program counter of the main thread
          slink,          \* the server is connected to the broker
          m_publicKey,    \* the payload sent as the public key
          m_msgPtr,       \* the last consumed message, shared by all threads
          m_clients,      \* registered clients, in order of registration
          th,             \* the backup threads
          ran,            \* history: the shell commands executed so far
          serverRuns      \* how often the server was started

serverVars == <<spc, slink, m_publicKey, m_msgPtr, m_clients, th, ran, serverRuns>>

ServerPc  == {"down", "setup", "start", "discard", "consume", "assign",
              "subscribe", "publishKey", "register"}
ThreadPc  == {"idle", "readTopic", "readPayload", "search", "exec", "reply"}

\* The locals of a thread; job is history: the message it was spawned for.
Thread == [pc : ThreadPc,
           job : Message \cup {Null},
           subscriberIp : Topic \cup {Null},
           backUpPath : PrivateBody \cup PublicBody \cup {Null},
           cmnd : Command \cup {Null},
           ok : BOOLEAN]

IdleThread == [pc |-> "idle", job |-> Null, subscriberIp |-> Null,
               backUpPath |-> Null, cmnd |-> Null, ok |-> FALSE]

ServerTypeOK ==
  /\ spc \in ServerPc
  /\ slink \in BOOLEAN
  /\ m_publicKey \in {KeyBody, EmptyBody}
  /\ m_msgPtr \in Message \cup {Null}
  /\ m_clients \in Seq(Registration)
  /\ th \in [Handler -> Thread]
  /\ ran \subseteq Command
  /\ serverRuns \in Nat

ServerInit ==
  /\ spc = "down"
  /\ slink = FALSE
  /\ m_publicKey = EmptyBody
  /\ m_msgPtr = Null
  /\ m_clients = <<>>
  /\ th = [h \in Handler |-> IdleThread]
  /\ ran = {}
  /\ serverRuns = 0

-----------------------------------------------------------------------------
(* Starting: init() and the first line of working().                       *)

\* getTxtFromFile() with no file to open: a bare throw with no exception to
\* rethrow, which ends the process.
ServerCannotReadKey ==
  /\ spc = "down"
  /\ serverRuns < MaxServerRuns
  /\ "missing" \in PublicKeyFile
  /\ serverRuns' = serverRuns + 1
  /\ UNCHANGED <<brokerVars, spc, slink, m_publicKey, m_msgPtr, m_clients, th,
                 ran>>

\* getPublicKey() and connectToServer(): a text that has not the 415 bytes of the
\* key becomes "", and a connect that fails is reported and otherwise ignored.
ServerConnect ==
  /\ spc = "down"
  /\ serverRuns < MaxServerRuns
  /\ serverRuns' = serverRuns + 1
  /\ \E file \in PublicKeyFile \ {"missing"} :
       m_publicKey' = IF file = "key" THEN KeyBody ELSE EmptyBody
  /\ \/ slink' = TRUE  /\ NoFault
     \/ slink' = FALSE /\ Fault
  /\ spc' = "setup"
  /\ UNCHANGED <<netVars, m_msgPtr, m_clients, th, ran>>

\* serverSetups(): an exception of subscribe() is reported and ignored.
ServerSetups ==
  /\ spc = "setup"
  /\ \/ slink /\ Subscribe(Server, Public, "nolocal") /\ NoFault
     \/ slink /\ UNCHANGED netVars /\ Fault
     \/ ~slink /\ UNCHANGED netVars /\ NoFault
  /\ spc' = "start"
  /\ UNCHANGED <<slink, m_publicKey, m_msgPtr, m_clients, th, ran, serverRuns>>

\* start_consuming(), up to disable_callbacks(): the handlers of the library
\* are replaced, the one for a lost connection by none.
ServerDisableCallbacks ==
  /\ spc = "start"
  /\ spc' = "discard"
  /\ UNCHANGED <<brokerVars, slink, m_publicKey, m_msgPtr, m_clients, th, ran,
                 serverRuns>>

\* A message that arrives meanwhile goes to the handler that drops it.
ServerDiscardArrived ==
  /\ spc = "discard"
  /\ Take(Server)
  /\ UNCHANGED <<faults, serverVars>>

\* The rest of start_consuming(): from now on messages reach que_.
ServerInstallCallbacks ==
  /\ spc = "discard"
  /\ spc' = "consume"
  /\ UNCHANGED <<brokerVars, slink, m_publicKey, m_msgPtr, m_clients, th, ran,
                 serverRuns>>

-----------------------------------------------------------------------------
(* The loop of working().                                                  *)

\* m_msgPtr = consume_message(): the assignment is not atomic, it lasts as
\* long as the main thread stays at "assign".  The null message never gets
\* here: the handler of a lost connection has already called exit(2).
ServerConsume ==
  /\ spc = "consume"
  /\ Take(Server)
  /\ m_msgPtr' = Head(inbox[Server])
  /\ spc' = "assign"
  /\ UNCHANGED <<faults, slink, m_publicKey, m_clients, th, ran, serverRuns>>

\* A message of the public channel is handled by the main thread itself.
ServerNewSubscriber ==
  /\ spc = "assign"
  /\ m_msgPtr.topic = Public
  /\ spc' = "subscribe"
  /\ UNCHANGED <<brokerVars, slink, m_publicKey, m_msgPtr, m_clients, th, ran,
                 serverRuns>>

\* One of any other channel gets a thread, which finds it in m_msgPtr.
ServerSpawn(h) ==
  /\ spc = "assign"
  /\ m_msgPtr.topic # Public
  /\ th[h].pc = "idle"
  /\ th' = [th EXCEPT ![h] =
              [IdleThread EXCEPT !.pc = "readTopic", !.job = m_msgPtr]]
  /\ spc' = "consume"
  /\ UNCHANGED <<brokerVars, slink, m_publicKey, m_msgPtr, m_clients, ran,
                 serverRuns>>

-----------------------------------------------------------------------------
(* handleNewSubscriber().  Only the main thread writes m_msgPtr, so here   *)
(* it still is the message copied to msgTopic and msgPayload.  The will set*)
(* on the connect options comes after the connect and has no effect.       *)

\* Faulty: without the subscription options.
ServerSubscribeDefault ==
  /\ spc = "subscribe"
  /\ Subscribe(Server, m_msgPtr.body.ip, "local")
  /\ spc' = "publishKey"
  /\ UNCHANGED <<faults, slink, m_publicKey, m_msgPtr, m_clients, th, ran,
                 serverRuns>>

ServerSubscribeClient ==
  /\ spc = "subscribe"
  /\ Subscribe(Server, m_msgPtr.body.ip, "nolocal")
  /\ spc' = "publishKey"
  /\ UNCHANGED <<faults, slink, m_publicKey, m_msgPtr, m_clients, th, ran,
                 serverRuns>>

\* Faulty: the key is not retained.
ServerSendKey ==
  /\ spc = "publishKey"
  /\ LET ip == m_msgPtr.body.ip
         m == [topic |-> ip, body |-> m_publicKey, from |-> Server]
     IN  inbox' = [r \in Session |-> IF Accepts(sub[r][ip], m, r)
                                    THEN Append(inbox[r], m) ELSE inbox[r]]
  /\ spc' = "register"
  /\ UNCHANGED <<retained, sub, faults, slink, m_publicKey, m_msgPtr, m_clients,
                 th, ran, serverRuns>>

ServerPublishKey ==
  /\ spc = "publishKey"
  /\ Publish(Server, m_msgPtr.body.ip, m_publicKey)
  /\ spc' = "register"
  /\ UNCHANGED <<faults, slink, m_publicKey, m_msgPtr, m_clients, th, ran,
                 serverRuns>>

\* Faulty: a check for known clients that takes any client for a known one.
ServerRegisterFirst ==
  /\ spc = "register"
  /\ m_clients' = IF m_clients = <<>>
                  THEN <<NewRegistration(m_msgPtr.body)>> ELSE m_clients
  /\ spc' = "consume"
  /\ UNCHANGED <<brokerVars, slink, m_publicKey, m_msgPtr, th, ran, serverRuns>>

\* mkdir of the client's directory, and m_clients.push_back(currClient).
ServerRegister ==
  /\ spc = "register"
  /\ m_clients' = Append(m_clients, NewRegistration(m_msgPtr.body))
  /\ spc' = "consume"
  /\ UNCHANGED <<brokerVars, slink, m_publicKey, m_msgPtr, th, ran, serverRuns>>

\* Faulty: push_back() after the try block, reached in any case.
ServerNewSubscriberFailsOn ==
  /\ spc \in {"subscribe", "publishKey"}
  /\ Fault
  /\ spc' = "register"
  /\ UNCHANGED <<netVars, slink, m_publicKey, m_msgPtr, m_clients, th, ran,
                 serverRuns>>

\* subscribe() or publish() throws: reported, and the client not registered.
ServerNewSubscriberFails ==
  /\ spc \in {"subscribe", "publishKey"}
  /\ Fault
  /\ spc' = "consume"
  /\ UNCHANGED <<netVars, slink, m_publicKey, m_msgPtr, m_clients, th, ran,
                 serverRuns>>

-----------------------------------------------------------------------------
(* The end of the server process, with all of its threads.                 *)

\* Faulty: the will of handleNewSubscriber() takes effect, and the broker
\* publishes it, retained, on the channel of the client last announced.
ServerExitWithWill ==
  /\ spc' = "down"
  /\ slink' = FALSE
  /\ m_msgPtr' = Null
  /\ m_clients' = <<>>
  /\ th' = [h \in Handler |-> IdleThread]
  /\ retained' = [t \in Topic |->
                    IF m_msgPtr # Null /\ m_msgPtr.topic = Public
                       /\ t = m_msgPtr.body.ip
                    THEN [topic |-> t, body |-> TextBody(FALSE), from |-> Nobody]
                    ELSE retained[t]]
  /\ sub' = [sub EXCEPT ![Server] = [t \in Topic |-> "none"]]
  /\ inbox' = [inbox EXCEPT ![Server] = <<>>]
  /\ UNCHANGED <<m_publicKey, ran, serverRuns>>

ServerExit ==
  /\ spc' = "down"
  /\ slink' = FALSE
  /\ m_msgPtr' = Null
  /\ m_clients' = <<>>
  /\ th' = [h \in Handler |-> IdleThread]
  /\ EndSession(Server, <<>>)
  /\ UNCHANGED <<m_publicKey, ran, serverRuns>>

\* The connection is lost: exit(2), unless no handler is installed.
ServerLinkLost ==
  /\ slink
  /\ Fault
  /\ IF spc = "discard"
     THEN /\ slink' = FALSE
          /\ EndSession(Server, <<>>)
          /\ UNCHANGED <<spc, m_publicKey, m_msgPtr, m_clients, th, ran, serverRuns>>
     ELSE ServerExit

-----------------------------------------------------------------------------
(* handleBackupRequest(), in a thread of its own.                          *)

\* string subscriberIp = m_msgPtr->get_topic()
HandlerReadTopic(h) ==
  /\ th[h].pc = "readTopic"
  /\ th' = [th EXCEPT ![h].pc = "readPayload",
                      ![h].subscriberIp = m_msgPtr.topic]
  /\ UNCHANGED <<brokerVars, spc, slink, m_publicKey, m_msgPtr, m_clients, ran,
                 serverRuns>>

\* string backUpPath = m_msgPtr->get_payload(): done unless it starts with "~"
HandlerReadPayload(h) ==
  /\ th[h].pc = "readPayload"
  /\ th' = [th EXCEPT ![h] =
              IF m_msgPtr.body.type = "backup"
              THEN [@ EXCEPT !.pc = "search", !.backUpPath = m_msgPtr.body]
              ELSE IdleThread]
  /\ UNCHANGED <<brokerVars, spc, slink, m_publicKey, m_msgPtr, m_clients, ran,
                 serverRuns>>

\* The main thread is assigning m_msgPtr meanwhile: the thread may follow a
\* pointer to a message that was just freed, and the process crashes.
HandlerReadRaces(h) ==
  /\ th[h].pc \in {"readTopic", "readPayload"}
  /\ spc = "assign"
  /\ ServerExit
  /\ NoFault

\* Faulty: the entry registered last, whoever it is.
LastEntry(ip, i) == i = Len(m_clients)

\* searchForClient() stops at the first entry with the ip.
FirstWith(ip, i) ==
  /\ m_clients[i].ip = ip
  /\ \A j \in 1..(i - 1) : m_clients[j].ip # ip

\* The command: cp on the server's own host, scp from any other.
CopyCommand(ip, cli, body) ==
  [tool |-> IF ip = LocalIp THEN "cp" ELSE "scp",
   user |-> cli.user, host |-> ip, path |-> body.path, dir |-> cli.backupPath]

\* Faulty: a path that was copied before, for whomever, is not copied again.
HandlerSearchSkips(h) ==
  /\ th[h].pc = "search"
  /\ \E i \in 1..Len(m_clients) :
       /\ FirstWith(th[h].subscriberIp, i)
       /\ LET cmnd == CopyCommand(th[h].subscriberIp, m_clients[i],
                                  th[h].backUpPath)
              done == \E old \in ran : old.path = cmnd.path
          IN  th' = [th EXCEPT ![h].pc = IF done THEN "reply" ELSE "exec",
                               ![h].ok = done, ![h].cmnd = cmnd]
  /\ UNCHANGED <<brokerVars, spc, slink, m_publicKey, m_msgPtr, m_clients, ran,
                 serverRuns>>

HandlerSearch(h) ==
  /\ th[h].pc = "search"
  /\ \E i \in 1..Len(m_clients) :
       /\ FirstWith(th[h].subscriberIp, i)
       /\ th' = [th EXCEPT
                   ![h].pc = "exec",
                   ![h].cmnd = CopyCommand(th[h].subscriberIp, m_clients[i],
                                           th[h].backUpPath)]
  /\ UNCHANGED <<brokerVars, spc, slink, m_publicKey, m_msgPtr, m_clients, ran,
                 serverRuns>>

\* No entry has the ip: client("") reads the first of no tokens, and crashes.
SearchMisses(h) ==
  /\ th[h].pc = "search"
  /\ \A i \in 1..Len(m_clients) : m_clients[i].ip # th[h].subscriberIp

HandlerSearchMisses(h) ==
  /\ SearchMisses(h)
  /\ ServerExit
  /\ NoFault

\* The main thread is in push_back meanwhile, which may move the entries.
HandlerSearchRaces(h) ==
  /\ th[h].pc = "search"
  /\ spc = "register"
  /\ ServerExit
  /\ NoFault

\* Faulty: a copy that fails is not reported.
HandlerExecSilently(h) ==
  /\ th[h].pc = "exec"
  /\ \E ok \in BOOLEAN :
       th' = IF ok THEN [th EXCEPT ![h].pc = "reply", ![h].ok = TRUE]
                   ELSE [th EXCEPT ![h] = IdleThread]
  /\ ran' = ran \cup {th[h].cmnd}
  /\ UNCHANGED <<brokerVars, spc, slink, m_publicKey, m_msgPtr, m_clients,
                 serverRuns>>

\* execCmnd(cmnd): the copy succeeds or fails.
HandlerExec(h) ==
  /\ th[h].pc = "exec"
  /\ \E ok \in BOOLEAN : th' = [th EXCEPT ![h].pc = "reply", ![h].ok = ok]
  /\ ran' = ran \cup {th[h].cmnd}
  /\ UNCHANGED <<brokerVars, spc, slink, m_publicKey, m_msgPtr, m_clients,
                 serverRuns>>

HandlerReply(h) ==
  /\ th[h].pc = "reply"
  /\ Publish(Server, th[h].subscriberIp,
             ReplyBody(th[h].backUpPath.path, th[h].ok))
  /\ th' = [th EXCEPT ![h] = IdleThread]
  /\ UNCHANGED <<faults, spc, slink, m_publicKey, m_msgPtr, m_clients, ran,
                 serverRuns>>

\* popen() or publish() fails: nothing catches the exception in the thread,
\* and std::terminate ends the process.
HandlerThrows(h) ==
  /\ th[h].pc \in {"exec", "reply"}
  /\ Fault
  /\ ServerExit

-----------------------------------------------------------------------------
ServerMain ==
  \/ ServerSetups \/ ServerDisableCallbacks \/ ServerInstallCallbacks
  \/ ServerConsume \/ ServerNewSubscriber \/ (\E h \in Handler : ServerSpawn(h))
  \/ ServerSubscribeClient \/ ServerPublishKey \/ ServerRegister

HandlerStep(h) ==
  \/ HandlerReadTopic(h) \/ HandlerReadPayload(h) \/ HandlerSearch(h)
  \/ HandlerSearchMisses(h) \/ HandlerExec(h) \/ HandlerReply(h)

ServerFailure ==
  \/ ServerDiscardArrived \/ ServerNewSubscriberFails \/ ServerLinkLost
  \/ \E h \in Handler :
       HandlerReadRaces(h) \/ HandlerSearchRaces(h) \/ HandlerThrows(h)

ServerNext ==
  \/ ServerConnect \/ ServerCannotReadKey
  \/ ServerMain
  \/ \E h \in Handler : HandlerStep(h)
  \/ ServerFailure
=============================================================================
