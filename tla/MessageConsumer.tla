-------------------------- MODULE MessageConsumer ---------------------------
(***************************************************************************)
(* How mqtt::async_client hands arriving messages to callbacks and to the  *)
(* queue behind consume_message(): its callbacks for the C library, those  *)
(* for connections too, the setters that install them,                     *)
(* disable_callbacks(), start_consuming() and stop_consuming().            *)
(*                                                                         *)
(* The C library calls back on one thread, in the order of arrival.  The   *)
(* queue is an atomic FIFO without a limit, which is what ThreadQueue      *)
(* promises for the capacity that start_consuming() leaves it with.  A     *)
(* queue that is freed while a thread is in it means undefined behaviour:  *)
(* nothing is said of what follows.                                        *)
(*                                                                         *)
(* A definition commented "Faulty" is a variant with a plausible mistake;  *)
(* nothing uses it, it shows that the properties would notice.             *)
(***************************************************************************)
EXTENDS Naturals, Sequences

CONSTANTS Main,          \* the application's thread that starts and stops
          Consumer,      \* its threads that read messages
          Library,       \* the C library's receiving thread
          MaxArrivals,   \* bound: messages and lost connections
          Null           \* nullptr, and the empty message of a lost connection

Caller == {Main, Library}

\* on_connected() and on_disconnected()
News == {"connected", "disconnected"}

Msg == 1 .. MaxArrivals

ASSUME ConsumerAssumption ==
  /\ Main # Library
  /\ MaxArrivals \in Nat
  /\ Null \notin Nat
  /\ Null \notin Seq(Msg \cup {Null})

VARIABLES arrival,         \* the C library's callback for messages
          lost,            \* whether it has one for a lost connection
          installed,       \* which callbacks for news it has
          userCallback_,   \* whether a callback object is set
          msgHandler_,     \* whether a message handler is set
          newsHandler,     \* which of connHandler_, disconnectedHandler_ are
          que_,            \* what is in the queue, or Null if there is none
          lib,             \* where the callback is, and its message
          call,            \* where a caller is in start or stop_consuming()
          blocked,         \* the consumers that wait in the queue
          arrivals,        \* how many messages and lost connections there were
          due, read,       \* history: what this queue owes, what was read
          consuming,       \* history: start_consuming() returned, and nobody
                           \* started, stopped or disabled since
          exposed,         \* history: if a queue may have been freed in use
          undefined        \* whether it was

news == <<installed, newsHandler>>
library == <<arrival, lost, userCallback_, msgHandler_, news>>
history == <<due, read, consuming, exposed, undefined>>
vars == <<library, que_, lib, call, blocked, arrivals, history>>

TypeOK ==
  /\ arrival \in {"none", "discard", "client"} /\ lost \in BOOLEAN
  /\ userCallback_ \in BOOLEAN /\ msgHandler_ \in BOOLEAN
  /\ installed \subseteq News /\ newsHandler \subseteq News
  /\ que_ = Null \/ que_ \in Seq(Msg \cup {Null})
  /\ lib \in [pc : {"idle", "news", "handler", "put"}, msg : Msg \cup {Null}]
  /\ call \in [Caller -> {"none", "disabled", "install", "reset"}]
  /\ call[Library] # "none" => lib.pc \in {"news", "handler"}
  /\ blocked \subseteq Consumer
  /\ arrivals \in 0 .. MaxArrivals
  /\ due \in Seq(Msg \cup {Null}) /\ read \in Seq(Msg \cup {Null})
  /\ consuming \in BOOLEAN /\ exposed \in BOOLEAN /\ undefined \in BOOLEAN

Init ==
  /\ arrival = "none" /\ lost = FALSE
  /\ userCallback_ = FALSE /\ msgHandler_ = FALSE
  /\ installed = {} /\ newsHandler = {}
  /\ que_ = Null
  /\ lib = [pc |-> "idle", msg |-> Null]
  /\ call = [x \in Caller |-> "none"]
  /\ blocked = {}
  /\ arrivals = 0
  /\ due = <<>> /\ read = <<>>
  /\ consuming = FALSE /\ exposed = FALSE /\ undefined = FALSE

\* Handlers may call the client back, from inside the callback.
CanCall(x) ==
  call[x] = "none" /\ (x = Library => lib.pc \in {"news", "handler"})

Calls(x, s) == call' = [call EXCEPT ![x] = s]

Busy == \E x \in Caller : call[x] # "none"

-----------------------------------------------------------------------------
(* Setters                                                                 *)

\* A setter undoes what disable_callbacks() did for a call that is under way.
Sets(x) ==
  /\ CanCall(x)
  /\ exposed' = (exposed \/ Busy)
  /\ UNCHANGED <<que_, lib, call, blocked, arrivals, due, read, consuming, undefined>>

\* set_callback(): all callbacks are installed, or it throws, without
\* on_connected() if the library refused that.
SetCallback(x) ==
  /\ Sets(x)
  /\ \/ /\ userCallback_' = TRUE /\ arrival' = "client" /\ lost' = TRUE
        /\ installed' = installed \cup {"connected"}
     \/ /\ userCallback_' = FALSE /\ UNCHANGED <<arrival, lost>>
        /\ installed' \in {installed \ {"connected"}, installed \cup {"connected"}}
  /\ UNCHANGED <<msgHandler_, newsHandler>>

\* set_message_callback(): the handler is set even if the library refuses.
SetMessageCallback(x) ==
  /\ Sets(x)
  /\ msgHandler_' = TRUE
  /\ arrival' \in {arrival, "client"}
  /\ UNCHANGED <<lost, userCallback_, news>>

\* set_connection_lost_handler()
SetConnectionLostHandler(x) ==
  /\ Sets(x)
  /\ lost' = TRUE
  /\ UNCHANGED <<arrival, userCallback_, msgHandler_, news>>

\* set_connected_handler(), set_disconnected_handler()
SetNewsHandler(x, k) ==
  /\ Sets(x)
  /\ newsHandler' = newsHandler \cup {k}
  /\ installed' \in {installed, installed \cup {k}}
  /\ UNCHANGED <<arrival, lost, userCallback_, msgHandler_>>

-----------------------------------------------------------------------------
(* disable_callbacks(), start_consuming() and stop_consuming()             *)

\* Faulty: the callbacks stay.
DisableNothing(x, s) ==
  /\ Calls(x, s)
  /\ UNCHANGED <<arrival, lost>>

\* What disable_callbacks() makes of the library's callbacks, accepted: from
\* now on messages are thrown away, and nobody is told of a lost connection.
CallbacksDisabled == arrival' = "discard" /\ lost' = FALSE

Disable(x, s) ==
  /\ Calls(x, s)
  /\ CallbacksDisabled

\* disable_callbacks(), called alone.  If the library refuses, it throws with
\* nothing changed.
DisableCallbacks(x) ==
  /\ CanCall(x)
  /\ CallbacksDisabled
  /\ consuming' = FALSE
  /\ UNCHANGED <<userCallback_, msgHandler_, news, que_, lib, call, blocked,
                 arrivals, due, read, exposed, undefined>>

\* The queue will be freed.  It may be in use if a callback for a message, a
\* consumer or another call is under way.
InUse(x) == Busy \/ blocked # {} \/ (x = Main /\ lib.pc \in {"handler", "put"})

\* If the library refuses, start_consuming() throws with nothing changed.
StartConsuming(x) ==
  /\ CanCall(x)
  /\ Disable(x, "disabled")
  /\ consuming' = FALSE
  /\ exposed' = (exposed \/ InUse(x))
  /\ UNCHANGED <<userCallback_, msgHandler_, news, que_, lib, blocked, arrivals,
                 due, read, undefined>>

\* If the library refuses, stop_consuming() frees the queue all the same.
StopConsuming(x) ==
  /\ CanCall(x)
  /\ \/ Disable(x, "reset") /\ exposed' = (exposed \/ InUse(x))
     \/ Calls(x, "reset") /\ exposed' = TRUE /\ UNCHANGED <<arrival, lost>>
  /\ consuming' = FALSE
  /\ UNCHANGED <<userCallback_, msgHandler_, news, que_, lib, blocked, arrivals,
                 due, read, undefined>>

\* The message of a callback that has not looked at the queue yet.
InFlight == IF lib.pc = "handler" THEN <<lib.msg>> ELSE <<>>

\* que_.reset(): the old queue goes, with what nobody has read.
Replace(que) ==
  /\ que_' = que
  /\ undefined' = (undefined \/ (que_ # Null /\ (blocked # {} \/ lib.pc = "put")))
  /\ due' = IF que = Null THEN <<>> ELSE InFlight
  /\ read' = <<>>

NewQueue(x) ==
  /\ call[x] = "disabled"
  /\ Replace(<<>>)
  /\ Calls(x, "install")
  /\ UNCHANGED <<library, lib, blocked, arrivals, consuming, exposed>>

Returns(x) ==
  /\ Calls(x, "none")
  /\ consuming' = \A y \in Caller \ {x} : call[y] = "none"

\* Faulty: nobody is told of a lost connection.
InstallArrival(x) ==
  /\ call[x] = "install"
  /\ Returns(x)
  /\ arrival' = "client"
  /\ UNCHANGED <<lost, userCallback_, msgHandler_, news, que_, lib, blocked,
                 arrivals, due, read, exposed, undefined>>

\* If the library refuses, the messages go on being thrown away.
Install(x) ==
  /\ call[x] = "install"
  /\ \/ arrival' = "client" /\ lost' = TRUE /\ Returns(x)
     \/ Calls(x, "none") /\ UNCHANGED <<arrival, lost, consuming>>
  /\ UNCHANGED <<userCallback_, msgHandler_, news, que_, lib, blocked, arrivals,
                 due, read, exposed, undefined>>

FreeQueue(x) ==
  /\ call[x] = "reset"
  /\ Replace(Null)
  /\ Calls(x, "none")
  /\ UNCHANGED <<library, lib, blocked, arrivals, consuming, exposed>>

-----------------------------------------------------------------------------
(* Callbacks                                                               *)

\* m is a message or, if Null, a lost connection.  A consumer is owed it if
\* a callback of the client begins, or should begin.
CallBack(m) ==
  /\ lib' = [pc |-> "handler", msg |-> m]
  /\ due' = IF que_ = Null THEN due ELSE Append(due, m)

Ignore(m) ==
  /\ UNCHANGED lib
  /\ due' = IF consuming THEN Append(due, m) ELSE due

\* on_message_arrived(): nothing happens if nobody is interested.  While the
\* callbacks are disabled, the message is thrown away.
Arrive ==
  /\ lib.pc = "idle" /\ arrival # "none"
  /\ arrivals < MaxArrivals
  /\ arrivals' = arrivals + 1
  /\ IF arrival = "client" /\ (userCallback_ \/ msgHandler_ \/ que_ # Null)
     THEN CallBack(arrivals') ELSE Ignore(arrivals')
  /\ UNCHANGED <<library, que_, call, blocked, read, consuming, exposed, undefined>>

\* on_connection_lost()
ConnectionLost ==
  /\ lib.pc = "idle"
  /\ arrivals < MaxArrivals
  /\ arrivals' = arrivals + 1
  /\ IF lost THEN CallBack(Null) ELSE Ignore(Null)
  /\ UNCHANGED <<library, que_, call, blocked, read, consuming, exposed, undefined>>

\* on_connected(), on_disconnected(): disable_callbacks() leaves them.
Notice(k) ==
  /\ lib.pc = "idle" /\ k \in installed
  /\ k \in newsHandler \/ (k = "connected" /\ userCallback_)
  /\ lib' = [lib EXCEPT !.pc = "news"]
  /\ UNCHANGED <<library, que_, call, blocked, arrivals, history>>

NewsHandlersReturn ==
  /\ lib.pc = "news" /\ call[Library] = "none"
  /\ lib' = [lib EXCEPT !.pc = "idle"]
  /\ UNCHANGED <<library, que_, call, blocked, arrivals, history>>

\* Faulty: the message goes to the queue only if there is a handler for it.
HandlersOnly ==
  /\ lib.pc = "handler" /\ call[Library] = "none"
  /\ lib' = [lib EXCEPT !.pc = IF que_ # Null /\ (userCallback_ \/ msgHandler_)
                               THEN "put" ELSE "idle"]
  /\ UNCHANGED <<library, que_, call, blocked, arrivals, history>>

\* The handlers have returned: only now does the callback look for a queue.
HandlersReturn ==
  /\ lib.pc = "handler" /\ call[Library] = "none"
  /\ lib' = [lib EXCEPT !.pc = IF que_ # Null THEN "put" ELSE "idle"]
  /\ UNCHANGED <<library, que_, call, blocked, arrivals, history>>

\* Without a queue this is the call of a member of nullptr.
Put ==
  /\ lib.pc = "put"
  /\ IF que_ = Null THEN undefined' = TRUE /\ UNCHANGED que_
                    ELSE que_' = Append(que_, lib.msg) /\ UNCHANGED undefined
  /\ lib' = [lib EXCEPT !.pc = "idle"]
  /\ UNCHANGED <<library, call, blocked, arrivals, due, read, consuming, exposed>>

-----------------------------------------------------------------------------
(* Consumers                                                               *)

Take ==
  /\ que_ # <<>>
  /\ read' = Append(read, Head(que_))
  /\ que_' = Tail(que_)

\* consume_message(), try_consume_message(), try_consume_message_for(),
\* try_consume_message_until(), while there is a queue: the code does not ask.
Consume(c) ==
  /\ que_ # Null
  /\ c \notin blocked
  /\ \/ Take /\ UNCHANGED <<blocked, exposed>>
     \/ /\ que_ = <<>>
        /\ blocked' = blocked \cup {c}
        /\ exposed' = (exposed \/ Busy)
        /\ UNCHANGED <<que_, read>>
  /\ UNCHANGED <<library, lib, call, arrivals, due, consuming, undefined>>

\* A consumer that waited reads a message, or its time is up.
ConsumeReturns(c) ==
  /\ que_ # Null
  /\ c \in blocked
  /\ blocked' = blocked \ {c}
  /\ Take
  /\ UNCHANGED <<library, lib, call, arrivals, due, consuming, exposed, undefined>>

ConsumeTimesOut(c) ==
  /\ que_ = <<>>
  /\ c \in blocked
  /\ blocked' = blocked \ {c}
  /\ UNCHANGED <<library, que_, lib, call, arrivals, history>>

-----------------------------------------------------------------------------
Resumes(x) == NewQueue(x) \/ Install(x) \/ FreeQueue(x)

Next ==
  /\ ~undefined
  /\ \/ \E x \in Caller :
          \/ SetCallback(x) \/ SetMessageCallback(x)
          \/ SetConnectionLostHandler(x)
          \/ \E k \in News : SetNewsHandler(x, k)
          \/ DisableCallbacks(x) \/ StartConsuming(x) \/ StopConsuming(x)
          \/ Resumes(x)
     \/ Arrive \/ ConnectionLost \/ HandlersReturn \/ Put
     \/ (\E k \in News : Notice(k)) \/ NewsHandlersReturn
     \/ \E c \in Consumer :
          Consume(c) \/ ConsumeReturns(c) \/ ConsumeTimesOut(c)

Spec == Init /\ [][Next]_vars

\* Calls, callbacks and handlers go on; a consumer takes what is there.
FairSpec ==
  /\ Spec
  /\ \A x \in Caller : WF_vars(~undefined /\ Resumes(x))
  /\ WF_vars(~undefined /\ (NewsHandlersReturn \/ HandlersReturn \/ Put))
  /\ \A c \in Consumer : WF_vars(~undefined /\ ConsumeReturns(c))

-----------------------------------------------------------------------------
(* Properties                                                              *)

\* The message of a callback that has not put it into the queue yet.
Coming == IF lib.pc \in {"idle", "news"} THEN <<>> ELSE <<lib.msg>>

\* What consumers read is, in order and once each, what came while there was
\* this queue: every message and every lost connection (as an empty message)
\* after start_consuming() returned, before that and after a direct call of
\* disable_callbacks() only those for which a callback began; a callback that was under way when the queue was made, and
\* had not looked for it, puts its message first.
ConsumedInOrder ==
  que_ # Null /\ ~undefined => due = read \o que_ \o Coming

\* disable_callbacks() keeps new callbacks out while the queue is replaced or
\* freed: it is freed in use only if a callback for a message, a consumer or
\* another call was under way when the call began, or a consumer or a setter
\* came in between, or the library refused to disable the callbacks.  A handler
\* may start and stop in its callback.
FreedInUseOnlyIfExposed == undefined => exposed

\* A lost connection ends the wait of a consumer, unless the queue goes first.
LossEndsWait ==
  \A c \in Consumer :
    c \in blocked /\ lib.pc \in {"handler", "put"} /\ lib.msg = Null
      ~> c \notin blocked \/ que_ = Null \/ undefined

=============================================================================
