# BupApp: specification, model checking and proofs

BupApp is a backup service over MQTT. A *client* (a host of the local network)
announces itself, receives the server's public ssh key, and from then on its
user types the paths to back up; the *server* runs `scp` for each of them and
answers. Both programs (`src/appFiles`) use the Eclipse Paho C++ library, whose
source the repository contains (`src/*.cpp`, `src/mqtt`). This directory holds
the TLA+ model of the service, the TLC runs that check it and the TLAPS proofs.

## 1. Inventory

| part | source | state | operations |
|---|---|---|---|
| backup server | `appFiles/_appServer.cpp`, `appServer.h` | `m_msgPtr`, `m_clients`, `m_threadPool`, `m_publicKey`, all without a lock | connect, set up, start consuming, the loop of `working()`, `handleNewSubscriber`, one thread of `handleBackupRequest` per request |
| backup client | `appFiles/_appClient.cpp`, `appClient.h` | `GOT_PUBLIC_KEY`, `m_clientInfo`, two threads | connect, announce, subscribe, wait for the key, request, print replies |
| protocol, utilities | `appFiles/utils.cpp` | the `authorized_keys` file, the server's directories | `client(msg)`, `isTxtExist`, `addStrToFile`, `getFullFilePath`, `execCmnd` |
| configuration | `appFiles/mqttConfigs.cpp` | addresses, QoS 1, retained, no-local | command line |
| broker | external | retained messages, subscriptions, sessions | publish, subscribe, end of a session |
| `async_client` | `async_client.cpp` | pending tokens, callbacks, consumer queue `que_` | connect, publish, subscribe, start/stop consuming, arrival, lost connection |
| `thread_queue` | `mqtt/thread_queue.h` | a bounded queue, a lock, two condition variables | put, get, their `try_`, `_for` and `_until` forms, `capacity` |
| tokens | `token.cpp`, `mqtt/token.h` | complete flag, return code, listener, response | wait, completion callbacks, reset |
| synchronous client | `client.cpp`, `mqtt/client.h`, `topic.cpp` | an `async_client`, a time-out | operations that wait for their token; topics |
| options, properties | `connect_options.cpp`, `will_options.cpp`, `ssl_options.cpp`, `disconnect_options.cpp`, `response_options.cpp`, `properties.cpp`, headers | C structures that point into C++ members | construction, copy, move, assignment, setters, destruction |
| messages, buffers | `message.cpp`, `string_collection.cpp`, headers | reference counted buffers, arrays of C strings | the same |
| persistence | `iclient_persistence.cpp` | the user's store | adapter of the C callbacks |
| samples, build | `samples/`, `CMakeLists.txt` | | demonstrations |

**Interaction.** The two programs share nothing but the broker. Topics are the
public channel `subscribersList` and one private channel per client, named by
its IPv4 address; the key, the requests *and* the replies all use the private
one, all of them retained. Inside a process, the C library's callback thread
puts messages into the `async_client`'s queue, from which the program's threads
take them; the threads of the server share two members without a lock.

**What is hard.** The race of the backup threads with the main thread on
`m_msgPtr` and `m_clients`; the order of announcement, subscription, key and
replies on retained topics; restarts of either program; a lost connection,
which the server answers with `exit(2)` and the client with a null message;
exceptions that are caught and ignored in some places and end the process in
others. `PROJECT.json` lists each hazard at its line, with the properties that
watch it.

**What correctness means.** *Server*: a registered client is heard; it never takes
its own publications for requests; copies of one host never reach the directory of
another; a search fails only where it must. *Client*: it works with the key and with
nothing else in its place, and has it installed once. *Together*: a client that
waits gets the key; a request is answered, or lost in a known way; no answer without
a copy, no copy without a request. *Queue*: bounded FIFO, no item lost or doubled,
no sleeper beside a queue that has something for it. *Tokens*: the C library never
calls back with the address of a token that is gone, waiters wake, nobody waits for
what will not come, the pending list holds exactly the operations in flight, a
result is that of the last answer. *Consuming*: what is read is what came, in order
and once; no callback uses a queue that has been freed. *Synchronous client*: what
returns normally was answered, a time-out is never taken for an answer, and every
call ends that can. *Options*: after copies, moves and assignments the pointers for
the C library lead to the object's own members, and no memory is freed twice.

## 2. Modules

| module | models |
|---|---|
| `BupProtocol` | topics, payloads, registrations, shell commands; `User` is the parsing of `client(msg)` |
| `MqttBroker` | the broker and the way to a program's consumer queue: `retained`, `sub`, `inbox`, and the count of injected `faults` |
| `BupServer` | the server's main thread and its backup threads |
| `BupClient` | the clients |
| `BupSystem` | their composition, fairness, properties, inductive invariants |
| `MCBup` | the instances for TLC |
| `BupSystemProofs` | the inductive invariant `IInv` and its corollaries; the key files |
| `BupRegistrationProofs` | `RegistrationInv`; the key's channel, the clients that wait, what they take for the key, the answers, the lost requests |
| `BoundedFifo` | abstract specification: a bounded FIFO with waiting readers and writers |
| `ThreadQueue` | `mqtt::thread_queue`, and that it implements `BoundedFifo` |
| `MCThreadQueue` | its instances for TLC |
| `ThreadQueueProofs` | its invariants and the refinement |
| `AsyncClient` | the operations of `mqtt::async_client` and the tokens that track them |
| `MCAsyncClient` | its instances for TLC |
| `AsyncClientProofs` | its seven safety properties |
| `SyncClient` | `mqtt::client` and its topics, on top of `AsyncClient` |
| `MCSyncClient` | its instance for TLC |
| `SyncClientProofs` | that it implements `AsyncClient`, and its safety properties |
| `MessageConsumer` | how arriving messages reach handlers and consumers; `start_consuming()`, `stop_consuming()`, `disable_callbacks()`, the setters of callbacks |
| `MCConsumer` | its instance for TLC |
| `MessageConsumerProofs` | its safety properties |
| `Options` | the objects with C structures inside: options, messages, properties, string collections |
| `MCOptions` | its instances for TLC |
| `OptionsProofs` | well-formedness, ownership of blocks, leaks |
| `OptionsPointerProofs` | which pointers lead to the object's own members |

**The server.** `spc` is the main thread's place: `ServerConnect` is `init()` up to
the connect (key file read, a failed connect is ignored; without the file the bare
`throw;` of `getTxtFromFile` ends the process, `ServerCannotReadKey`),
`ServerSetups` the subscription to the public channel, `ServerDisableCallbacks` and
`ServerInstallCallbacks` the two halves of `async_client::start_consuming()`
(between them messages are dropped, and a lost connection passes unnoticed),
`ServerConsume` the assignment to `m_msgPtr`, which lasts until the main thread
leaves `"assign"`, through `ServerNewSubscriber` (public channel) or `ServerSpawn`
(any other). `ServerSubscribeClient`, `ServerPublishKey` and `ServerRegister` are
`handleNewSubscriber()`; `ServerNewSubscriberFails` is its catch clause. A thread
`th[h]` reads the topic, then the payload, of whatever `m_msgPtr` is by then,
searches, executes and replies, one action each.

**Undefined behaviour.** Reads of `m_msgPtr` and `m_clients` race with the
main thread's writes. A read yields the old value (the step comes before the
assignment), the new one (after it), or, while the assignment lasts
(`HandlerReadRaces`, `HandlerSearchRaces`), the process crashes, which is also
what `client("")` does after a search that misses (`tokens[0]` of an empty
vector). A crash is `ServerExit`: the process, its threads and its session end,
the broker's retained messages stay.

**The client.** `cpc[c]` follows `init()`: `publish` (announcement), `consume`
(`start_consuming`), `listen` (subscription), `waitKey` (`getPublicKeyMsg`),
then `ready` with both threads, or `cmdOnly` once the printing thread has met
the null message and ended. `getPublicKeyMsg` takes any text of the private
channel that contains `ssh-rsa` for the key (`HasMark`): the key itself, but also
a typed line or a reply that quotes such a path (`MarkedPath`). What was taken is
`m_serverPublicKey` (`Null` while `GOT_PUBLIC_KEY` is false), and what was added to
the `authorized_keys` files, one per client and user, is `authorizedKeys`; a file
outside `HasKeyFile` cannot be opened, for which `isTxtExist` answers `true`. It
looks for the text *in* the file: for anything but the key `IsTxtExist` leaves open
what it finds, since another text may contain it.

**Abstractions.** `publish(...)->wait()` and `subscribe(...)->wait()` are one
step or one failure. A publication that has an error after it reached the
broker is not modelled. `inbox[s]` is one queue for what the code has in three
(broker, C library, `que_`), all FIFO, and it delivers each QoS 1 message once:
redelivery needs a session that survives its connection, and both programs
start clean. Messages that arrive before `start_consuming()` wait in the C
library. Texts are records that keep what the programs test: the leading `~`,
the `ssh-rsa` mark in any of them, the number of words. The key is in a key file
only if it was added there: files that hold it at the start, and typed lines that
quote all of its 415 bytes, are left out. The wills are set after the connect,
on options it did not use, and so do nothing. A history variable
(`m_serverPublicKey` past a stop, `asked`, `markSent`, `answered`, `ran`,
`th[h].job`) influences no
step. `checkReconnect()` and `tryReconnect()` are unreachable: the handler of
the lost connection has already called `exit(2)`; `isClientExist` is not called.

**The queue.** One action of `ThreadQueue` is what a thread does while it holds
the lock, from its acquisition to the unlock or to the wait of a condition
variable. `notify_one()` comes after the unlock and is an action of its own
(`NotifyNotEmpty`, `NotifyNotFull`): between the two, any other thread may act,
which is where wake-ups get lost. The code notifies on edges only: the put that
finds the queue empty, the removal that leaves exactly one place. `pc[t]` is
`"...Sleep"` in a wait, `"...Woken"` on the way back to the lock, whether a
notification or nothing at all woke the thread (`WakeSpuriously`), and
`"getExpired"` after a time-out (`Expire`), when a notification can no longer
reach it but the predicate is tested once more. `put` and `get` are one action
each with two outcomes; `try_get_for` and `try_get_until` are one, since time
is not modelled. `try_put_for` and `try_put_until` are left out: they emplace a
pointer to the value, which compiles for none of the item types used. The
constructor makes a capacity of at least 1, but the setter takes 0 as well: then
every put waits until it is raised. `BoundedFifo`
knows nothing of locks and notifications; `Fifo` maps a reader's `pc` to the
call it waits in (`Want`) and the rest to itself.

**The tokens.** `AsyncClient` has the application's threads (`Main`, the one
that connects, and `User`), the C library's callback threads, and tokens that
stand for addresses: an address is used for a new token once no shared pointer
owns the old one (`Live`: the pending list, `connTok_`, what a thread of the
application holds, the copy `remove_token()` makes for the user's callback). The
C library has bare addresses only (`open`), as has a thread of it in a
completion callback. One action is what a thread does under a lock, the
client's or the token's, with its local steps: `Begin` is the creation of the
token, the assignment to `connTok_` in a connect and `add_token()`; `Reconnect`
and `ReconnectAdds` are two, because `reset()` and `add_token()` take different
locks. `Accept` and `Refuse` are the two outcomes of the call of the C library,
the refusal with the `remove_token()` that follows. `SetMessageId` comes after the
acceptance, and the answer may come before it. `Answer` is a completion callback
up to the unlock; then come the listener, `notify_all()` and `remove_token()`
as actions of their own, because waits may begin and end between them. A wait
sleeps, wakes (notified, for no reason, or when its time is up) and tests
`complete_` again.

`tok` holds what the waits and the list depend on. `rc` and `reason` say whether
`check_ret()` takes `rc_` and `reasonCode_` for success; it takes every reason code
above `GRANTED_QOS_2` for an error. `reset()` clears both and so does the model. The
temporary `tmpTok` in `connect()` only keeps a token alive longer, so the model,
which leaves it out, promises more. Whether a token has a listener is left open at
each answer. Threads of the application exchange pointers (`Share`) and let go of
them (`Drop`) at will. `answer` and `mixed` are history. Left out: the contents of
responses and the look-up by message id; the handlers of the connection are
`MessageConsumer`'s. `connTok_` is read and assigned without the lock, so that two
threads that connect at once race on it; the model has one that does.

**The synchronous client.** `SyncClient` EXTENDS `AsyncClient`: each of its
actions is one of that module together with a step of the thread's `stage`, or
leaves that module's variables alone (`Expire`, the clock). An operation is
the asynchronous call (`"call"`), `wait_for(timeout_)` (`"limited"`) and, in
`connect`, `reconnect`, `subscribe` and `unsubscribe`, the `get_..._response()`
of the token (`"get"`), which waits again and without a limit; `publish` and
`disconnect` return at the time-out. `publish(const message&)` goes to `"get"` at
once (`FirstWait`), since the library has a pointer to the caller's object
(`lent`) that nothing counts. `get_topic()` gives access to the private
`async_client`'s publish and subscribe, which return tokens (`TopicPublish`,
`TopicSubscribe`, `TopicResumes`).

**Consuming.** `MessageConsumer` has the C library's receiving thread, which may be
in a handler or before its `put` (`lib`), and two callers of setters,
`disable_callbacks()`, `start_consuming()` and `stop_consuming()`: the application's
thread and, from inside a handler, the receiving thread. A call of the last two is
several actions: `Disable`, which is also what `disable_callbacks()` does alone
(`DisableCallbacks`), installs the discarding callback for messages and none for a
lost connection, then the queue is replaced (`NewQueue`) or freed (`FreeQueue`),
then `Install` sets the callbacks. Each may be refused by the C library, which the
actions have as a second disjunct: a refused `stop_consuming()` frees the queue with
the callbacks on. `on_message_arrived()` holds a *reference* to `que_` and looks at
it again after the handlers (`HandlersReturn`), and again in the call of `put`
(`Put`): between the two the queue may go, which sets `undefined`, after which the
model says nothing. The queue is an atomic FIFO without a limit; that is what
`ThreadQueue` is shown to implement, for the default capacity. A consumer waits in
`blocked`; `exposed` and `due` are history: whether an interleaving that the code
does not rule out was met, and the messages the queue owes its readers. `BupServer`
and `BupClient` have their own, coarser account of the same functions because they
meet them once, at start.

**The objects.** `Options` is sequential: what can go wrong there is a long
sequence of legal calls. `obj` maps addresses to objects, all of one record type
so that classes which contain others (`connect_options` has a will and ssl
options) can share the operators of these. Members that begin with `c` are
pointers in the C structure. A pointer into a string is the address of the
object and the text it had, so that a pointer to a string which was replaced
differs from a current one; a pointer to a reference-counted buffer is the
buffer. Memory from `malloc` (lists of properties, texts of a property) is
`heap`; freed blocks are used again. An operator gives the object that a
constructor, a copy or a setter makes, with each assignment of the code in its
order (`ConnectFrom` is `opts_ = opt.opts_`, then `set_will` if the pointer just
copied is not null, and so on), and an action puts it at an address. Left out:
setters of numbers and flags, the contents of texts, which code a property has (and
with it the property made from a number with the code of a text, see below).
`Remains` is what a move leaves behind; `MoveAssign` of `connect_options` takes
only the credentials, since `set_will(will_options&&)` and
`set_ssl(ssl_options&&)` copy.

Definitions commented *Faulty* are variants with a plausible mistake. Nothing
uses them; put in place of the definition that follows they make the property
they are paired with in `PROJECT.json` fail.

## 3. Runs

| run | instance | shows |
|---|---|---|
| `race` | 2 clients, 2 threads, 2 paths, server started twice, no failures | `NoEchoToServer`, `CopiesToOwnDirectory`, `MissOnlyOnReplacedMessage`, `AnswersAreEarned`, `KeyStaysForWaiter`, `LostOnlyWhenReplaced`, whatever the data races do |
| `faults` | 1 client on the server's host, both programs started twice, 2 failures; two user names or both words at the prompt, lines with and without the mark; a good, bad or missing key file of the server | `RegisteredAreHeard`, `ConnectedWorkersHaveKey`, `OnlyKeysInstalled`, `KeyInstalledOnce` |
| `key_live` | 2 clients started twice while the server consumes, fair | `WaiterIsServed`: the key is on its way to whoever waits for it; `WaiterGetsKey`: and arrives |
| `request_live` | 1 client, one request, fair | `RequestIsAnswered` |
| `doc_own_message` | 2 clients | *violated*: a thread handles a message that is not its own |
| `queue_safe` | 2 readers, 2 writers, 2 items, capacity 2, set to 0, 1 or 3 at any time | `NotAllAsleep`, `ItemIsAnnounced`, `PlaceIsAnnounced`, `ImplementsFifo` |
| `queue_live` | 1 reader, 1 writer, capacity 2, lowered to 1 at any time, fair | `ImplementsFairFifo`: nobody waits for ever for what the queue has |
| `token_safe` | 2 application threads, 1 library thread, 2 tokens, 2 open commands | `PendingAccounted`, `ContextsAlive`, `SleepersSignalled`, `DeliveryIsLast`, `ReturnedIsListed`, `ResultIsAnswer` |
| `token_live` | 2 application threads, 2 library threads, 1 token, 2 open commands, fair | `CompletionWakes`, `PendingEmpties` |
| `sync` | 1 application thread, 1 library thread, 2 tokens, 2 open commands, fair | `SuccessIsAnswer`, `ResetWhenAnswered`, `LentNotOpen`, `WaitsForAnswer`, `LimitedCallEnds`, `SyncCallEnds` |
| `consume` | 1 consumer, 3 messages or lost connections, fair | `ConsumedInOrder`, `FreedInUseOnlyIfExposed`, `LossEndsWait` |
| `objects` | 3 addresses, 3 blocks, 1 buffer, 16 scenarios of classes | `HandledPointersOwn`, `WillNeverNull`, `BlocksOwnedOnce`, `UncopiedIsWhole`, `OnlyPropertiesLeak` |

The modules' type invariants are not run but proved.

**Bounds.** `MaxServerRuns`, `MaxClientRuns`, `MaxReq` and `MaxFaults` bound starts,
typed lines and failures; `Handler` the threads at work together (the main thread
then waits in `assign`, which the code never does, but the runs have at most two
requests pending or, for the proofs, any number of slots). Two clients are needed
for one to read the other's message, two threads for two of them to race with each
other, a second server run to meet what the first left retained, a second client run
for late replies, for a retained line with the mark and for the second copy of the
key, two failures for a failure while recovering from another. Two paths tell apart,
in `race`, what was asked for from what was copied and answered; elsewhere paths are
only passed on, and one is enough.

The queue's length is bounded by its capacity and needs no bound of its own. Two
readers and two writers make every pair of calls meet in every order, with one
thread of each kind left to sleep beside another that is awake; the capacities 0 to
3 let nothing pass and make the two edges coincide, touch and lie apart; two items
show their order. The programs here have one reader per queue, for which
`queue_live` finds nobody who waits beside an item. `capacity()` wakes nobody, so
that raising it can leave every writer asleep beside a free place; `raised` excepts
this from the properties, and `NotAllAsleep` the capacity 0, with which an empty
queue is full.

`MaxOpen` bounds the commands the C library has at a time; it is the only
bound of `AsyncClient`, since the pending list holds what is in flight. Two tokens
let one be used again while the other is in flight, and let `connect()`
replace a `connTok_` whose answer is still to come; two open commands let one
token have two of them, a connect and a reconnect. The C library calls back
mostly on one thread; `token_live` has two, since callbacks also come from the thread
that sends, and `token_safe` has one, with which it takes half a minute; the
theorems hold for any number of them.
`token_live` has the type `SUBSCRIBE` besides, for a token that is neither a
connect's nor a message's; the types other than these two differ nowhere in
what is modelled.

In `sync` the one application thread also uses topics, so that the token of a
topic's publication is in flight beside that of a call; two tokens let the next
call use another address than a command left in flight by a time-out. The types
`DISCONNECT` and `UNSUBSCRIBE` differ from those present in nothing but whether
a response is asked for, of which both kinds are there. `consume` needs three
arrivals: one under way while the queue is replaced, one that comes before the
callbacks are back and one after. A second consumer adds nothing to the order
(takes are atomic) and is covered by the theorems. In `objects`, `Scenario` names
the classes that a behaviour may have, with how many of each: every class with a
second of its kind to copy, move or assign from, and every class with those it
takes values from; objects of unrelated classes cannot affect each other, which
is why 16 small instances replace one large. Three addresses are an object, its
source and, after either is destroyed, a new object where it was.

`KeyStaysForWaiter` says `FirstRuns`, because the requests and replies of an earlier
run are still retained: the reply to one of them replaces the key. `race` starts
each client once and the server twice. `WaiterGetsKey` and `WaiterIsServed` are
checked with `MaxReq = 0` (`Undisturbed`) for the same reason, and with
`LateClients`: a client that announces itself before the server has subscribed
shares the one retained announcement with all others and nothing repeats it, so only
clients started after that can rely on an answer. In `faults` every user has an
`authorized_keys` file; the empty name, which a prompt answered with two words
leaves, has none. `ConnectedWorkersHaveKey` and `OnlyKeysInstalled` except a client
that is `Mistakable`: some line with the mark was sent, and the server or the client
is not in its first run, so that the client may meet that line, or a reply to it,
before the key. `KeyInstalledOnce` needs no such exception, and says nothing of a
file that is missing; both are described below. `RequestIsAnswered` holds for a
request that is alone: two of them race for `m_msgPtr`, and one may never be
handled; `LostOnlyWhenReplaced` says that this is the one way to lose it, short of a
crash.

**Deadlock** is not checked, since the system really stops: a server waits in
`consume_message()` with nobody to write to it, and the bounds run out. The queue's
runs do not check it either: that all threads sleep is legal after `capacity()`,
and `NotAllAsleep` states what remains to be asked. In `AsyncClient` a wait for an
answer that the C library does not give lasts for ever, as it does in the code.

**Fairness.** `FairSpec` asks that every thread that can run eventually does:
weak fairness for the (re)start of the server, its main thread, each backup
thread, and each client's own threads. These are operating system threads that
never hold a lock while they wait for one another, so nothing but scheduling
can keep an enabled step from happening; a step once enabled stays enabled
until taken or until its process ends. The user (starting and stopping
clients, typing), the outcomes of races and the failures owe nothing. For the
queue, `FairSpec` asks that a thread inside the queue and awake goes on; nobody
owes a call, a time-out or a spurious wake-up. For the tokens, it asks that a
thread inside a call or a callback goes on, the user's listeners and callbacks
included; the C library owes no answer, and nobody a spurious wake-up.
`SyncFairSpec` asks the same of the synchronous client, and that time passes
(`Expire`) and wakes a thread whose wait has a limit, which is what a condition
variable's `wait_for` does. `SyncCallEnds` says on its left side what the waits
without a limit need: every command is answered. `LimitedCallEnds` needs no
answer. For `MessageConsumer`, calls, handlers and callbacks go on, and a blocked
consumer takes what is there, which is `ImplementsFairFifo` for one reader; the
application owes no call. `Options` has safety only.

**Finding.** `doc_own_message` is a disagreement between the code and its own
comment: `_appServer.cpp:91` denies a race that the threads have.
`PROJECT.json` quotes the lines.

**Met while modelling**, in the models as the code has it, without a run of its
own. In the programs:

- `README.txt:18` makes the key stable by retaining it, but replies are retained
  on the same topic: a reply to a request of the client's previous run replaces
  the key, and so may, after a restart of the server, the reply of a thread that
  took another client's request from `m_msgPtr` (`KeyStaysForWaiter` fails without
  `FirstRuns`);
- `utils.cpp:197` returns `("")`, a pointer and therefore `true`, when
  `authorized_keys` cannot be opened: a client without that file never gets the
  key installed, which is why `KeyInstalledOnce` speaks of files that exist;
- `README.txt:16` makes a client "wait to receive key to finalize the connection
  establishment", but a lost connection ends the wait for it, hence "connected" in
  `ConnectedWorkersHaveKey`, and so does every private text that contains `ssh-rsa`
  (`_appClient.cpp:116-145`): a client that is started again may meet its own
  retained request for `~/x/ssh-rsa`, or the reply to it, work without the key and
  have that line in `authorized_keys` (`Mistakable`);
- `getTxtFromFile` (`utils.cpp:161-163`) means to report a file that it cannot open,
  but its `throw;` has nothing to rethrow and ends the server at its start;
- the prompt asks for a name and a password, of which only the name may be
  typed: with two words the key file becomes `/home//.ssh/authorized_keys`;
- a client that restarts under another name is registered twice, and found under
  the first;
- if the announcement cannot be published, `start_consuming()` is skipped and
  `consume_message()` dereferences a null queue.

In the library:

- `get()` of the queue, documented to block "until a value is added", may go on
  blocking after that: of two sleeping readers the first of two quick puts wakes
  one and the second, which finds the queue not empty, nobody;
- `callback.h:73` calls `delivery_complete()` after acknowledgment, but
  `remove_token()` calls it for failed and refused publications too, and reads the
  message after its waiter was woken, which `publish(const message&)` of the
  synchronous client does not wait for;
- `client.h:221` returns "once it is delivered", but `publish()` with a time-out
  returns in the same way without a delivery;
- `client.h:46`, `:203` and `:268` speak of the longest, or maximum, time to wait for
  an action to complete, but after `wait_for(timeout_)` the calls `connect`,
  `reconnect`, `subscribe` and `unsubscribe` wait again for the response and without
  a limit (`SecondWait`): they end only if the server answers, the premise of
  `SyncCallEnds`, while `LimitedCallEnds` is about the others;
- the synchronous client's callbacks are started with `std::async` and wait at the
  end of the statement, so that they run inside the C library's callback thread
  and not beside it, as `client.h:68` says;
- the comment at `async_client.cpp:790`, that callbacks do not happen while the
  queue is updated, is not true of one that is under way, nor after a connection
  handler has set callbacks again; after `disconnect()` and `reconnect()` of the
  synchronous client, messages go on being thrown away;
- `update_c_struct()` of `ssl_options` does not "match our strings"
  (`ssl_options.h:94`) for the CA path of a copy; lists of properties, server URIs
  and tokens of copied `connect_options`, `message`s and `disconnect_options`, and
  the array of a copied `response_options`, remain the source's in the same way
  (`UncopiedIsWhole` says that objects which are no copies have no such pointers);
- `set_servers()` keeps what `c_arr()` returned, which `string_collection.h:218`
  says not to do; the properties of a will reach no `connect_options`;
  `message::set_topic()` tests the old topic where `will_options` tests the new one;
- `property::operator=` does not free the text it had.

Met, and *not* in the models: a property made from a number with the code of a text
(`properties.cpp:40-42`, "TODO: Throw an exception") leaves its value uninitialised,
and its destructor frees it. `CreateProperty` makes the properties whose code and
argument agree, so `BlocksOwnedOnce` and `OnlyPropertiesLeak` are about these.

## 4. Proofs

For every set of clients, threads, words and paths and all bounds, from the
assumptions named in the modules (the names are distinct, null is nothing
else, bounds are numbers):

| theorem | states |
|---|---|
| `Invariance` | `Spec => []IInv` |
| `TypeCorrect` | `Spec => []TypeOK` |
| `RegisteredAlwaysHeard` | `Spec => []RegisteredAreHeard` |
| `ServerNeverEchoes` | `Spec => []NoEchoToServer` |
| `CopiesStaySeparate` | `Spec => []CopiesToOwnDirectory` |
| `RegistrationHolds` | `Spec => []RegistrationInv` |
| `MissMeansReplaced` | `Spec => []MissOnlyOnReplacedMessage` |
| `KeyFilesHold` | `Spec => []KeyFilesInv` |
| `KeyIsInstalledOnce` | `Spec => []KeyInstalledOnce` |
| `KeyChannelHolds` | `Spec => []KeyChannelInv` |
| `KeyStays` | `Spec => KeyStaysForWaiter` |
| `WaitersAreServed` | `Spec => []WaiterIsServed` |
| `MessagesStayHonest` | `Spec => []AnswersInv` |
| `AnswersEarned` | `Spec => []AnswersAreEarned` |
| `TakenAreKeys` | `Spec => []TakenInv` |
| `WorkFollowsKey` | `Spec => []ConnectedWorkersHaveKey` |
| `OnlyKeysAreInstalled` | `Spec => []OnlyKeysInstalled` |
| `RequestsAreKept` | `Spec => LostOnlyWhenReplaced` |
| `QueueInvariance`, `QueueTypeCorrect` | `Spec => []IInv`, `Spec => []TypeOK` of the queue |
| `ItemsAnnounced`, `PlacesAnnounced` | all readers (writers) asleep beside an item (a place): a writer (reader) is about to notify |
| `NeverAllAsleep` | `Spec => []NotAllAsleep` |
| `FifoImplemented` | `Spec => ImplementsFifo` |
| `TokensTypeCorrect` | `Spec => []TypeOK` of the tokens |
| `PendingIsAccounted` | `Spec => []PendingAccounted` |
| `ContextsStayAlive` | `Spec => []ContextsAlive` |
| `NoWakeUpLost` | `Spec => []SleepersSignalled` |
| `DeliveredOnceAndLast` | `Spec => []DeliveryIsLast` |
| `ReturnedStaysListed` | `Spec => []ReturnedIsListed` |
| `ResultsAreAnswers` | `Spec => []ResultIsAnswer` |
| `SyncImplementsAsync` | `SyncSpec => Spec`: the synchronous client implements `AsyncClient` |
| `SyncTypeCorrect` | `SyncSpec => []SyncTypeOK` |
| `SuccessIsTheAnswer` | `SyncSpec => []SuccessIsAnswer` |
| `ResetsAnswered` | `SyncSpec => []ResetWhenAnswered` |
| `LentComesBack` | `SyncSpec => []LentNotOpen` |
| `NobodyWaitsInVain` | `SyncSpec => []WaitsForAnswer` |
| `ConsumerTypeCorrect` | `Spec => []TypeOK` of the consumer |
| `FreedInUseIsExposed` | `Spec => []FreedInUseOnlyIfExposed` |
| `ReadInOrder` | `Spec => []ConsumedInOrder` |
| `OptionsTypeCorrect` | `Spec => []TypeOK` of the objects |
| `OwnedOnce` | `Spec => []BlocksOwnedOnce` |
| `LeaksOnlyText` | `Spec => OnlyPropertiesLeak` |
| `PointersOwn` | `Spec => []HandledPointersOwn` |
| `WillsNeverNull` | `Spec => []WillNeverNull` |
| `UncopiedAreWhole` | `Spec => []UncopiedIsWhole` |

**Argument.** None of the properties is inductive alone. `IInv` adds what the
main thread knows of the message it handles (`MainThreadInv`: from
`subscribe` on, `m_msgPtr` is still the announcement it read, because only the
main thread writes it; from `publishKey` on its channel is heard), what a
thread knows from the steps behind it (`ThreadInv`: whatever message it read,
the command it built copies from a host to that host's directory, because the
entry it found has the host's address), that every entry's directory is its
own address (`OwnDirectoryInv`), and what a session may have queued
(`ServerSessionInv`, `ClientSessionInv`: a null message means that the
connection is gone). The proof of the step has one case per action; lemmas on
`Publish`, `Subscribe`, `EndSession` and `Take` say once what each does to
every conjunct about the broker. `ServerNeverEchoes` needs that a message of an
ended session is nobody's: a restarted server has a new client id, and
`EndSession` leaves no message `from` it, so even its own retained replies
reach it as `Nobody`'s and never as its own (it *does* meet them: they start
with no `~` and are dropped).

`RegistrationInv` is inductive relative to `IInv` and says, until the first
failure, that heard channels are registered (but for the one being
registered), that what is queued is heard, what is taken is registered, and
what a thread reads is registered or public. A failure between `subscribe` and
`publish` breaks it, leaving a heard but unknown client.

*The key.* `KeyFilesInv` says of every file, whether or not it can be opened, that
it got the key once at most: `isTxtExist` looks before `addStrToFile` writes, and
no other client writes there; that other texts may be added in between changes
nothing, since none of them contains the key. Of a client that has the key it says
that its file, if there is one, holds it; the empty name and the missing file are
where the code takes the key to be there already.
`KeyStaysForWaiter` needs to know who may publish on a private channel:
`KeyChannelInv` says that as long as a client in its first run cannot have asked
(`NothingAsked`), no message of its channel is queued, taken or read by a thread,
and what is retained there was published by the server's present session
(`ChannelUnused`), which is the key. Neither part is inductive without the
other, and both end with a second run of either program: what is retained then
may be a request, which a restarted server takes for a new one. `ServiceInv` is
what makes a wait worth its while: while nothing is disturbed, all are
connected and the queue holds announcements only, so there are no threads and
no races; from there each step of the main thread moves a client from "the
announcement is queued or handled" to "the key is retained" or "queued", and no
step throws it out. It does not hold with requests or failures, and `Undisturbed`
cannot become true again once it is false.

*The answers.* `AnswersInv` follows a path from the terminal to the terminal: every
message, wherever it waits (retained, queued, in `m_msgPtr`), says only what `asked`
and `ran` bear out (`Honest`), and so does what a thread holds, whichever message it
read. It needs no `faults = 0`: the histories only grow, and a crash only discards.
The same path tells what a client may take for the key: a text with the mark was
sent by somebody (`markSent`), and on the channel of a client that has asked nothing
yet there is only the key, or the empty text of a server without one (the last
conjunct of `Honest`, which rests on `KeyChannelInv`). So what a client takes in its
first run, and the server's, is the key; later it is, unless a line with the mark
was sent (`TakenInv`). From this and from `ClientSessionInv`, by which a connected
client at work has taken something, follows `ConnectedWorkersHaveKey`.
`LostOnlyWhenReplaced` is about one step, from `IInv`, `RegistrationInv` and that a
client at work hears its channel (`SubscribedInv`): the queue passes the request to
`m_msgPtr`, that to a thread, which finds the client because it is registered and so
replies, and the client hears it. The one place where nothing of this protects it is
`m_msgPtr` between `ServerSpawn` and `readPayload`.

For the queue, `TypeOK` and the two announcements are inductive together. They
state what the edge notifications are worth: a queue that becomes not empty
while all readers sleep has a writer between its unlock and its notification,
and as long as that writer has not acted it stays so, because only an awake
reader removes anything; a writer that does act wakes a reader. The same holds
for places, unless the capacity is raised. `NotAllAsleep` follows: the queue
cannot be empty and full at once, so one of the two announcements applies. The
refinement maps each action to the operation at its linearization point and
sleeping, waking and notifying to stutters.

For the tokens, everything rests on one equation, `PendingAccounted`: the
entries of a token are its open commands, the calls that still hold their
command, and the callbacks before `remove_token()`. It is inductive because each
action moves one of these into another or takes it out with the entry; the proof
counts the sets of threads with the library's facts on cardinalities.
`ContextsAlive` follows at once: an open command means an entry, and an entry is
a shared pointer. `DeliveryInv` adds that a message's token, which nobody can
reconnect, is in at most one of the places the equation sums, so that after its
entry it has none. `IdInv` follows the message id from the acceptance of the
command to `SetMessageId`. `ResultInv` says that a token which was never reset
with an answer still to come has at most one operation in flight, and is not
complete while it has one; so the answer that completes it finds the members as
`reset()` or the constructor left them, which matters because
`on_success()` without data leaves the reason code alone.

For the synchronous client, `SyncImplementsAsync` comes first: every step is a step
of `AsyncClient` or none, so its invariants hold and may be used. `SInv` adds where
a thread is in its call (`Fits`), in particular that the token of a call is its
thread's alone as long as the call is in the library, and what a token reports
(`Settled`): with at most one command open, a complete token's members are those of
the last answer. The unlimited second wait is what makes it inductive: `connTok_`
has an open command only while the connecting thread is inside its call, so
`reconnect()` cannot reset it too early. `OwedInv` is about the waits: a thread that
waits or may still go on to wait for a token that is not complete has a command open
on it. It is inductive because only the thread that has a token can reset it, and
does so with a command under way; a refusal completes nothing but takes the token
from the thread. `SleepersSignalled` of `AsyncClient` gives the other half, that a
token which has become complete has its notification coming.

For consuming, `Alone` says what `disable_callbacks()` buys: if no call was
exposed, then while the application's thread is in `start_consuming()` or
`stop_consuming()` no callback for a message is under way or can begin, no
consumer waits and nobody else is in a call; so the queue that goes is nobody's.
`Owed` adds that both callbacks are installed while consuming, so that nothing
owed is thrown away; the equation `due = read \o que_ \o Coming` is then
inductive, one message moving from one term to the next.

For the objects, which block an object owns depends on its class (`Shape`). Most
operators leave the blocks alone (`Keeps`), which is shown of each assignment and
of their composition; four lemmas (`PutOwns`, `NewOwns`, `ChangeOwns`,
`MoveOwns`) then give the step of the invariant `OwnInv` from what an action does
to the blocks of one or two objects, and that of these only a property's text is
lost. For the pointers the invariant is about each object alone (`Own`), one part
per class of pointers. It says more than the properties do in one respect: it
holds of objects that were moved from as well. The properties except these, but
a copy may be made of one, and the copy is an object like any other; the proof has to know,
for instance, that a will not in use has no properties in use, whatever became
of the will.

**Only model-checked.** Every invariant that a run checks, and every action
property, is a theorem, but for the one that is violated. What stays with TLC is
liveness, which is beyond the prover: `WaiterGetsKey`, `RequestIsAnswered`,
`ImplementsFairFifo`, `CompletionWakes`, `PendingEmpties`, `SyncCallEnds`,
`LimitedCallEnds`, `LossEndsWait`. Their safety cores are proved: what waits has
something coming (`WaiterIsServed`, `SleepersSignalled`, `WaitsForAnswer`,
`ItemIsAnnounced`, `PlaceIsAnnounced`), what was asked is still somewhere
(`LostOnlyWhenReplaced`), the list holds what is in flight (`PendingAccounted`);
that it does arrive needs the fairness and is checked on the instances of §3.
Nothing is proved by induction over data, and no module uses a recursive operator.

## 5. Not modelled, and what could follow

- *Persistence* (`iclient_persistence.cpp`): each C callback is one call of the
  user's store and keeps nothing; the store is outside the repository. (The
  pointer that `persistence_get()` hands out is the store's, for which the C
  library's convention is memory that it frees.)
- *Server responses* and *exceptions*: data, copied once.
- *Configuration*: the command line's parsing; its values are in the actions.
- *Samples, build files, wording of logs*: no control of their own.
- *Destructors of the two programs*: they join threads that never return.
- *Two threads that connect at once*: `connTok_` is unprotected and no program here
  does it.
- *User callbacks of the synchronous client*, and its `start_consuming()` and
  `stop_consuming()` together with its tokens: the two halves meet only in
  `connect()` and `disconnect()`.

What would add most next: the first half of a request's way, from the client's
publication to the server's queue; the synchronous client composed with
`MessageConsumer`; in `MessageConsumer`, the queue of `ThreadQueue` in place of an
atomic one.
