----------------------- MODULE MessageConsumerProofs ------------------------
(***************************************************************************)
(* Proofs about MessageConsumer, for any consumers and number of messages: *)
(* the queue holds what is owed in order, and is freed in use only if the  *)
(* calls that free it could not keep everybody out.                        *)
(***************************************************************************)
EXTENDS MessageConsumer, SequenceTheorems, TLAPS

USE DEF Caller

Item == Msg \cup {Null}

-----------------------------------------------------------------------------
(* Type correctness                                                        *)

LEMMA InitTyped == Init => TypeOK
<1> SUFFICES ASSUME Init PROVE TypeOK
  OBVIOUS
<1>1. <<>> \in Seq(Msg \cup {Null})
  OBVIOUS
<1>2. /\ lib \in [pc : {"idle", "news", "handler", "put"}, msg : Msg \cup {Null}]
      /\ call \in [Caller -> {"none", "disabled", "install", "reset"}]
      /\ call[Library] = "none"
  BY DEF Init
<1>3. arrivals \in 0 .. MaxArrivals
  BY ConsumerAssumption DEF Init
<1> QED
  BY <1>1, <1>2, <1>3 DEF Init, TypeOK

\* What the callbacks and the consumers do to the queue and what it owes.
LEMMA SequencesTyped ==
  ASSUME NEW s \in Seq(Item), NEW m \in Item
  PROVE  /\ Append(s, m) \in Seq(Item) /\ <<m>> \in Seq(Item)
         /\ <<>> \in Seq(Item)
         /\ s # <<>> => Head(s) \in Item /\ Tail(s) \in Seq(Item)
  BY HeadTailProperties, AppendProperties

LEMMA NullIsNoQueue == Null \notin Seq(Item)
  BY ConsumerAssumption DEF Item

LEMMA NextTyped == TypeOK /\ [Next]_vars => TypeOK'
<1> SUFFICES ASSUME TypeOK, [Next]_vars PROVE TypeOK'
  OBVIOUS
<1> USE DEF Item
<1>1. \A x \in Caller : CanCall(x) /\ lib' = lib
        => \A s \in {"none", "disabled", "install", "reset"} :
             Calls(x, s) =>
               /\ call' \in [Caller -> {"none", "disabled", "install", "reset"}]
               /\ call'[Library] # "none" => lib'.pc \in {"news", "handler"}
  BY ConsumerAssumption DEF CanCall, Calls, TypeOK
<1>2. ASSUME NEW x \in Caller,
             \/ SetCallback(x) \/ SetMessageCallback(x)
             \/ SetConnectionLostHandler(x) \/ \E k \in News : SetNewsHandler(x, k)
      PROVE  TypeOK'
  <2>1. Busy \in BOOLEAN
    BY DEF Busy
  <2>2. /\ exposed' \in BOOLEAN
        /\ UNCHANGED <<que_, lib, call, blocked, arrivals, due, read, consuming, undefined>>
    BY <1>2, <2>1
       DEF SetCallback, SetMessageCallback, SetConnectionLostHandler, SetNewsHandler,
           Sets, TypeOK
  <2>3. /\ arrival' \in {"none", "discard", "client"} /\ lost' \in BOOLEAN
        /\ userCallback_' \in BOOLEAN /\ msgHandler_' \in BOOLEAN
        /\ installed' \subseteq News /\ newsHandler' \subseteq News
    BY <1>2 DEF SetCallback, SetMessageCallback, SetConnectionLostHandler,
                SetNewsHandler, News, news, TypeOK
  <2> QED
    BY <2>2, <2>3 DEF TypeOK
<1>3. ASSUME NEW x \in Caller, StartConsuming(x) \/ StopConsuming(x) PROVE TypeOK'
  <2>1. InUse(x) \in BOOLEAN
    BY DEF InUse, Busy
  <2>2. /\ CanCall(x) /\ lib' = lib
        /\ Calls(x, "disabled") \/ Calls(x, "reset")
        /\ exposed' \in BOOLEAN
    BY <1>3, <2>1 DEF StartConsuming, StopConsuming, Disable, CallbacksDisabled, TypeOK
  <2>3. /\ call' \in [Caller -> {"none", "disabled", "install", "reset"}]
        /\ call'[Library] # "none" => lib'.pc \in {"news", "handler"}
    BY <1>1, <2>2
  <2> QED
    BY <1>3, <2>2, <2>3 DEF StartConsuming, StopConsuming, Disable, CallbacksDisabled, news, TypeOK
<1>4. ASSUME NEW x \in Caller, Resumes(x) PROVE TypeOK'
  <2>1. /\ call' \in [Caller -> {"none", "disabled", "install", "reset"}]
        /\ call'[Library] # "none" => call[Library] # "none"
        /\ lib' = lib
    BY <1>4 DEF Resumes, NewQueue, Install, Returns, FreeQueue, Calls, TypeOK
  <2>2. InFlight \in Seq(Item) /\ <<>> \in Seq(Item)
    BY SequencesTyped DEF InFlight, TypeOK
  <2>3. CASE NewQueue(x) \/ FreeQueue(x)
    BY <2>1, <2>2, <2>3 DEF NewQueue, FreeQueue, Replace, library, news, TypeOK
  <2>4. CASE Install(x)
    BY <2>1, <2>4 DEF Install, Returns, news, TypeOK
  <2> QED
    BY <1>4, <2>3, <2>4 DEF Resumes
<1>5. CASE Arrive \/ ConnectionLost
  <2>1. PICK m \in Item : CallBack(m) \/ Ignore(m)
    <3>1. arrivals' \in Msg \/ ConnectionLost
      BY <1>5, ConsumerAssumption DEF Arrive, Msg, TypeOK
    <3> QED
      BY <1>5, <3>1 DEF Arrive, ConnectionLost
  <2>2. /\ lib' \in [pc : {"idle", "news", "handler", "put"}, msg : Item]
        /\ due' \in Seq(Item)
    <3>1. Append(due, m) \in Seq(Item) /\ due \in Seq(Item)
      BY SequencesTyped DEF TypeOK
    <3>2. due' \in {due, Append(due, m)}
      BY <2>1 DEF CallBack, Ignore
    <3>3. lib' = lib \/ lib' = [pc |-> "handler", msg |-> m]
      BY <2>1 DEF CallBack, Ignore
    <3>4. [pc |-> "handler", msg |-> m] \in [pc : {"idle", "news", "handler", "put"}, msg : Item]
      BY <2>1
    <3>5. lib \in [pc : {"idle", "news", "handler", "put"}, msg : Item]
      BY DEF TypeOK
    <3> QED
      BY <3>1, <3>2, <3>3, <3>4, <3>5
  <2>3. lib.pc = "idle" /\ call' = call /\ arrivals' \in 0 .. MaxArrivals
    BY <1>5, ConsumerAssumption DEF Arrive, ConnectionLost, TypeOK
  <2> QED
    BY <1>5, <2>2, <2>3 DEF Arrive, ConnectionLost, TypeOK, library, news
<1>6. CASE HandlersReturn
  BY <1>6 DEF HandlersReturn, TypeOK, library, news, history
<1>7. CASE Put
  <2>1. que_' = Null \/ que_' \in Seq(Item)
    <3>1. lib.msg \in Item
      BY DEF TypeOK
    <3>2. que_ # Null => Append(que_, lib.msg) \in Seq(Item)
      BY <3>1, SequencesTyped DEF TypeOK
    <3> QED
      BY <1>7, <3>2 DEF Put
  <2>2. lib' \in [pc : {"idle", "news", "handler", "put"}, msg : Item]
    BY <1>7 DEF Put, TypeOK
  <2>3. lib.pc = "put"
    BY <1>7 DEF Put
  <2> QED
    BY <1>7, <2>1, <2>2, <2>3 DEF Put, TypeOK, library, news
<1>8. ASSUME NEW c \in Consumer, Consume(c) \/ ConsumeReturns(c) \/ ConsumeTimesOut(c)
      PROVE  TypeOK'
  <2>1. Busy \in BOOLEAN
    BY DEF Busy
  <2>2. /\ que_' = Null \/ que_' \in Seq(Item)
        /\ read' \in Seq(Item)
    BY <1>8, SequencesTyped
       DEF Consume, ConsumeReturns, ConsumeTimesOut, Take, TypeOK, history
  <2> QED
    BY <1>8, <2>1, <2>2
       DEF Consume, ConsumeReturns, ConsumeTimesOut, TypeOK, library, news, history
<1>9. CASE NewsHandlersReturn \/ \E k \in News : Notice(k)
  BY <1>9 DEF NewsHandlersReturn, Notice, TypeOK, library, news, history
<1>10. ASSUME NEW x \in Caller, DisableCallbacks(x) PROVE TypeOK'
  BY <1>10 DEF DisableCallbacks, CallbacksDisabled, TypeOK, news
<1>11. CASE UNCHANGED vars
  BY <1>11 DEF vars, library, news, history, TypeOK
<1> QED
  BY <1>2, <1>3, <1>4, <1>5, <1>6, <1>7, <1>8, <1>9, <1>10, <1>11 DEF Next

\* TypeOK: the callbacks, the queue and the callers keep to their states.
THEOREM ConsumerTypeCorrect == Spec => []TypeOK
  BY InitTyped, NextTyped, PTL DEF Spec

-----------------------------------------------------------------------------
(* The queue freed in use                                                  *)

\* As long as nothing was exposed, a call that replaces or frees the queue has
\* it to itself: no consumer waits, no other call is under way and, while the
\* application's thread is in the call, the callbacks for messages and lost
\* connections are off and none is under way.
Alone ==
  /\ undefined => exposed
  /\ lib.pc = "put" /\ ~undefined => que_ # Null
  /\ ~exposed /\ Busy => blocked = {}
  /\ ~exposed /\ call[Main] # "none" =>
       /\ call[Library] = "none"
       /\ lib.pc \in {"idle", "news"} /\ arrival # "client" /\ ~lost

LEMMA NextAlone == TypeOK /\ Alone /\ [Next]_vars => Alone'
<1> SUFFICES ASSUME TypeOK, Alone, [Next]_vars PROVE Alone'
  OBVIOUS
<1>1. ASSUME NEW x \in Caller,
             \/ SetCallback(x) \/ SetMessageCallback(x)
             \/ SetConnectionLostHandler(x) \/ \E k \in News : SetNewsHandler(x, k)
      PROVE  Alone'
  <2>1. /\ UNCHANGED <<que_, lib, call, blocked, undefined>>
        /\ exposed' = (exposed \/ Busy)
    BY <1>1 DEF SetCallback, SetMessageCallback, SetConnectionLostHandler,
                SetNewsHandler, Sets
  <2>2. Busy' = Busy
    BY <2>1 DEF Busy
  <2>3. ~exposed' => ~exposed /\ ~Busy /\ call[Main] = "none"
    BY <2>1 DEF Busy
  <2>4. exposed => exposed'
    BY <2>1
  <2> QED
    BY <2>1, <2>2, <2>3, <2>4 DEF Alone
<1>2. ASSUME NEW x \in Caller, StartConsuming(x) \/ StopConsuming(x) PROVE Alone'
  <2>1. /\ CanCall(x) /\ UNCHANGED <<que_, lib, blocked, undefined>>
        /\ exposed' \in {TRUE, exposed \/ InUse(x)}
        /\ ~exposed' => arrival' = "discard" /\ lost' = FALSE
    BY <1>2 DEF StartConsuming, StopConsuming, Disable, CallbacksDisabled
  <2>2. ~exposed' => /\ ~exposed /\ ~Busy /\ blocked = {}
                     /\ x = Main => lib.pc \in {"idle", "news"}
    BY <2>1 DEF InUse, TypeOK
  <2>3. \A y \in Caller : y # x => call'[y] = call[y]
    BY <1>2, <2>1 DEF StartConsuming, StopConsuming, Disable, CallbacksDisabled, Calls, TypeOK
  <2>4. ~exposed' /\ call'[Main] # "none" => x = Main /\ call'[Library] = "none"
    BY <2>2, <2>3, ConsumerAssumption DEF Busy
  <2> QED
    BY <2>1, <2>2, <2>4 DEF Alone
<1>3. ASSUME NEW x \in Caller, NewQueue(x) \/ FreeQueue(x) PROVE Alone'
  <2>1. /\ call[x] # "none"
        /\ undefined' = (undefined \/ (que_ # Null /\ (blocked # {} \/ lib.pc = "put")))
        /\ UNCHANGED <<arrival, lost, lib, blocked, exposed>>
        /\ \A y \in Caller : call[y] = "none" => call'[y] = "none"
    BY <1>3 DEF NewQueue, FreeQueue, Replace, Calls, TypeOK, library
  <2>2. ~exposed => blocked = {} /\ lib.pc # "put"
    BY <2>1, ConsumerAssumption DEF Alone, Busy, TypeOK
  <2>3. Busy' => Busy
    BY <2>1 DEF Busy
  <2>4. lib.pc = "put" => undefined' \/ que_ = Null
    BY <2>1
  <2>5. lib.pc = "put" /\ ~undefined' => que_' # Null
    BY <2>1, <2>4 DEF Alone
  <2>6. call'[Main] # "none" => call[Main] # "none"
    BY <2>1
  <2>7. call[Library] = "none" => call'[Library] = "none"
    BY <2>1
  <2> QED
    BY <2>1, <2>2, <2>3, <2>5, <2>6, <2>7 DEF Alone
<1>4. ASSUME NEW x \in Caller, Install(x) PROVE Alone'
  <2>1. /\ call[x] # "none" /\ call'[x] = "none"
        /\ UNCHANGED <<que_, lib, blocked, undefined, exposed>>
        /\ \A y \in Caller : call[y] = "none" => call'[y] = "none"
    BY <1>4 DEF Install, Returns, Calls, TypeOK
  <2>2. Busy' => Busy
    BY <2>1 DEF Busy
  <2>3. ~exposed => call'[Main] = "none"
    <3>1. CASE x = Library
      BY <2>1, <3>1 DEF Alone, TypeOK
    <3> QED
      BY <2>1, <3>1
  <2> QED
    BY <2>1, <2>2, <2>3 DEF Alone
<1>5. CASE Arrive \/ ConnectionLost
  <2>1. /\ lib.pc = "idle"
        /\ UNCHANGED <<arrival, lost, que_, call, blocked, exposed, undefined>>
        /\ lib' # lib => lib'.pc = "handler" /\ (arrival = "client" \/ lost)
    BY <1>5 DEF Arrive, ConnectionLost, CallBack, Ignore, library
  <2>2. Busy' = Busy
    BY <2>1 DEF Busy
  <2>3. ~exposed /\ call[Main] # "none" => lib' = lib
    BY <2>1 DEF Alone
  <2>4. lib'.pc # "put"
    BY <2>1
  <2> QED
    BY <2>1, <2>2, <2>3, <2>4 DEF Alone
<1>6. CASE HandlersReturn \/ Put
  <2>1. /\ lib.pc # "idle"
        /\ UNCHANGED <<arrival, lost, call, blocked, exposed>>
        /\ lib'.pc = "put" => que_' # Null
        /\ lib.pc \in {"handler", "put"}
        /\ undefined' = undefined \/ (lib.pc = "put" /\ que_ = Null /\ ~undefined)
    BY <1>6 DEF HandlersReturn, Put, TypeOK, library, history
  <2>2. Busy' = Busy
    BY <2>1 DEF Busy
  <2>3. undefined' => undefined
    BY <2>1 DEF Alone
  <2> QED
    BY <2>1, <2>2, <2>3 DEF Alone
<1>7. ASSUME NEW c \in Consumer, Consume(c) \/ ConsumeReturns(c) \/ ConsumeTimesOut(c)
      PROVE  Alone'
  <2>1. /\ UNCHANGED <<arrival, lost, lib, call, undefined>>
        /\ blocked' \subseteq blocked \/ exposed' = (exposed \/ Busy)
        /\ exposed => exposed'
    <3>1. UNCHANGED <<arrival, lost, lib, call, undefined>>
      BY <1>7 DEF Consume, ConsumeReturns, ConsumeTimesOut, library, history
    <3>2. \/ exposed' = (exposed \/ Busy)
          \/ exposed' = exposed /\ blocked' \subseteq blocked
      BY <1>7 DEF Consume, ConsumeReturns, ConsumeTimesOut, history
    <3>3. exposed \in BOOLEAN /\ Busy \in BOOLEAN
      BY DEF TypeOK, Busy
    <3> QED
      BY <3>1, <3>2, <3>3
  <2>2. Busy' = Busy
    BY <2>1 DEF Busy
  <2>3. que_ # Null => que_' # Null
    <3>1. que_ # Null => que_' \in Seq(Item)
      BY <1>7, SequencesTyped
         DEF Consume, ConsumeReturns, ConsumeTimesOut, Take, history, TypeOK, Item
    <3> QED
      BY <3>1, NullIsNoQueue
  <2>4. ~exposed' /\ Busy => blocked' = {}
    BY <2>1 DEF Alone
  <2> QED
    BY <2>1, <2>2, <2>3, <2>4 DEF Alone
<1>8. CASE NewsHandlersReturn \/ \E k \in News : Notice(k)
  <2>1. /\ lib.pc \in {"idle", "news"} /\ lib'.pc \in {"idle", "news"}
        /\ UNCHANGED <<arrival, lost, que_, call, blocked, exposed, undefined>>
    BY <1>8 DEF NewsHandlersReturn, Notice, TypeOK, library, history
  <2>2. Busy' = Busy
    BY <2>1 DEF Busy
  <2> QED
    BY <2>1, <2>2 DEF Alone
<1>9. ASSUME NEW x \in Caller, DisableCallbacks(x) PROVE Alone'
  <2>1. /\ arrival' = "discard" /\ lost' = FALSE
        /\ UNCHANGED <<que_, lib, call, blocked, exposed, undefined>>
    BY <1>9 DEF DisableCallbacks, CallbacksDisabled
  <2>2. Busy' = Busy
    BY <2>1 DEF Busy
  <2> QED
    BY <2>1, <2>2 DEF Alone
<1>10. CASE UNCHANGED vars
  BY <1>10 DEF vars, library, history, Alone, Busy
<1> QED
  BY <1>1, <1>2, <1>3, <1>4, <1>5, <1>6, <1>7, <1>8, <1>9, <1>10
     DEF Next, Resumes

\* FreedInUseOnlyIfExposed: disable_callbacks() protects the queue against
\* every callback that begins later (async_client.cpp:788-817).
THEOREM FreedInUseIsExposed == Spec => []FreedInUseOnlyIfExposed
<1>1. Init => Alone
  BY DEF Init, Alone
<1>2. TypeOK /\ Alone /\ [Next]_vars => (TypeOK /\ Alone)'
  BY NextTyped, NextAlone
<1>3. Alone => FreedInUseOnlyIfExposed
  BY DEF Alone, FreedInUseOnlyIfExposed
<1> QED
  BY <1>1, <1>2, <1>3, InitTyped, PTL DEF Spec

-----------------------------------------------------------------------------
(* What consumers read                                                     *)

\* Whoever may rely on the queue has both callbacks installed; so a message
\* that is thrown away is owed to nobody.
Owed ==
  /\ consuming => arrival = "client" /\ lost
  /\ ConsumedInOrder

LEMMA NextOwed == TypeOK /\ Alone /\ Owed /\ [Next]_vars => Owed'
<1> SUFFICES ASSUME TypeOK, Alone, Owed, [Next]_vars PROVE Owed'
  OBVIOUS
<1>0. /\ due \in Seq(Item) /\ read \in Seq(Item)
      /\ que_ # Null => que_ \in Seq(Item)
      /\ lib.msg \in Item /\ Coming \in Seq(Item)
  BY SequencesTyped DEF TypeOK, Coming, Item
<1>1. ASSUME UNCHANGED <<due, read, que_, lib, undefined>>,
             consuming' => arrival' = "client" /\ lost'
      PROVE  Owed'
  BY <1>1 DEF Owed, ConsumedInOrder, Coming
<1>2. ASSUME NEW x \in Caller,
             \/ SetCallback(x) \/ SetMessageCallback(x)
             \/ SetConnectionLostHandler(x) \/ \E k \in News : SetNewsHandler(x, k)
      PROVE  Owed'
  BY <1>1, <1>2
     DEF SetCallback, SetMessageCallback, SetConnectionLostHandler, SetNewsHandler,
         Sets, Owed
<1>3. ASSUME NEW x \in Caller, StartConsuming(x) \/ StopConsuming(x) PROVE Owed'
  BY <1>1, <1>3 DEF StartConsuming, StopConsuming
<1>4. ASSUME NEW x \in Caller, Install(x) PROVE Owed'
  BY <1>1, <1>4 DEF Install, Returns, Owed
<1>5. ASSUME NEW x \in Caller, NewQueue(x) \/ FreeQueue(x) PROVE Owed'
  <2>1. /\ UNCHANGED <<arrival, lost, lib, consuming>>
        /\ que_' \in {<<>>, Null} /\ read' = <<>>
        /\ due' = IF que_' = Null THEN <<>> ELSE InFlight
        /\ undefined' = (undefined \/ (que_ # Null /\ (blocked # {} \/ lib.pc = "put")))
    BY <1>5 DEF NewQueue, FreeQueue, Replace, library
  <2>2. ~undefined' => lib.pc # "put"
    BY <2>1 DEF Alone
  <2>3. ~undefined' => Coming' = InFlight
    BY <2>1, <2>2 DEF Coming, InFlight, TypeOK
  <2>4. InFlight \in Seq(Item)
    BY SequencesTyped DEF InFlight, TypeOK, Item
  <2>5. InFlight = <<>> \o <<>> \o InFlight
    BY <2>4, ConcatEmptySeq, SequencesTyped
  <2> QED
    BY <2>1, <2>3, <2>5 DEF Owed, ConsumedInOrder
<1>6. CASE Arrive \/ ConnectionLost
  <2>1. PICK m \in Item :
          /\ lib.pc = "idle"
          /\ UNCHANGED <<arrival, lost, que_, read, consuming, undefined>>
          /\ \/ lib' = [pc |-> "handler", msg |-> m]
                /\ due' = IF que_ = Null THEN due ELSE Append(due, m)
             \/ /\ lib' = lib /\ (due' = IF consuming THEN Append(due, m) ELSE due)
                /\ arrival # "client" \/ que_ = Null \/ ~lost
    <3>1. Null \in Item /\ (Arrive => arrivals' \in Item)
      BY ConsumerAssumption DEF Item, Arrive, Msg, TypeOK
    <3>2. CASE Arrive
      BY <3>1, <3>2 DEF Arrive, CallBack, Ignore, library
    <3>3. CASE ConnectionLost
      BY <3>1, <3>3 DEF ConnectionLost, CallBack, Ignore, library
    <3> QED
      BY <1>6, <3>2, <3>3
  <2>2. Coming = <<>>
    BY <2>1 DEF Coming
  <2>3. CASE lib' = lib
    <3>1. que_ # Null => due' = due
      BY <2>1, <2>3 DEF Owed
    <3> QED
      BY <2>1, <2>3, <3>1 DEF Owed, ConsumedInOrder, Coming
  <2>4. CASE lib' # lib
    <3>1. Coming' = <<m>> /\ (que_ # Null => due' = Append(due, m))
      BY <2>1, <2>4 DEF Coming
    <3>2. ASSUME que_ # Null, ~undefined PROVE due' = read \o que_ \o <<m>>
      <4>1. due = read \o que_ \o <<>> /\ read \o que_ \in Seq(Item)
        BY <1>0, <2>2, <3>2, ConcatProperties DEF Owed, ConsumedInOrder
      <4>2. due = read \o que_
        BY <4>1, ConcatEmptySeq
      <4> QED
        BY <1>0, <3>1, <3>2, <4>2, AppendIsConcat
    <3> QED
      BY <2>1, <3>1, <3>2 DEF Owed, ConsumedInOrder
  <2> QED
    BY <2>3, <2>4
<1>7. CASE HandlersReturn
  <2>1. /\ lib.pc = "handler" /\ UNCHANGED <<arrival, lost, due, read, que_, undefined, consuming>>
        /\ que_ # Null => lib'.pc = "put" /\ lib'.msg = lib.msg
    BY <1>7 DEF HandlersReturn, TypeOK, library, history
  <2>2. que_ # Null => Coming' = Coming
    BY <2>1 DEF Coming
  <2> QED
    BY <2>1, <2>2 DEF Owed, ConsumedInOrder
<1>8. CASE Put
  <2>1. /\ lib.pc = "put" /\ lib'.pc = "idle"
        /\ UNCHANGED <<arrival, lost, due, read, consuming>>
        /\ que_ = Null => undefined'
        /\ que_ # Null => que_' = Append(que_, lib.msg) /\ undefined' = undefined
    BY <1>8 DEF Put, TypeOK, library
  <2>2. Coming = <<lib.msg>> /\ Coming' = <<>>
    BY <2>1 DEF Coming
  <2>3. ASSUME que_ # Null PROVE read \o que_ \o <<lib.msg>> = read \o que_' \o <<>>
    <3>1. /\ que_' = que_ \o <<lib.msg>> /\ que_' \in Seq(Item)
      BY <1>0, <2>1, <2>3, AppendIsConcat, SequencesTyped
    <3>2. (read \o que_) \o <<lib.msg>> = read \o que_'
      BY <1>0, <2>3, <3>1, ConcatAssociative, SequencesTyped
    <3> QED
      BY <1>0, <3>1, <3>2, ConcatProperties, ConcatEmptySeq
  <2>4. ASSUME que_' # Null, ~undefined' PROVE due' = read' \o que_' \o Coming'
    <3>1. que_ # Null /\ ~undefined
      BY <2>1, <2>4
    <3>2. due = read \o que_ \o <<lib.msg>>
      BY <2>2, <3>1 DEF Owed, ConsumedInOrder
    <3>3. read \o que_ \o <<lib.msg>> = read \o que_' \o <<>>
      BY <2>3, <3>1
    <3> QED
      BY <2>1, <2>2, <3>2, <3>3
  <2> QED
    BY <2>1, <2>4 DEF Owed, ConsumedInOrder
<1>9. ASSUME NEW c \in Consumer, Consume(c) \/ ConsumeReturns(c) \/ ConsumeTimesOut(c)
      PROVE  Owed'
  <2>1. CASE Take /\ que_ # Null
    <3>1. UNCHANGED <<arrival, lost, lib, due, consuming, undefined>>
      BY <1>9 DEF Consume, ConsumeReturns, ConsumeTimesOut, library, history
    <3>2. /\ que_ \in Seq(Item) /\ Head(que_) \in Item /\ Tail(que_) \in Seq(Item)
          /\ que_ = <<Head(que_)>> \o Tail(que_)
      BY <1>0, <2>1, SequencesTyped DEF Take
    <3>3. read' = read \o <<Head(que_)>> /\ que_' = Tail(que_)
      BY <1>0, <2>1, <3>2, AppendIsConcat DEF Take
    <3>4. (read \o <<Head(que_)>>) \o Tail(que_) = read \o que_
      BY <1>0, <3>2, ConcatAssociative, SequencesTyped
    <3>5. Coming' = Coming
      BY <3>1 DEF Coming
    <3> QED
      BY <2>1, <3>1, <3>3, <3>4, <3>5 DEF Owed, ConsumedInOrder
  <2>2. CASE ~(Take /\ que_ # Null)
    <3>1. UNCHANGED <<arrival, lost, lib, que_, read, due, consuming, undefined>>
      BY <1>9, <2>2 DEF Consume, ConsumeReturns, ConsumeTimesOut, library, history
    <3> QED
      BY <1>1, <3>1 DEF Owed
  <2> QED
    BY <2>1, <2>2
<1>10. CASE NewsHandlersReturn \/ \E k \in News : Notice(k)
  <2>1. /\ lib.pc \in {"idle", "news"} /\ lib'.pc \in {"idle", "news"}
        /\ UNCHANGED <<arrival, lost, que_, due, read, consuming, undefined>>
    BY <1>10 DEF NewsHandlersReturn, Notice, TypeOK, library, history
  <2>2. Coming' = Coming
    BY <2>1 DEF Coming
  <2> QED
    BY <2>1, <2>2 DEF Owed, ConsumedInOrder
<1>11. ASSUME NEW x \in Caller, DisableCallbacks(x) PROVE Owed'
  BY <1>1, <1>11 DEF DisableCallbacks
<1>12. CASE UNCHANGED vars
  BY <1>1, <1>12 DEF vars, library, history, Owed
<1> QED
  BY <1>2, <1>3, <1>4, <1>5, <1>6, <1>7, <1>8, <1>9, <1>10, <1>11, <1>12
     DEF Next, Resumes

\* ConsumedInOrder: a consumer gets what arrived since start_consuming(), in
\* order, each once, whatever handlers and other calls do in between; what
\* comes after disable_callbacks() is thrown away.
THEOREM ReadInOrder == Spec => []ConsumedInOrder
<1>1. Init => Alone /\ Owed
  BY DEF Init, Alone, Owed, ConsumedInOrder
<1>2. TypeOK /\ Alone /\ Owed /\ [Next]_vars => (TypeOK /\ Alone /\ Owed)'
  BY NextTyped, NextAlone, NextOwed
<1>3. Owed => ConsumedInOrder
  BY DEF Owed
<1> QED
  BY <1>1, <1>2, <1>3, InitTyped, PTL DEF Spec
=============================================================================
