---------------------------- MODULE AsyncClient -----------------------------
(***************************************************************************)
(* The operations of mqtt::async_client (async_client.cpp) and the tokens  *)
(* that track them (token.cpp, mqtt/token.h).  An operation makes a token, *)
(* enters it in the list of pending tokens and passes its bare address to  *)
(* the C library, which answers on a thread of its own through that        *)
(* address.  Shared pointers keep a token alive: the list, connTok_, the   *)
(* application's, and the locals of calls.                                 *)
(*                                                                         *)
(* One action is what a thread does while it holds a lock, the client's or *)
(* the token's, with the local steps around it.  A call of the C library   *)
(* either accepts the command or refuses it.                               *)
(*                                                                         *)
(* A definition commented "Faulty" is a variant with a plausible mistake;  *)
(* nothing uses it, it shows that the properties would notice.             *)
(***************************************************************************)
EXTENDS Integers, FiniteSets, FiniteSetsExt

CONSTANTS Main,        \* the application's thread that connects
          User,        \* its other threads
          Library,     \* the C library's threads that call back
          Token,       \* addresses of tokens, used again once free
          Kind,        \* the types of token besides CONNECT and PUBLISH
          MaxOpen,     \* bound: commands the C library has at a time
          Null         \* no token

App == {Main} \cup User
Thread == App \cup Library

ASSUME AsyncAssumption ==
  /\ App \cap Library = {}
  /\ IsFiniteSet(App) /\ IsFiniteSet(Library)
  /\ Null \notin Token
  /\ Kind \subseteq {"SUBSCRIBE", "UNSUBSCRIBE", "DISCONNECT"}
  /\ MaxOpen \in Nat

VARIABLES tok,            \* the members of each token
          pending,        \* how often each is in the list of its type
          connTok_,       \* the token of the last connect
          userCallback_,  \* whether a callback object is set
          open,           \* commands the C library has, by their context
          pc,             \* where each thread is
          at              \* the token a thread works with or holds

vars == <<tok, pending, connTok_, userCallback_, open, pc, at>>

\* Where an application's thread is between its actions: about to call the C
\* library, in a callback, or in one of the waits.
CallPc  == {"connecting", "reconnecting", "calling", "publishing"}
WaitPc  == {"asleep", "woken", "forAsleep", "forWoken"}
SleepPc == {"asleep", "forAsleep"}
AppPc   == {"idle", "resetting", "sent", "deliver"} \cup CallPc \cup WaitPc

\* Where a library's thread is: in the listener, before the notification,
\* before remove_token(), in delivery_complete().
LibraryPc == {"idle", "listen", "signal", "remove", "deliver"}

Types == {"CONNECT", "PUBLISH"} \cup Kind

\* rc and reason say whether rc_ and reasonCode_ report no error, acked whether
\* a message's QoS is above 0, msgId whether a message's msgId_ is positive.
\* History: answer is the last answer, mixed whether the token was reset while
\* another of its commands had no answer.
TokenMembers ==
  [type : Types, acked : BOOLEAN, complete : BOOLEAN, rc : BOOLEAN,
   reason : BOOLEAN, msgId : BOOLEAN, answer : {"none", "good", "bad"},
   mixed : BOOLEAN]

TypeOK ==
  /\ tok \in [Token -> TokenMembers]
  /\ pending \in [Token -> Nat]
  /\ connTok_ \in Token \cup {Null}
  /\ connTok_ # Null => tok[connTok_].type = "CONNECT"
  /\ userCallback_ \in BOOLEAN
  /\ open \in [Token -> Nat]
  /\ pc \in [Thread -> AppPc \cup LibraryPc]
  /\ \A a \in App : pc[a] \in AppPc
  /\ \A l \in Library : pc[l] \in LibraryPc
  /\ at \in [Thread -> Token \cup {Null}]
  /\ \A x \in Thread : at[x] = Null => pc[x] = "idle"
  /\ \A l \in Library : pc[l] = "idle" => at[l] = Null

NewToken(type, acked) ==
  [type |-> type, acked |-> acked, complete |-> FALSE,
   rc |-> TRUE, reason |-> TRUE, msgId |-> FALSE, answer |-> "none",
   mixed |-> FALSE]

Init ==
  /\ tok = [t \in Token |-> NewToken("CONNECT", FALSE)]
  /\ pending = [t \in Token |-> 0]
  /\ connTok_ = Null
  /\ userCallback_ = FALSE
  /\ open = [t \in Token |-> 0]
  /\ pc = [x \in Thread |-> "idle"]
  /\ at = [x \in Thread |-> Null]

\* Some shared pointer owns the token.  A library's thread has its bare
\* address, but for the copy that remove_token() makes for the callback.
Live(t) ==
  \/ pending[t] > 0
  \/ connTok_ = t
  \/ \E a \in App : at[a] = t
  \/ \E l \in Library : at[l] = t /\ pc[l] = "deliver"

Goto(x, p, t) ==
  /\ pc' = [pc EXCEPT ![x] = p]
  /\ at' = [at EXCEPT ![x] = t]

-----------------------------------------------------------------------------
(* The list of pending tokens                                              *)

AddToken(t) == pending' = [pending EXCEPT ![t] = @ + 1]

\* Faulty: every entry of the token goes, not the first one only.
RemoveAllEntries(x) ==
  LET t == at[x] IN
  /\ pending' = [pending EXCEPT ![t] = 0]
  /\ IF tok[t].type = "PUBLISH" /\ tok[t].acked /\ userCallback_
     THEN Goto(x, "deliver", t)
     ELSE Goto(x, "idle", Null)

\* Faulty: the entry stays if there is a callback to call.
RemoveOrDeliver(x) ==
  LET t == at[x] IN
  IF tok[t].type = "PUBLISH" /\ tok[t].acked /\ userCallback_
  THEN Goto(x, "deliver", t) /\ UNCHANGED pending
  ELSE Goto(x, "idle", Null) /\ pending' = [pending EXCEPT ![t] = @ - 1]

\* The first entry with this address goes.  If it is of a message whose QoS
\* is above 0, the user's callback is called, without the lock.
RemoveToken(x) ==
  LET t == at[x] IN
  /\ pending' = [pending EXCEPT ![t] = IF @ > 0 THEN @ - 1 ELSE @]
  /\ IF /\ pending[t] > 0
        /\ tok[t].type = "PUBLISH" /\ tok[t].acked
        /\ userCallback_
     THEN Goto(x, "deliver", t)
     ELSE Goto(x, "idle", Null)

\* get_pending_delivery_tokens(), and what get_pending_delivery_token() finds
PendingDeliveryTokens ==
  {t \in Token : tok[t].type = "PUBLISH" /\ pending[t] > 0 /\ tok[t].msgId}

\* delivery_complete() returns.
DeliveryReturns(x) ==
  /\ pc[x] = "deliver"
  /\ Goto(x, "idle", Null)
  /\ UNCHANGED <<tok, pending, connTok_, userCallback_, open>>

\* set_callback(): the callback stays unset if the C library refuses it.
SetCallback ==
  /\ userCallback_' \in BOOLEAN
  /\ UNCHANGED <<tok, pending, connTok_, open, pc, at>>

-----------------------------------------------------------------------------
(* Operations, up to the call of the C library                             *)

Begin(a, t, new, p) ==
  /\ pc[a] = "idle"
  /\ ~Live(t)
  /\ tok' = [tok EXCEPT ![t] = new]
  /\ AddToken(t)
  /\ Goto(a, p, t)
  /\ UNCHANGED <<userCallback_, open>>

Connect(t) ==
  /\ Begin(Main, t, NewToken("CONNECT", FALSE), "connecting")
  /\ connTok_' = t

\* disconnect(), subscribe(), unsubscribe()
Request(a, t, kind) ==
  /\ Begin(a, t, NewToken(kind, FALSE), "calling")
  /\ UNCHANGED connTok_

\* A delivery_token also has the message, acked tells its QoS.
NewDelivery(acked) == NewToken("PUBLISH", acked)

Publish(a, t, acked) ==
  /\ Begin(a, t, NewDelivery(acked), "publishing")
  /\ UNCHANGED connTok_

\* Faulty: the reason code stays as it was.
ResetKeepsReason(t) ==
  [tok[t] EXCEPT !.complete = FALSE, !.rc = TRUE,
                 !.mixed = @ \/ pending[t] > 0]

\* token::reset()
Reset(t) ==
  [tok[t] EXCEPT !.complete = FALSE, !.rc = TRUE, !.reason = TRUE,
                 !.mixed = @ \/ pending[t] > 0]

\* reconnect() uses the token of the last connect again.
Reconnect ==
  /\ pc[Main] = "idle"
  /\ connTok_ # Null
  /\ tok' = [tok EXCEPT ![connTok_] = Reset(connTok_)]
  /\ Goto(Main, "resetting", connTok_)
  /\ UNCHANGED <<pending, connTok_, userCallback_, open>>

ReconnectAdds ==
  /\ pc[Main] = "resetting"
  /\ AddToken(at[Main])
  /\ Goto(Main, "reconnecting", at[Main])
  /\ UNCHANGED <<tok, connTok_, userCallback_, open>>

-----------------------------------------------------------------------------
(* Operations, from the call of the C library on                           *)

Room == MapThenSumSet(LAMBDA t : open[t], Token) < MaxOpen

Accept(a) ==
  /\ pc[a] \in CallPc
  /\ Room
  /\ open' = [open EXCEPT ![at[a]] = @ + 1]
  /\ Goto(a, IF pc[a] = "publishing" THEN "sent" ELSE "idle", at[a])
  /\ UNCHANGED <<tok, pending, connTok_, userCallback_>>

\* Faulty: the message id is never stored.
NoMessageId(a) ==
  /\ pc[a] = "sent"
  /\ Goto(a, "idle", at[a])
  /\ UNCHANGED <<tok, pending, connTok_, userCallback_, open>>

SetMessageId(a) ==
  /\ pc[a] = "sent"
  /\ tok' = [tok EXCEPT ![at[a]].msgId = tok[at[a]].acked]
  /\ Goto(a, "idle", at[a])
  /\ UNCHANGED <<pending, connTok_, userCallback_, open>>

\* Faulty: a refused reconnect leaves its entry behind.
RefuseLeaks(a) ==
  /\ pc[a] \in CallPc
  /\ IF pc[a] = "reconnecting"
     THEN Goto(a, "idle", Null) /\ UNCHANGED pending
     ELSE RemoveToken(a)
  /\ connTok_' = IF pc[a] = "connecting" THEN Null ELSE connTok_
  /\ UNCHANGED <<tok, userCallback_, open>>

\* Faulty: the result of the C library's call is not looked at.
RefuseUnnoticed(a) ==
  /\ pc[a] \in CallPc
  /\ Goto(a, "idle", at[a])
  /\ UNCHANGED <<tok, pending, connTok_, userCallback_, open>>

\* The call throws; after a refused connect there is no token to reconnect.
Refuse(a) ==
  /\ pc[a] \in CallPc
  /\ RemoveToken(a)
  /\ connTok_' = IF pc[a] = "connecting" THEN Null ELSE connTok_
  /\ UNCHANGED <<tok, userCallback_, open>>

-----------------------------------------------------------------------------
(* Answers of the C library                                                *)

\* Faulty: a token without a listener is not signalled.
AnswerUnsignalled(l, t, new) ==
  /\ pc[l] = "idle"
  /\ open[t] > 0
  /\ open' = [open EXCEPT ![t] = @ - 1]
  /\ tok' = [tok EXCEPT ![t] = new]
  /\ Goto(l, "listen", t) \/ Goto(l, "remove", t)
  /\ UNCHANGED <<pending, connTok_, userCallback_>>

\* What the callbacks do under the token's lock; then the listener is called
\* if there is one (which of the tokens have one is left open).
Answer(l, t, new) ==
  /\ pc[l] = "idle"
  /\ open[t] > 0
  /\ open' = [open EXCEPT ![t] = @ - 1]
  /\ tok' = [tok EXCEPT ![t] = new]
  /\ Goto(l, "listen", t) \/ Goto(l, "signal", t)
  /\ UNCHANGED <<pending, connTok_, userCallback_>>

\* The members after an answer.  data: it comes with data, which have the
\* message's id.  code: their reason code, "bad" above GRANTED_QOS_2, "none" if
\* none is stored.
Answered(t, rc, data, code) ==
  [tok[t] EXCEPT
    !.msgId    = IF data THEN tok[t].acked ELSE @,
    !.reason   = IF code = "none" THEN @ ELSE code = "good",
    !.rc       = rc,
    !.complete = TRUE,
    !.answer   = IF rc /\ code # "bad" THEN "good" ELSE "bad"]

\* on_success(), on_success5(): data of MQTT v5 have a reason code.
OnSuccess(l, t) ==
  \E data \in BOOLEAN, code \in {"none", "good", "bad"} :
    /\ code # "none" => data
    /\ Answer(l, t, Answered(t, TRUE, data, code))

\* on_failure(), on_failure5(): all data have one, "bad" before MQTT v5.  With
\* MQTT v5 the reason code alone may tell the error.
OnFailure(l, t) ==
  \E rc, data \in BOOLEAN, code \in {"none", "good", "bad"} :
    /\ code # "none" <=> data
    /\ rc => code = "bad"
    /\ Answer(l, t, Answered(t, rc, data, code))

\* The listener is told before the waiting threads are.
ListenerReturns(l) ==
  /\ pc[l] = "listen"
  /\ Goto(l, "signal", at[l])
  /\ UNCHANGED <<tok, pending, connTok_, userCallback_, open>>

Woken(p) == IF p = "asleep" THEN "woken" ELSE "forWoken"

Asleep(a) == pc[a] \in SleepPc

\* Faulty: one waiter is woken, whoever else waits.
SignalOne(l) ==
  /\ pc[l] = "signal"
  /\ LET S == {a \in App : Asleep(a) /\ at[a] = at[l]} IN
       \/ S = {} /\ pc' = [pc EXCEPT ![l] = "remove"]
       \/ \E s \in S : pc' = [pc EXCEPT ![l] = "remove", ![s] = Woken(@)]
  /\ UNCHANGED <<tok, pending, connTok_, userCallback_, open, at>>

\* cond_.notify_all()
Signal(l) ==
  /\ pc[l] = "signal"
  /\ pc' = [x \in Thread |->
              IF x = l THEN "remove"
              ELSE IF x \in App /\ Asleep(x) /\ at[x] = at[l] THEN Woken(pc[x])
              ELSE pc[x]]
  /\ UNCHANGED <<tok, pending, connTok_, userCallback_, open, at>>

\* Faulty: the token stays in the list.
ForgetToRemove(l) ==
  /\ pc[l] = "remove"
  /\ Goto(l, "idle", Null)
  /\ UNCHANGED <<tok, pending, connTok_, userCallback_, open>>

RemoveAnswered(l) ==
  /\ pc[l] = "remove"
  /\ RemoveToken(l)
  /\ UNCHANGED <<tok, connTok_, userCallback_, open>>

-----------------------------------------------------------------------------
(* The application and its tokens                                          *)

\* A wait ends when the token is complete, with an exception after an error.
WaitReturns(a) ==
  /\ tok[at[a]].complete
  /\ Goto(a, "idle", at[a])
  /\ UNCHANGED <<tok, pending, connTok_, userCallback_, open>>

WaitGoesOn(a, p) ==
  /\ ~tok[at[a]].complete
  /\ Goto(a, p, at[a])
  /\ UNCHANGED <<tok, pending, connTok_, userCallback_, open>>

\* wait() and the get_..._response() of a token of the right type
Wait(a) ==
  /\ pc[a] \in {"idle", "woken"}
  /\ at[a] # Null
  /\ WaitReturns(a) \/ WaitGoesOn(a, "asleep")

\* wait_for(), wait_until(), try_wait(): once awake, the time may be up.
WaitFor(a) ==
  /\ pc[a] \in {"idle", "forWoken"}
  /\ at[a] # Null
  /\ \/ WaitReturns(a)
     \/ WaitGoesOn(a, "forAsleep")
     \/ WaitGoesOn(a, "idle")

\* A sleeper wakes up for no reason, or because its time is up.
WakeUnsignalled(a) ==
  /\ Asleep(a)
  /\ Goto(a, Woken(pc[a]), at[a])
  /\ UNCHANGED <<tok, pending, connTok_, userCallback_, open>>

\* The application lets go of its pointer, or copies it for another thread.
Drop(a) ==
  /\ pc[a] = "idle"
  /\ Goto(a, "idle", Null)
  /\ UNCHANGED <<tok, pending, connTok_, userCallback_, open>>

Share(a, b) ==
  /\ pc[a] = "idle" /\ pc[b] = "idle"
  /\ Goto(b, "idle", at[a])
  /\ UNCHANGED <<tok, pending, connTok_, userCallback_, open>>

-----------------------------------------------------------------------------
\* The steps of a call that has begun; those of a callback.
AppResumes(a) ==
  \/ Accept(a) \/ Refuse(a) \/ SetMessageId(a) \/ DeliveryReturns(a)
  \/ pc[a] # "idle" /\ (Wait(a) \/ WaitFor(a))

LibraryResumes(l) ==
  ListenerReturns(l) \/ Signal(l) \/ RemoveAnswered(l) \/ DeliveryReturns(l)

Next ==
  \/ \E t \in Token :
       \/ Connect(t)
       \/ \E a \in App :
            \/ \E kind \in Kind : Request(a, t, kind)
            \/ \E acked \in BOOLEAN : Publish(a, t, acked)
  \/ Reconnect \/ ReconnectAdds \/ SetCallback
  \/ \E a \in App :
       \/ Accept(a) \/ Refuse(a) \/ SetMessageId(a) \/ DeliveryReturns(a)
       \/ Wait(a) \/ WaitFor(a) \/ WakeUnsignalled(a) \/ Drop(a)
       \/ \E b \in App : Share(a, b)
  \/ \E l \in Library :
       \/ \E t \in Token : OnSuccess(l, t) \/ OnFailure(l, t)
       \/ ListenerReturns(l) \/ Signal(l) \/ RemoveAnswered(l)
       \/ DeliveryReturns(l)

Spec == Init /\ [][Next]_vars

\* A thread inside a call or a callback goes on, and so do the user's
\* listeners; the C library owes no answer.
FairSpec ==
  /\ Spec
  /\ \A a \in App : WF_vars(AppResumes(a))
  /\ WF_vars(ReconnectAdds)
  /\ \A l \in Library : WF_vars(LibraryResumes(l))

-----------------------------------------------------------------------------
(* Properties                                                              *)

\* The calls and the callbacks that still have to see to an entry of the list.
Callers(t) == {a \in App : at[a] = t /\ pc[a] \in CallPc}
Answerers(t) ==
  {l \in Library : at[l] = t /\ pc[l] \in {"listen", "signal", "remove"}}

\* The list of pending tokens holds exactly the operations in flight: a token
\* is in it once for every command the C library has, every call that has not
\* handed its command over, every callback before remove_token().
PendingAccounted ==
  \A t \in Token :
    pending[t] = open[t] + Cardinality(Callers(t)) + Cardinality(Answerers(t))

\* The C library never has, and no callback ever works on, the address of a
\* token that is gone, although only shared pointers elsewhere own it: connect
\* may replace connTok_, reconnect use a token twice, the application drop it.
\* (The comment in connect() doubts it.)
ContextsAlive ==
  \A t \in Token : open[t] > 0 \/ (\E l \in Library : at[l] = t) => Live(t)

\* No wake-up is lost: whoever sleeps on a complete token will be notified.
SleepersSignalled ==
  \A a \in App : Asleep(a) /\ tok[at[a]].complete =>
    \E l \in Library : at[l] = at[a] /\ pc[l] \in {"listen", "signal"}

\* delivery_complete() is the last the library does with a message: neither
\* the list nor the C library nor another callback knows its token any more,
\* so that no delivery is reported twice.  (publish() may yet store the id.)
DeliveryIsLast ==
  \A x \in Thread : pc[x] = "deliver" =>
    /\ pending[at[x]] = 0 /\ open[at[x]] = 0
    /\ \A y \in Thread \ {x} :
         at[y] = at[x] => y \in App /\ pc[y] \notin CallPc \cup {"deliver"}

\* get_pending_delivery_tokens() misses no message in flight whose publish()
\* has returned (messages of QoS 0 have no id and are never listed).
ReturnedIsListed ==
  \A t \in Token :
    /\ open[t] > 0 /\ tok[t].type = "PUBLISH" /\ tok[t].acked
    /\ \A a \in App : at[a] = t => pc[a] # "sent"
    => t \in PendingDeliveryTokens

\* check_ret() throws on a complete token exactly if the last answer was an
\* error, by its kind or by its reason code, also when reconnect has used the
\* token before, unless it did so while an answer was still to come.
ResultIsAnswer ==
  \A t \in Token : tok[t].complete /\ ~tok[t].mixed =>
    (tok[t].rc /\ tok[t].reason <=> tok[t].answer = "good")

\* Whoever sleeps on a complete token wakes up, unless it is reset before.
CompletionWakes ==
  \A a \in App, t \in Token :
    Asleep(a) /\ at[a] = t /\ tok[t].complete
      ~> ~Asleep(a) \/ ~tok[t].complete

\* An operation that was answered or refused leaves the list.
PendingEmpties ==
  \A t \in Token :
    pending[t] > 0 /\ open[t] = 0 ~> pending[t] = 0 \/ open[t] > 0
=============================================================================
