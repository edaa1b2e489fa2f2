---------------------------- MODULE SyncClient ------------------------------
(***************************************************************************)
(* mqtt::client (client.cpp, mqtt/client.h): an operation calls that of an *)
(* async_client, waits for the token with the client's timeout and, if it  *)
(* has a response to return, asks the token for it, which waits again, now *)
(* without a limit.  The async_client is private, but get_topic() gives a  *)
(* topic that publishes and subscribes on it and returns the token.        *)
(* (topic::get_client() would give away the async_client itself; nobody in *)
(* the repository calls it.)                                               *)
(*                                                                         *)
(* Every step is a step of AsyncClient, or changes nothing there.          *)
(* start_consuming() in connect() and stop_consuming() in disconnect() are *)
(* MessageConsumer's.                                                      *)
(*                                                                         *)
(* A definition commented "Faulty" is a variant with a plausible mistake;  *)
(* nothing uses it, it shows that the properties would notice.             *)
(***************************************************************************)
EXTENDS AsyncClient

VARIABLES stage,     \* where each thread is in a call of the synchronous client
          late,      \* whether the time of its wait_for() is up
          lent,      \* whether it publishes a message that stays its caller's
          ok,        \* history: whether its last wait ended with success
          gone       \* history: tokens whose message its caller has got back

sync == <<stage, late, lent, ok, gone>>
svars == <<vars, sync>>

\* In the call of the async_client, in wait_for(), in wait() or the wait for a
\* response, about to return or to throw.
Stage == {"none", "call", "limited", "get", "return"}

SyncTypeOK ==
  /\ stage \in [App -> Stage]
  /\ late \in [App -> BOOLEAN]
  /\ lent \in [App -> BOOLEAN]
  /\ ok \in [App -> BOOLEAN]
  /\ gone \subseteq Token
  /\ \A a \in App : stage[a] # "none" => at[a] # Null
  /\ \A a \in App : stage[a] = "return" => pc[a] = "idle"
  /\ \A a \in App : lent[a] => stage[a] # "limited" /\ tok[at[a]].type = "PUBLISH"

SyncInit ==
  /\ Init
  /\ stage = [a \in App |-> "none"]
  /\ late = [a \in App |-> FALSE]
  /\ lent = [a \in App |-> FALSE]
  /\ ok = [a \in App |-> FALSE]
  /\ gone = {}

To(a, s) == stage' = [stage EXCEPT ![a] = s]

-----------------------------------------------------------------------------
(* The calls                                                               *)

SyncBegin(a, borrows) ==
  /\ stage[a] = "none"
  /\ To(a, "call")
  /\ lent' = [lent EXCEPT ![a] = borrows]
  /\ UNCHANGED <<late, ok>>

SyncConnect(t) == SyncBegin(Main, FALSE) /\ Connect(t) /\ gone' = gone \ {t}

SyncReconnect == SyncBegin(Main, FALSE) /\ Reconnect /\ UNCHANGED gone

\* subscribe(), unsubscribe(), disconnect()
SyncRequest(a, t, kind) ==
  SyncBegin(a, FALSE) /\ Request(a, t, kind) /\ gone' = gone \ {t}

\* publish(const message&) lends the caller's message, the others share one.
SyncPublish(a, t, acked, borrows) ==
  SyncBegin(a, borrows) /\ Publish(a, t, acked) /\ gone' = gone \ {t}

\* Faulty: a lent message also waits with the timeout.
AlwaysLimited(a) == "limited"

FirstWait(a) == IF lent[a] THEN "get" ELSE "limited"

\* The async_client's call, to its end or until it throws.
SyncReconnectAdds == ReconnectAdds /\ UNCHANGED sync

SyncCall(a) ==
  /\ stage[a] = "call"
  /\ \/ Accept(a) /\ To(a, IF pc[a] = "publishing" THEN "call" ELSE FirstWait(a))
     \/ SetMessageId(a) /\ To(a, FirstWait(a))
  /\ UNCHANGED <<late, lent, ok, gone>>

SyncThrows(a) ==
  /\ stage[a] = "call"
  /\ Refuse(a) \/ DeliveryReturns(a)
  /\ To(a, IF pc'[a] = "idle" THEN "none" ELSE "call")
  /\ lent' = IF pc'[a] = "idle" THEN [lent EXCEPT ![a] = FALSE] ELSE lent
  /\ UNCHANGED <<late, ok, gone>>

-----------------------------------------------------------------------------
(* The waits                                                               *)

\* The result is ignored: whether a response is asked for depends on the call.
SecondWait(a) ==
  IF tok[at[a]].type \in {"CONNECT", "SUBSCRIBE", "UNSUBSCRIBE"}
  THEN "get" ELSE "return"

\* check_ret() throws for an answer that was an error.
Checked(a) == tok[at[a]].rc /\ tok[at[a]].reason

Expire(a) ==
  /\ stage[a] = "limited" /\ ~late[a]
  /\ late' = [late EXCEPT ![a] = TRUE]
  /\ UNCHANGED <<vars, stage, lent, ok, gone>>

\* Faulty: connect() and the others give up when the time is up.
GivesUp(a) ==
  /\ stage[a] = "limited" /\ pc[a] \in {"idle", "forWoken"}
  /\ \/ WaitReturns(a) /\ To(a, IF Checked(a) THEN SecondWait(a) ELSE "return")
     \/ WaitGoesOn(a, "forAsleep") /\ ~late[a] /\ UNCHANGED stage
     \/ WaitGoesOn(a, "idle") /\ late[a] /\ To(a, "return")
  /\ ok' = [ok EXCEPT ![a] = stage'[a] # "limited"]
  /\ UNCHANGED <<late, lent, gone>>

\* Faulty: nobody looks at the clock.
NeverTimesOut(a) ==
  /\ stage[a] = "limited" /\ pc[a] \in {"idle", "forWoken"}
  /\ \/ WaitReturns(a) /\ To(a, IF Checked(a) THEN SecondWait(a) ELSE "return")
     \/ WaitGoesOn(a, "forAsleep") /\ UNCHANGED stage
  /\ UNCHANGED <<late, lent, ok, gone>>

\* wait_for(timeout_)
WaitLimited(a) ==
  /\ stage[a] = "limited" /\ pc[a] \in {"idle", "forWoken"}
  /\ \/ WaitReturns(a) /\ To(a, IF Checked(a) THEN SecondWait(a) ELSE "return")
     \/ WaitGoesOn(a, "forAsleep") /\ ~late[a] /\ UNCHANGED stage
     \/ WaitGoesOn(a, "idle") /\ late[a] /\ To(a, SecondWait(a))
  /\ UNCHANGED <<late, lent, ok, gone>>

\* wait(), get_connect_response() and the like
WaitUnlimited(a) ==
  /\ stage[a] = "get" /\ pc[a] \in {"idle", "woken"}
  /\ \/ WaitReturns(a) /\ To(a, "return") /\ ok' = [ok EXCEPT ![a] = Checked(a)]
     \/ WaitGoesOn(a, "asleep") /\ UNCHANGED <<stage, ok>>
  /\ UNCHANGED <<late, lent, gone>>

SyncWakes(a) == WakeUnsignalled(a) /\ UNCHANGED sync

\* The pointer of the call goes, and a lent message is its caller's again.
SyncReturns(a) ==
  /\ stage[a] = "return"
  /\ Drop(a)
  /\ To(a, "none")
  /\ lent' = [lent EXCEPT ![a] = FALSE]
  /\ late' = [late EXCEPT ![a] = FALSE]
  /\ ok' = [ok EXCEPT ![a] = FALSE]
  /\ gone' = IF lent[a] THEN gone \cup {at[a]} ELSE gone

-----------------------------------------------------------------------------
(* What else happens                                                       *)

\* A thread outside these calls publishes or subscribes through a topic, and
\* may wait for the token.
TopicBegin(a, t) ==
  /\ stage[a] = "none"
  /\ gone' = gone \ {t}
  /\ UNCHANGED <<stage, late, lent, ok>>

TopicPublish(a, t, acked) == TopicBegin(a, t) /\ Publish(a, t, acked)

TopicSubscribe(a, t) ==
  TopicBegin(a, t) /\ "SUBSCRIBE" \in Kind /\ Request(a, t, "SUBSCRIBE")

TopicResumes(a) ==
  /\ stage[a] = "none"
  /\ \/ Accept(a) \/ Refuse(a) \/ SetMessageId(a) \/ DeliveryReturns(a)
     \/ Wait(a) \/ WaitFor(a) \/ Drop(a)
  /\ UNCHANGED sync

SyncSetCallback == SetCallback /\ UNCHANGED sync

Answers(l, t) == (OnSuccess(l, t) \/ OnFailure(l, t)) /\ UNCHANGED sync

SyncLibrary(l) == LibraryResumes(l) /\ UNCHANGED sync

SyncResumes(a) ==
  SyncCall(a) \/ SyncThrows(a) \/ WaitLimited(a) \/ WaitUnlimited(a) \/ SyncReturns(a)

SyncNext ==
  \/ \E t \in Token :
       \/ SyncConnect(t)
       \/ \E a \in App :
            \/ \E kind \in Kind : SyncRequest(a, t, kind)
            \/ \E acked, borrows \in BOOLEAN : SyncPublish(a, t, acked, borrows)
            \/ \E acked \in BOOLEAN : TopicPublish(a, t, acked)
            \/ TopicSubscribe(a, t)
       \/ \E l \in Library : Answers(l, t)
  \/ SyncReconnect \/ SyncReconnectAdds \/ SyncSetCallback
  \/ \E a \in App :
       SyncResumes(a) \/ TopicResumes(a) \/ Expire(a) \/ SyncWakes(a)
  \/ \E l \in Library : SyncLibrary(l)

SyncSpec == SyncInit /\ [][SyncNext]_svars

\* Threads inside a call go on, time passes, and who sleeps wakes up when its
\* time is up.  The C library owes no answer.
SyncFairSpec ==
  /\ SyncSpec
  /\ \A a \in App :
       /\ WF_svars(SyncResumes(a))
       /\ WF_svars(TopicResumes(a) /\ pc[a] # "idle")
       /\ WF_svars(Expire(a))
       /\ WF_svars(late[a] /\ stage[a] = "limited" /\ SyncWakes(a))
  /\ WF_svars(SyncReconnectAdds)
  /\ \A l \in Library : WF_svars(SyncLibrary(l))

-----------------------------------------------------------------------------
(* Properties                                                              *)

\* connect(), reconnect(), subscribe() and unsubscribe() return normally only
\* if the server has said yes to this call, not to an earlier one that used the
\* same token; a timeout is never taken for an answer.
SuccessIsAnswer ==
  \A a \in App :
    /\ stage[a] = "return" /\ ok[a]
    /\ tok[at[a]].type \in {"CONNECT", "SUBSCRIBE", "UNSUBSCRIBE"}
    => tok[at[a]].complete /\ tok[at[a]].answer = "good" /\ open[at[a]] = 0

\* reconnect() never resets a token that the C library may still answer for an
\* earlier command: the waits without a limit see to that.
ResetWhenAnswered ==
  pc[Main] = "resetting" => open[at[Main]] = 0

\* When publish(const message&) has returned, the C library has no command with
\* the caller's message any more: that is why it waits without a timeout.
\* (remove_token() may still have it, if a callback is set.)
LentNotOpen == \A t \in gone : open[t] = 0 /\ tok[t].complete

\* Nobody sleeps in vain: a thread in one of the waits, of this client or of a
\* topic, sleeps for an answer that the C library still owes, or somebody is
\* about to notify it.  So a call without a limit hangs only as long as the C
\* library keeps its answer back, also when it shares its token with an earlier
\* call (reconnect) and after every refusal.
WaitsForAnswer ==
  \A a \in App : Asleep(a) =>
    \/ open[at[a]] > 0
    \/ \E l \in Library : at[l] = at[a] /\ pc[l] \in {"listen", "signal"}

\* A call with a response ends if the C library answers what it has.
SyncCallEnds ==
  (\A t \in Token : []<>(open[t] = 0))
    => \A a \in App : stage[a] # "none" ~> stage[a] = "none"

\* publish() with a timeout and disconnect() end even if it never answers.
LimitedCallEnds ==
  \A a \in App :
    stage[a] = "limited" /\ tok[at[a]].type \in {"PUBLISH", "DISCONNECT"}
      ~> stage[a] = "none"

=============================================================================
