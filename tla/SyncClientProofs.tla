-------------------------- MODULE SyncClientProofs --------------------------
(***************************************************************************)
(* Proofs about SyncClient, for any threads, tokens and bounds: what the   *)
(* synchronous client does is what an async_client allows, so that the     *)
(* theorems about AsyncClient hold for it too, and its waits keep apart    *)
(* the answers, tokens and messages of one call and the next; and nobody   *)
(* waits for what will not come.                                           *)
(***************************************************************************)
EXTENDS SyncClient, AsyncClientProofs

USE DEF App, Thread, CallPc, WaitPc, SleepPc, AppPc, LibraryPc, Types

-----------------------------------------------------------------------------
(* The synchronous client implements the asynchronous one                  *)

LEMMA ResumeIsAsync ==
  ASSUME TypeOK, SyncTypeOK, NEW a \in App, SyncResumes(a) \/ TopicResumes(a)
  PROVE  Next
<1>1. CASE SyncCall(a)
  BY <1>1 DEF SyncCall, Next
<1>2. CASE SyncThrows(a)
  BY <1>2 DEF SyncThrows, Next
<1>3. CASE WaitLimited(a)
  <2>1. at[a] # Null
    BY <1>3 DEF SyncTypeOK, WaitLimited
  <2>2. WaitFor(a)
    BY <1>3, <2>1 DEF WaitLimited, WaitFor
  <2> QED
    BY <2>2 DEF Next
<1>4. CASE WaitUnlimited(a)
  <2>1. at[a] # Null
    BY <1>4 DEF SyncTypeOK, WaitUnlimited
  <2>2. Wait(a)
    BY <1>4, <2>1 DEF WaitUnlimited, Wait
  <2> QED
    BY <2>2 DEF Next
<1>5. CASE SyncReturns(a)
  BY <1>5 DEF SyncReturns, Next
<1>6. CASE TopicResumes(a)
  <2>1. CASE Accept(a) \/ Refuse(a) \/ SetMessageId(a) \/ DeliveryReturns(a)
    BY <2>1 DEF Next
  <2>2. CASE Wait(a) \/ WaitFor(a) \/ Drop(a)
    BY <2>2 DEF Next
  <2> QED
    BY <1>6, <2>1, <2>2 DEF TopicResumes
<1> QED
  BY <1>1, <1>2, <1>3, <1>4, <1>5, <1>6 DEF SyncResumes

\* Every step of the synchronous client is one of the async_client or none.
LEMMA StepIsAsync == TypeOK /\ SyncTypeOK /\ [SyncNext]_svars => [Next]_vars
<1> SUFFICES ASSUME TypeOK, SyncTypeOK, [SyncNext]_svars PROVE [Next]_vars
  OBVIOUS
<1>1. ASSUME NEW t \in Token,
             SyncConnect(t) \/ \E a \in App :
               \/ \E kind \in Kind : SyncRequest(a, t, kind)
               \/ \E acked, borrows \in BOOLEAN : SyncPublish(a, t, acked, borrows)
               \/ \E acked \in BOOLEAN : TopicPublish(a, t, acked)
               \/ TopicSubscribe(a, t)
      PROVE  Next
  BY <1>1 DEF SyncConnect, SyncRequest, SyncPublish, TopicPublish,
              TopicSubscribe, Next
<1>2. ASSUME NEW t \in Token, NEW l \in Library, Answers(l, t) PROVE Next
  BY <1>2 DEF Answers, Next
<1>3. CASE SyncReconnect \/ SyncReconnectAdds \/ SyncSetCallback
  BY <1>3 DEF SyncReconnect, SyncReconnectAdds, SyncSetCallback, Next
<1>4. ASSUME NEW a \in App, SyncResumes(a) \/ TopicResumes(a) PROVE Next
  BY <1>4, ResumeIsAsync
<1>5. ASSUME NEW a \in App, Expire(a) PROVE UNCHANGED vars
  BY <1>5 DEF Expire
<1>6. ASSUME NEW a \in App, SyncWakes(a) PROVE Next
  BY <1>6 DEF SyncWakes, Next
<1>7. ASSUME NEW l \in Library, SyncLibrary(l) PROVE Next
  BY <1>7 DEF SyncLibrary, LibraryResumes, Next
<1>8. CASE UNCHANGED svars
  BY <1>8 DEF svars
<1> QED
  BY <1>1, <1>2, <1>3, <1>4, <1>5, <1>6, <1>7, <1>8 DEF SyncNext

-----------------------------------------------------------------------------
(* The inductive invariant                                                 *)

Responding == {"CONNECT", "SUBSCRIBE", "UNSUBSCRIBE"}

\* Where a thread is, and that it alone has its token.
Fits(a) ==
  /\ stage[a] # "none" => at[a] # Null
  /\ stage[a] = "none" =>
       pc[a] \in {"idle", "publishing", "calling", "sent", "deliver"} \cup WaitPc
  /\ stage[a] = "call" => pc[a] \in CallPc \cup {"resetting", "sent", "deliver"}
  /\ stage[a] = "limited" => pc[a] \in {"idle", "forAsleep", "forWoken"}
  /\ stage[a] = "get" => pc[a] \in {"idle", "asleep", "woken"}
  /\ stage[a] = "return" => pc[a] = "idle"
  /\ pc[a] \in {"publishing", "deliver"} => tok[at[a]].type = "PUBLISH"
  /\ pc[a] = "calling" => tok[at[a]].type # "CONNECT"
  /\ pc[a] \in CallPc \cup {"resetting"} =>
       open[at[a]] = 0 /\ ~tok[at[a]].complete
  /\ lent[a] => stage[a] \in {"call", "get", "return"}
                /\ tok[at[a]].type = "PUBLISH"
  /\ ok[a] => stage[a] = "return" /\ tok[at[a]].complete /\ Checked(a)
  /\ stage[a] = "return" /\ (lent[a] \/ tok[at[a]].type \in Responding) =>
       tok[at[a]].complete
  /\ at[a] # Null =>
       /\ at[a] \notin gone
       /\ \A b \in App : b # a => at[b] # at[a]
       /\ a # Main => at[a] # connTok_

\* A token has one command at a time, and reports what its answer was.
Settled(t) ==
  /\ open[t] <= 1
  /\ open[t] > 0 => ~tok[t].complete
  /\ ~tok[t].complete => tok[t].rc /\ tok[t].reason
  /\ tok[t].complete => (tok[t].rc /\ tok[t].reason <=> tok[t].answer = "good")
  /\ t = connTok_ /\ open[t] > 0 =>
       at[Main] = t /\ stage[Main] \in {"call", "limited", "get"}
  /\ t \in gone => tok[t].type = "PUBLISH" /\ open[t] = 0 /\ tok[t].complete

SyncTypes ==
  /\ stage \in [App -> Stage]
  /\ late \in [App -> BOOLEAN]
  /\ lent \in [App -> BOOLEAN]
  /\ ok \in [App -> BOOLEAN]
  /\ gone \subseteq Token

SInv ==
  /\ SyncTypes
  /\ \A a \in App : Fits(a)
  /\ \A t \in Token : Settled(t)

LEMMA InitSync == SyncInit => SInv
<1> SUFFICES ASSUME SyncInit PROVE SInv
  OBVIOUS
<1>1. SyncTypes
  BY DEF SyncInit, SyncTypes, Stage
<1>2. ASSUME NEW a \in App PROVE Fits(a)
  <2>1. /\ stage[a] = "none" /\ ~lent[a] /\ ~ok[a] /\ pc[a] = "idle"
        /\ at[a] = Null
    BY DEF SyncInit, Init
  <2> QED
    BY <2>1 DEF Fits
<1>3. ASSUME NEW t \in Token PROVE Settled(t)
  BY <1>3, AsyncAssumption DEF SyncInit, Init, Settled, NewToken
<1> QED
  BY <1>1, <1>2, <1>3 DEF SInv

LEMMA SInvTypes == SInv => SyncTypeOK
<1> SUFFICES ASSUME SInv PROVE SyncTypeOK
  OBVIOUS
<1>1. ASSUME NEW a \in App
      PROVE  /\ stage[a] # "none" => at[a] # Null
             /\ stage[a] = "return" => pc[a] = "idle"
             /\ lent[a] => stage[a] # "limited" /\ tok[at[a]].type = "PUBLISH"
  BY <1>1 DEF SInv, Fits
<1> QED
  BY <1>1 DEF SInv, SyncTypes, SyncTypeOK

\* What the invariant reads of a token.
SameToken(t) ==
  /\ tok'[t].type = tok[t].type /\ tok'[t].complete = tok[t].complete
  /\ tok'[t].rc = tok[t].rc /\ tok'[t].reason = tok[t].reason
  /\ tok'[t].answer = tok[t].answer
  /\ open'[t] = open[t]

\* A thread that another's step leaves alone, or wakes up.
LEMMA FitsKept ==
  ASSUME TypeOK, NEW a \in App, Fits(a),
         at'[a] = at[a], stage'[a] = stage[a], lent'[a] = lent[a], ok'[a] = ok[a],
         pc'[a] = pc[a] \/ (pc[a] \in SleepPc /\ pc'[a] = Woken(pc[a])),
         at[a] # Null => /\ SameToken(at[a])
                         /\ at[a] \notin gone'
                         /\ \A b \in App : b # a => at'[b] # at[a]
                         /\ a # Main => at[a] # connTok_'
  PROVE  Fits(a)'
<1>1. CASE at[a] = Null
  <2>1. pc[a] = "idle" /\ stage[a] = "none" /\ ~lent[a] /\ ~ok[a]
    BY <1>1 DEF TypeOK, Fits
  <2>2. pc'[a] = "idle" /\ stage'[a] = "none" /\ ~lent'[a] /\ ~ok'[a] /\ at'[a] = Null
    BY <1>1, <2>1
  <2> QED
    BY <2>2 DEF Fits
<1>2. CASE at[a] # Null
  <2>1. /\ pc'[a] \in CallPc \cup {"resetting", "deliver"} => pc[a] = pc'[a]
        /\ stage[a] = "none" =>
             pc'[a] \in {"idle", "publishing", "calling", "sent", "deliver"} \cup WaitPc
        /\ stage[a] = "call" => pc'[a] \in CallPc \cup {"resetting", "sent", "deliver"}
        /\ stage[a] = "limited" => pc'[a] \in {"idle", "forAsleep", "forWoken"}
        /\ stage[a] = "get" => pc'[a] \in {"idle", "asleep", "woken"}
        /\ stage[a] = "return" => pc'[a] = "idle"
    BY DEF Fits, Woken
  <2>2. Checked(a)' = Checked(a)
    BY <1>2 DEF Checked, SameToken
  <2> QED
    BY <1>2, <2>1, <2>2 DEF Fits, SameToken
<1> QED
  BY <1>1, <1>2

\* A token whose members and commands stay.
LEMMA SettledKept ==
  ASSUME NEW t \in Token, Settled(t), SameToken(t),
         t = connTok_' /\ open[t] > 0 =>
           at'[Main] = t /\ stage'[Main] \in {"call", "limited", "get"},
         t \in gone' => t \in gone
  PROVE  Settled(t)'
  BY DEF Settled, SameToken

\* A step of thread c that changes no token but for a message's id.
LEMMA QuietSync ==
  ASSUME TypeOK, SInv, SyncTypes', NEW c \in Thread,
         \A t \in Token : SameToken(t),
         connTok_' \in {connTok_, Null}, gone' \subseteq gone,
         \A a \in App \ {c} :
           /\ pc'[a] = pc[a] \/ (pc[a] \in SleepPc /\ pc'[a] = Woken(pc[a]))
           /\ at'[a] = at[a] /\ stage'[a] = stage[a]
           /\ lent'[a] = lent[a] /\ ok'[a] = ok[a],
         c \in App => at'[c] \in {at[c], Null} /\ Fits(c)',
         connTok_' # Null /\ c = Main /\ open[connTok_] > 0
           /\ at[c] = connTok_ /\ stage[c] \in {"call", "limited", "get"}
           => at'[c] = at[c] /\ stage'[c] \in {"call", "limited", "get"}
  PROVE  SInv'
<1>1. ASSUME NEW a \in App PROVE Fits(a)'
  <2>1. CASE a = c
    BY <2>1
  <2>2. CASE a # c
    <3>1. Fits(a)
      BY DEF SInv
    <3>2. at[a] \in Token \cup {Null}
      BY DEF TypeOK
    <3>3. at[a] # Null => at[a] \notin gone /\ \A b \in App : b # a => at[b] # at[a]
      BY <3>1 DEF Fits
    <3>4. at[a] # Null /\ a # Main => at[a] # connTok_
      BY <3>1 DEF Fits
    <3>5. at[a] # Null => \A b \in App : b # a => at'[b] # at[a]
      BY <3>3
    <3> QED
      BY <2>2, <3>1, <3>2, <3>3, <3>4, <3>5, FitsKept
  <2> QED
    BY <2>1, <2>2
<1>2. ASSUME NEW t \in Token PROVE Settled(t)'
  <2>1. Settled(t)
    BY DEF SInv
  <2>2. ASSUME t = connTok_', open[t] > 0
        PROVE  at'[Main] = t /\ stage'[Main] \in {"call", "limited", "get"}
    <3>1. t = connTok_ /\ connTok_' # Null
      BY <2>2, AsyncAssumption
    <3>2. at[Main] = t /\ stage[Main] \in {"call", "limited", "get"}
      BY <2>1, <2>2, <3>1 DEF Settled
    <3>3. CASE c = Main
      BY <2>2, <3>1, <3>2, <3>3
    <3>4. CASE c # Main
      BY <3>2, <3>4
    <3> QED
      BY <3>3, <3>4
  <2> QED
    BY <2>1, <2>2, SettledKept
<1> QED
  BY <1>1, <1>2 DEF SInv

LEMMA TypesKept == TypeOK /\ SyncTypeOK /\ [SyncNext]_svars => SyncTypes'
<1> SUFFICES ASSUME TypeOK, SyncTypeOK, SyncTypes, [SyncNext]_svars
             PROVE  SyncTypes'
  BY DEF SyncTypeOK, SyncTypes
<1>1. ASSUME NEW a \in App, NEW t \in Token,
             NEW borrows \in BOOLEAN, SyncBegin(a, borrows),
             gone' = gone \/ gone' = gone \ {t}
      PROVE  SyncTypes'
  BY <1>1 DEF SyncTypes, SyncBegin, To, Stage
<1>2. ASSUME NEW t \in Token,
             SyncConnect(t) \/ \E a \in App :
               \/ \E kind \in Kind : SyncRequest(a, t, kind)
               \/ \E acked, borrows \in BOOLEAN : SyncPublish(a, t, acked, borrows)
      PROVE  SyncTypes'
  BY <1>1, <1>2 DEF SyncConnect, SyncRequest, SyncPublish
<1>3. CASE SyncReconnect
  <2>1. connTok_ \in Token /\ SyncBegin(Main, FALSE) /\ gone' = gone
    BY <1>3 DEF SyncReconnect, Reconnect, TypeOK
  <2> QED
    BY <2>1, <1>1
<1>4. ASSUME NEW t \in Token, NEW a \in App,
             TopicSubscribe(a, t) \/ \E acked \in BOOLEAN : TopicPublish(a, t, acked)
      PROVE  SyncTypes'
  BY <1>4 DEF TopicPublish, TopicSubscribe, TopicBegin, SyncTypes
<1>5. ASSUME NEW a \in App, SyncCall(a) \/ SyncThrows(a) \/ WaitLimited(a)
      PROVE  SyncTypes'
  BY <1>5 DEF SyncCall, SyncThrows, WaitLimited, To, FirstWait, SecondWait,
              SyncTypes, Stage
<1>6. ASSUME NEW a \in App, WaitUnlimited(a) PROVE SyncTypes'
  <2>1. stage[a] = "get" => Checked(a) \in BOOLEAN
    <3>1. stage[a] = "get" => tok[at[a]] \in TokenMembers
      BY DEF SyncTypeOK, TypeOK
    <3> QED
      BY <3>1 DEF TokenMembers, Checked
  <2>2. ok' = ok \/ ok' = [ok EXCEPT ![a] = Checked(a)]
    BY <1>6 DEF WaitUnlimited
  <2>3. ok' \in [App -> BOOLEAN]
    BY <1>6, <2>1, <2>2, Zenon DEF WaitUnlimited, SyncTypes
  <2> QED
    BY <1>6, <2>3 DEF WaitUnlimited, To, SyncTypes, Stage
<1>7. ASSUME NEW a \in App, SyncReturns(a) PROVE SyncTypes'
  <2>1. at[a] \in Token
    BY <1>7 DEF SyncReturns, SyncTypeOK, TypeOK
  <2> QED
    BY <1>7, <2>1 DEF SyncReturns, To, SyncTypes, Stage
<1>8. ASSUME NEW a \in App, Expire(a) PROVE SyncTypes'
  BY <1>8 DEF Expire, SyncTypes
<1>9. ASSUME \/ UNCHANGED sync
      PROVE  SyncTypes'
  BY <1>9 DEF sync, SyncTypes
<1> QED
  BY <1>2, <1>3, <1>4, <1>5, <1>6, <1>7, <1>8, <1>9
     DEF SyncNext, SyncResumes, TopicResumes, SyncReconnectAdds, SyncSetCallback,
         SyncWakes, Answers, SyncLibrary, svars

\* A call begins: nothing knows the token any more, so it is not open either.
LEMMA BeginSync ==
  ASSUME TypeOK, PendingAccounted, SInv, SyncTypes',
         NEW c \in App, NEW t \in Token, NEW type \in Types,
         NEW acked \in BOOLEAN, NEW p \in CallPc,
         Begin(c, t, NewToken(type, acked), p),
         \/ connTok_' = connTok_
         \/ connTok_' = t /\ c = Main,
         p = "publishing" <=> type = "PUBLISH",
         p = "calling" => type # "CONNECT",
         stage[c] = "none",
         \/ stage'[c] = "call" /\ (lent'[c] => type = "PUBLISH")
         \/ stage'[c] = "none" /\ p \in {"publishing", "calling"} /\ ~lent'[c],
         \A a \in App \ {c} : stage'[a] = stage[a] /\ lent'[a] = lent[a],
         ok' = ok, gone' = gone \ {t}
  PROVE  SInv'
<1>1. \A a \in App : at[a] # t
  BY DEF Begin, Live
<1>2. open[t] = 0 /\ connTok_ # t
  <2>1. pending[t] \in Nat /\ ~(pending[t] > 0) /\ connTok_ # t
    BY DEF Begin, Live, TypeOK
  <2> QED
    BY <2>1, InPlayIsPending DEF TypeOK
<1>3. /\ tok'[t] = NewToken(type, acked) /\ open'[t] = 0
      /\ \A u \in Token \ {t} : SameToken(u)
      /\ pc' = [pc EXCEPT ![c] = p] /\ at' = [at EXCEPT ![c] = t]
  BY <1>2 DEF Begin, Goto, TypeOK, SameToken
<1>4. ASSUME NEW a \in App PROVE Fits(a)'
  <2>1. Fits(a) /\ at[a] \in Token \cup {Null}
    BY DEF SInv, TypeOK
  <2>2. CASE a = c
    <3>1. at'[a] = t /\ pc'[a] = p /\ ~ok'[a] /\ t # Null
      BY <1>3, <2>1, <2>2, AsyncAssumption DEF Fits, TypeOK
    <3>2. /\ t \notin gone'
          /\ \A b \in App : b # a => at'[b] # t
          /\ a # Main => t # connTok_'
      BY <1>1, <1>2, <1>3, <2>2 DEF TypeOK
    <3> QED
      BY <1>3, <2>2, <3>1, <3>2 DEF Fits, NewToken
  <2>3. CASE a # c
    <3>1. pc'[a] = pc[a] /\ at'[a] = at[a] /\ at[a] # t
      BY <1>1, <1>3, <2>3 DEF TypeOK
    <3>2. at[a] # Null => /\ SameToken(at[a]) /\ at[a] \notin gone'
                          /\ \A b \in App : b # a => at'[b] # at[a]
                          /\ a # Main => at[a] # connTok_'
      BY <1>3, <2>1, <3>1 DEF Fits, TypeOK
    <3> QED
      BY <2>1, <2>3, <3>1, <3>2, FitsKept
  <2> QED
    BY <2>2, <2>3
<1>5. ASSUME NEW u \in Token PROVE Settled(u)'
  <2>1. CASE u = t
    BY <1>3, <2>1 DEF Settled, NewToken
  <2>2. CASE u # t
    <3>1. Settled(u) /\ SameToken(u)
      BY <1>3, <2>2 DEF SInv
    <3>2. ASSUME u = connTok_', open[u] > 0
          PROVE  at'[Main] = u /\ stage'[Main] \in {"call", "limited", "get"}
      <4>1. at[Main] = u /\ stage[Main] \in {"call", "limited", "get"}
        BY <2>2, <3>1, <3>2 DEF Settled
      <4> QED
        BY <1>3, <4>1 DEF TypeOK
    <3> QED
      BY <3>1, <3>2, SettledKept
  <2> QED
    BY <2>1, <2>2
<1> QED
  BY <1>4, <1>5 DEF SInv

LEMMA ReconnectSync ==
  ASSUME TypeOK, SInv, SyncTypes', SyncReconnect PROVE SInv'
<1> DEFINE t == connTok_
<1>1. t \in Token /\ tok[t].type = "CONNECT" /\ stage[Main] = "none"
  BY DEF SyncReconnect, Reconnect, SyncBegin, TypeOK
<1>2. Settled(t) /\ Fits(Main) /\ open[t] \in Nat
  BY <1>1 DEF SInv, TypeOK
<1>3. open[t] = 0
  BY <1>1, <1>2 DEF Settled
<1>4. tok[t] \in TokenMembers
  BY <1>1 DEF TypeOK
<1>5. /\ tok'[t].type = "CONNECT" /\ ~tok'[t].complete
      /\ tok'[t].rc /\ tok'[t].reason /\ open'[t] = 0
      /\ \A u \in Token \ {t} : SameToken(u)
  BY <1>1, <1>3, <1>4
     DEF SyncReconnect, Reconnect, Reset, TypeOK, SameToken, TokenMembers
<1>6. /\ pc' = [pc EXCEPT ![Main] = "resetting"]
      /\ at' = [at EXCEPT ![Main] = t] /\ connTok_' = t
      /\ gone' = gone /\ ok' = ok
      /\ stage' = [stage EXCEPT ![Main] = "call"]
      /\ lent' = [lent EXCEPT ![Main] = FALSE]
  BY DEF SyncReconnect, Reconnect, SyncBegin, To, Goto
<1>7. t \notin gone
  BY <1>1, <1>2 DEF Settled
<1>8. \A b \in App : b # Main => at[b] # t
  BY <1>1, AsyncAssumption DEF SInv, Fits
<1>9. ASSUME NEW a \in App PROVE Fits(a)'
  <2>1. Fits(a) /\ at[a] \in Token \cup {Null}
    BY DEF SInv, TypeOK
  <2>2. CASE a = Main
    <3>1. /\ at'[a] = t /\ pc'[a] = "resetting" /\ ~ok'[a] /\ t # Null
          /\ ~lent'[a] /\ stage'[a] = "call"
      BY <1>1, <1>6, <2>1, <2>2, AsyncAssumption DEF Fits, TypeOK, SInv, SyncTypes
    <3>2. t \notin gone' /\ \A b \in App : b # a => at'[b] # t
      BY <1>6, <1>7, <1>8, <2>2 DEF TypeOK
    <3> QED
      BY <1>5, <2>2, <3>1, <3>2 DEF Fits
  <2>3. CASE a # Main
    <3>1. /\ pc'[a] = pc[a] /\ at'[a] = at[a] /\ at[a] # t
          /\ stage'[a] = stage[a] /\ lent'[a] = lent[a] /\ ok'[a] = ok[a]
      BY <1>6, <1>8, <2>3 DEF TypeOK, SInv, SyncTypes
    <3>2. at[a] # Null => /\ SameToken(at[a]) /\ at[a] \notin gone'
                          /\ \A b \in App : b # a => at'[b] # at[a]
                          /\ a # Main => at[a] # connTok_'
      BY <1>5, <1>6, <2>1, <3>1 DEF Fits, TypeOK
    <3> QED
      BY <2>1, <3>1, <3>2, FitsKept
  <2> QED
    BY <2>2, <2>3
<1>10. ASSUME NEW u \in Token PROVE Settled(u)'
  <2>1. CASE u = t
    BY <1>5, <1>6, <1>7, <2>1 DEF Settled
  <2>2. CASE u # t
    BY <1>5, <1>6, <2>2, SettledKept DEF SInv
  <2> QED
    BY <2>1, <2>2
<1> QED
  BY <1>9, <1>10 DEF SInv

\* The C library gets its first and only command for the token.
LEMMA AcceptSync ==
  ASSUME TypeOK, SInv, SyncTypes', NEW c \in App, Accept(c),
         \/ stage[c] = "none" /\ stage'[c] = "none"
         \/ stage[c] = "call"
             /\ stage'[c] = IF pc[c] = "publishing" THEN "call" ELSE FirstWait(c),
         \A a \in App \ {c} : stage'[a] = stage[a],
         UNCHANGED <<lent, ok, gone>>
  PROVE  SInv'
<1> DEFINE t == at[c]
<1>1. Fits(c) /\ t \in Token /\ pc[c] \in CallPc /\ t # Null
  BY AsyncAssumption DEF SInv, TypeOK, Accept
<1>2. open[t] = 0 /\ ~tok[t].complete /\ t \notin gone
  BY <1>1 DEF Fits
<1>3. /\ tok' = tok /\ connTok_' = connTok_
      /\ pc' = [pc EXCEPT ![c] = IF pc[c] = "publishing" THEN "sent" ELSE "idle"]
      /\ at' = [at EXCEPT ![c] = t]
  BY DEF Accept, Goto
<1>4. open'[t] = 1 /\ \A u \in Token \ {t} : SameToken(u)
  BY <1>1, <1>2, <1>3 DEF Accept, TypeOK, SameToken
<1>5. t = connTok_ => c = Main /\ stage[c] = "call" /\ pc[c] # "publishing"
  BY <1>1 DEF Fits, TypeOK
<1>6. ASSUME NEW a \in App PROVE Fits(a)'
  <2>1. Fits(a) /\ at[a] \in Token \cup {Null} /\ at'[a] = at[a]
    BY <1>3 DEF SInv, TypeOK
  <2>2. CASE a = c
    <3>1. /\ pc'[a] = IF pc[a] = "publishing" THEN "sent" ELSE "idle"
          /\ ~ok[a]
          /\ \A b \in App : b # a => at'[b] # at[a]
      BY <1>1, <1>3, <2>1, <2>2 DEF TypeOK, Fits
    <3> QED
      BY <1>1, <1>3, <2>1, <2>2, <3>1 DEF Fits, FirstWait
  <2>3. CASE a # c
    <3>1. pc'[a] = pc[a] /\ (at[a] # Null => at[a] # t)
      BY <1>3, <2>1, <2>3 DEF TypeOK, Fits
    <3>2. at[a] # Null => /\ SameToken(at[a]) /\ at[a] \notin gone'
                          /\ \A b \in App : b # a => at'[b] # at[a]
                          /\ a # Main => at[a] # connTok_'
      BY <1>3, <1>4, <2>1, <3>1 DEF Fits, TypeOK
    <3> QED
      BY <2>1, <2>3, <3>1, <3>2, FitsKept
  <2> QED
    BY <2>2, <2>3
<1>7. ASSUME NEW u \in Token PROVE Settled(u)'
  <2>1. Settled(u)
    BY DEF SInv
  <2>2. CASE u = t
    BY <1>1, <1>2, <1>3, <1>4, <1>5, <2>1, <2>2 DEF Settled, TypeOK, FirstWait
  <2>3. CASE u # t
    <3>1. ASSUME u = connTok_', open[u] > 0
          PROVE  at'[Main] = u /\ stage'[Main] \in {"call", "limited", "get"}
      BY <1>3, <2>1, <2>3, <3>1 DEF Settled, TypeOK
    <3> QED
      BY <1>4, <2>1, <2>3, <3>1, SettledKept
  <2> QED
    BY <2>2, <2>3
<1> QED
  BY <1>6, <1>7 DEF SInv

\* publish() stores the id, refuses, or has reported the delivery.
LEMMA CallSync ==
  ASSUME TypeOK, SInv, SyncTypes', NEW c \in App,
         \/ SetMessageId(c) /\ stage'[c] = IF stage[c] = "none" THEN "none"
                                          ELSE FirstWait(c)
         \/ (Refuse(c) \/ DeliveryReturns(c))
             /\ stage'[c] = IF stage[c] = "none" \/ pc'[c] = "idle" THEN "none"
                            ELSE "call",
         stage[c] \in {"none", "call"},
         lent'[c] = (lent[c] /\ stage'[c] # "none"),
         \A a \in App \ {c} : stage'[a] = stage[a] /\ lent'[a] = lent[a],
         UNCHANGED <<ok, gone>>
  PROVE  SInv'
<1>1. Fits(c) /\ at[c] \in Token /\ pc[c] \in CallPc \cup {"sent", "deliver"}
  BY DEF SInv, TypeOK, SetMessageId, Refuse, DeliveryReturns
<1>2. ~ok[c] /\ open[at[c]] \in Nat /\ tok[at[c]] \in TokenMembers
  BY <1>1 DEF Fits, TypeOK
<1>3. \A t \in Token : SameToken(t)
  BY <1>1, <1>2 DEF SetMessageId, Refuse, DeliveryReturns, SameToken, TypeOK,
                    TokenMembers
<1>4. \E p \in {"idle", "deliver"}, u \in {at[c], Null} : Goto(c, p, u)
  BY DEF SetMessageId, Refuse, DeliveryReturns, RemoveToken
<1>5. /\ SetMessageId(c) => pc'[c] = "idle" /\ at'[c] = at[c]
      /\ ~SetMessageId(c) /\ pc'[c] = "idle" => at'[c] = Null
      /\ pc'[c] = "deliver" => at'[c] = at[c] /\ tok[at[c]].type = "PUBLISH"
  BY <1>1 DEF SetMessageId, Refuse, DeliveryReturns, RemoveToken, Goto, TypeOK
<1>6. /\ connTok_' \in {connTok_, Null}
      /\ at'[c] \in {at[c], Null}
      /\ \A a \in App \ {c} : pc'[a] = pc[a] /\ at'[a] = at[a]
  BY <1>4 DEF SetMessageId, Refuse, DeliveryReturns, Goto, TypeOK
<1>7. Fits(c)'
  <2>1. CASE SetMessageId(c)
    <3>1. pc[c] = "sent" /\ connTok_' = connTok_
      BY <2>1 DEF SetMessageId
    <3> QED
      BY <1>1, <1>2, <1>3, <1>5, <1>6, <2>1, <3>1
         DEF Fits, SameToken, FirstWait, SyncTypes
  <2>2. CASE ~SetMessageId(c) /\ pc'[c] = "idle"
    BY <1>2, <1>5, <2>2 DEF Fits
  <2>3. CASE pc'[c] = "deliver"
    BY <1>1, <1>2, <1>3, <1>5, <1>6, <2>3 DEF Fits, SameToken
  <2> QED
    BY <1>4, <2>1, <2>2, <2>3 DEF Goto, TypeOK
<1>8. connTok_' # Null /\ c = Main /\ open[connTok_] > 0
        /\ at[c] = connTok_ /\ stage[c] \in {"call", "limited", "get"}
      => at'[c] = at[c] /\ stage'[c] \in {"call", "limited", "get"}
  <2>1. CASE SetMessageId(c)
    BY <1>5, <2>1 DEF FirstWait, SetMessageId, Refuse, DeliveryReturns
  <2>2. CASE Refuse(c)
    BY <1>1, <2>2 DEF Refuse, Fits
  <2>3. CASE DeliveryReturns(c)
    BY <1>1, <2>3 DEF DeliveryReturns, Fits, TypeOK
  <2> QED
    BY <2>1, <2>2, <2>3
<1> QED
  BY <1>3, <1>6, <1>7, <1>8, QuietSync

\* A wait looks at the token, which no command changes under it.
LEMMA WaitSync ==
  ASSUME TypeOK, SInv, SyncTypes', NEW c \in App, WaitLimited(c) \/ WaitUnlimited(c)
  PROVE  SInv'
<1>1. Fits(c) /\ at[c] \in Token /\ at[c] # Null /\ Settled(at[c])
  BY AsyncAssumption DEF SInv, Fits, TypeOK, WaitLimited, WaitUnlimited
<1>2. /\ tok' = tok /\ connTok_' = connTok_ /\ open' = open
      /\ at' = [at EXCEPT ![c] = at[c]]
      /\ \E p \in {"idle", "asleep", "forAsleep"} : pc' = [pc EXCEPT ![c] = p]
      /\ UNCHANGED <<lent, gone>>
  BY DEF WaitLimited, WaitUnlimited, WaitReturns, WaitGoesOn, Goto
<1>3. /\ \A a \in App \ {c} : pc'[a] = pc[a] /\ stage'[a] = stage[a] /\ ok'[a] = ok[a]
      /\ at' = at /\ open[at[c]] \in Nat
  <2>1. /\ \A a \in App \ {c} : pc'[a] = pc[a]
        /\ at' = at /\ open[at[c]] \in Nat
    BY <1>1, <1>2 DEF TypeOK
  <2>2. \E s \in Stage : stage' = [stage EXCEPT ![c] = s]
    <3>1. stage' = stage \/ \E s \in Stage : stage' = [stage EXCEPT ![c] = s]
      BY DEF WaitLimited, WaitUnlimited, To, SecondWait, Stage
    <3>2. stage = [stage EXCEPT ![c] = stage[c]] /\ stage[c] \in Stage
      BY DEF SInv, SyncTypes
    <3> QED
      BY <3>1, <3>2
  <2>3. ok' = ok \/ ok' = [ok EXCEPT ![c] = Checked(c)]
    BY DEF WaitLimited, WaitUnlimited
  <2>4. stage \in [App -> Stage] /\ ok \in [App -> BOOLEAN]
    BY DEF SInv, SyncTypes
  <2>5. \A a \in App \ {c} : stage'[a] = stage[a]
    BY <2>2, <2>4
  <2>6. \A a \in App \ {c} : ok'[a] = ok[a]
    BY <2>3, <2>4, Zenon
  <2> QED
    BY <2>1, <2>5, <2>6
<1>4. CASE WaitLimited(c)
  <2>1. /\ ok' = ok /\ ~ok[c] /\ ~lent[c]
        /\ \/ tok[at[c]].complete /\ pc'[c] = "idle"
              /\ stage'[c] \in {"return", SecondWait(c)}
           \/ pc'[c] = "forAsleep" /\ stage'[c] = "limited"
           \/ pc'[c] = "idle" /\ stage'[c] = SecondWait(c)
    BY <1>1, <1>4
       DEF WaitLimited, WaitReturns, WaitGoesOn, Goto, To, Fits, TypeOK, SInv, SyncTypes
  <2>2. Fits(c)'
    BY <1>1, <1>2, <1>3, <2>1 DEF Fits, SecondWait, Responding
  <2>3. open[connTok_] > 0 /\ at[c] = connTok_
          => stage'[c] \in {"call", "limited", "get"}
    BY <1>1, <2>1 DEF SecondWait, TypeOK, Settled
  <2> QED
    BY <1>2, <1>3, <2>2, <2>3, QuietSync DEF SameToken
<1>5. CASE WaitUnlimited(c)
  <2>1. \/ tok[at[c]].complete /\ pc'[c] = "idle" /\ stage'[c] = "return"
            /\ ok'[c] = Checked(c)
        \/ pc'[c] = "asleep" /\ stage'[c] = "get" /\ ok'[c] = ok[c]
    BY <1>1, <1>5
       DEF WaitUnlimited, WaitReturns, WaitGoesOn, Goto, To, TypeOK, SInv, SyncTypes
  <2>2. Checked(c)' = Checked(c) /\ stage[c] = "get"
    BY <1>2, <1>3, <1>5 DEF Checked, WaitUnlimited
  <2>3. Fits(c)'
    <3>1. CASE stage'[c] = "get"
      BY <1>1, <1>2, <1>3, <2>1, <2>2, <3>1 DEF Fits
    <3>2. CASE stage'[c] = "return"
      <4>1. /\ tok[at[c]].complete /\ pc'[c] = "idle"
            /\ ok'[c] => Checked(c)'
        BY <2>1, <2>2, <3>2
      <4> QED
        BY <1>1, <1>2, <1>3, <2>2, <3>2, <4>1 DEF Fits
    <3> QED
      BY <2>1, <3>1, <3>2
  <2>4. open[connTok_] > 0 /\ at[c] = connTok_
          => stage'[c] \in {"call", "limited", "get"}
    BY <1>1, <2>1 DEF Settled
  <2> QED
    BY <1>2, <1>3, <2>3, <2>4, QuietSync DEF SameToken
<1> QED
  BY <1>4, <1>5

\* A wait for the token of a topic's operation.
LEMMA TopicWaitSync ==
  ASSUME TypeOK, SInv, SyncTypes', NEW c \in App, Wait(c) \/ WaitFor(c),
         stage[c] = "none", UNCHANGED <<stage, late, lent, ok, gone>>
  PROVE  SInv'
<1>1. Fits(c) /\ at[c] \in Token
  BY DEF SInv, TypeOK, Wait, WaitFor
<1>2. /\ tok' = tok /\ connTok_' = connTok_ /\ open' = open /\ at' = at
      /\ \E p \in {"idle", "asleep", "forAsleep"} : pc' = [pc EXCEPT ![c] = p]
  <2>1. WaitReturns(c) \/ \E p \in {"idle", "asleep", "forAsleep"} : WaitGoesOn(c, p)
    BY DEF Wait, WaitFor
  <2> QED
    BY <2>1 DEF WaitReturns, WaitGoesOn, Goto, TypeOK
<1>3. /\ pc'[c] \in {"idle", "asleep", "forAsleep"}
      /\ \A a \in App \ {c} : pc'[a] = pc[a]
  BY <1>2 DEF TypeOK
<1>4. Fits(c)'
  BY <1>1, <1>2, <1>3 DEF Fits, Checked
<1>5. \A t \in Token : SameToken(t)
  BY <1>2 DEF SameToken
<1> QED
  BY <1>2, <1>3, <1>4, <1>5, QuietSync

\* The caller gets its message back with the last answer.
LEMMA ReturnSync ==
  ASSUME TypeOK, SInv, SyncTypes', NEW c \in App, SyncReturns(c) PROVE SInv'
<1>1. Fits(c) /\ stage[c] = "return" /\ at[c] \in Token /\ at[c] # Null
  BY AsyncAssumption DEF SInv, Fits, TypeOK, SyncReturns
<1>2. /\ stage'[c] = "none" /\ ~lent'[c] /\ ~ok'[c]
      /\ pc'[c] = "idle" /\ at'[c] = Null
      /\ \A a \in App \ {c} : /\ pc'[a] = pc[a] /\ at'[a] = at[a]
                             /\ stage'[a] = stage[a] /\ lent'[a] = lent[a]
                             /\ ok'[a] = ok[a]
      /\ tok' = tok /\ open' = open /\ connTok_' = connTok_
      /\ gone' = IF lent[c] THEN gone \cup {at[c]} ELSE gone
  BY DEF SyncReturns, Drop, Goto, To, TypeOK, SInv, SyncTypes
<1>3. \A t \in Token : SameToken(t)
  BY <1>2 DEF SameToken
<1>4. ASSUME NEW a \in App PROVE Fits(a)'
  <2>1. CASE a = c
    BY <1>2, <2>1 DEF Fits
  <2>2. CASE a # c
    <3>1. Fits(a) /\ at[a] \in Token \cup {Null}
      BY DEF SInv, TypeOK
    <3>2. at[a] # Null => /\ at[a] \notin gone'
                          /\ \A b \in App : b # a => at'[b] # at[a]
                          /\ a # Main => at[a] # connTok_'
      BY <1>1, <1>2, <2>2, <3>1 DEF Fits
    <3> QED
      BY <1>2, <1>3, <2>2, <3>1, <3>2, FitsKept
  <2> QED
    BY <2>1, <2>2
<1>5. ASSUME NEW t \in Token PROVE Settled(t)'
  <2>1. Settled(t) /\ open[t] \in Nat
    BY DEF SInv, TypeOK
  <2>2. ASSUME t = connTok_', open[t] > 0
        PROVE  at'[Main] = t /\ stage'[Main] \in {"call", "limited", "get"}
    BY <1>1, <1>2, <2>1, <2>2 DEF Settled
  <2>3. t \in gone' => tok[t].type = "PUBLISH" /\ open[t] = 0 /\ tok[t].complete
    BY <1>1, <1>2, <2>1 DEF Settled, Fits
  <2> QED
    BY <1>2, <2>1, <2>2, <2>3 DEF Settled
<1> QED
  BY <1>4, <1>5 DEF SInv

\* An answer finds the token without one, and reports what it says.
LEMMA AnswerSync ==
  ASSUME TypeOK, SInv, SyncTypes', NEW l \in Library, NEW t \in Token,
         NEW rc \in BOOLEAN, NEW data \in BOOLEAN,
         NEW code \in {"none", "good", "bad"},
         Answer(l, t, Answered(t, rc, data, code)), UNCHANGED sync
  PROVE  SInv'
<1>1. Settled(t) /\ open[t] = 1 /\ ~tok[t].complete /\ tok[t].rc /\ tok[t].reason
  BY DEF SInv, Settled, Answer, TypeOK
<1>2. /\ tok'[t] = Answered(t, rc, data, code) /\ open'[t] = 0
      /\ connTok_' = connTok_
      /\ \A u \in Token \ {t} : SameToken(u)
      /\ \A a \in App : pc'[a] = pc[a] /\ at'[a] = at[a]
  BY <1>1, AsyncAssumption DEF Answer, Goto, TypeOK, SameToken
<1>3. /\ tok'[t].type = tok[t].type /\ tok'[t].complete
      /\ tok'[t].rc /\ tok'[t].reason <=> tok'[t].answer = "good"
  <2>1. tok[t] \in TokenMembers
    BY DEF TypeOK
  <2> QED
    BY <1>1, <1>2, <2>1 DEF Answered, TokenMembers
<1>4. UNCHANGED <<stage, lent, ok, gone>>
  BY DEF sync
<1>5. ASSUME NEW a \in App PROVE Fits(a)'
  <2>1. Fits(a) /\ at[a] \in Token \cup {Null}
    BY DEF SInv, TypeOK
  <2>2. at[a] # Null => /\ at[a] \notin gone'
                        /\ \A b \in App : b # a => at'[b] # at[a]
                        /\ a # Main => at[a] # connTok_'
    BY <1>2, <1>4, <2>1 DEF Fits
  <2>3. CASE at[a] = t
    <3>1. pc[a] \notin CallPc \cup {"resetting"} /\ ~ok[a]
      BY <1>1, <2>1, <2>3 DEF Fits
    <3> QED
      BY <1>2, <1>3, <1>4, <2>1, <2>2, <2>3, <3>1 DEF Fits
  <2>4. CASE at[a] # t
    BY <1>2, <1>4, <2>1, <2>2, <2>4, FitsKept
  <2> QED
    BY <2>3, <2>4
<1>6. ASSUME NEW u \in Token PROVE Settled(u)'
  <2>1. CASE u = t
    <3>1. t \notin gone'
      BY <1>1, <1>4 DEF Settled
    <3> QED
      BY <1>2, <1>3, <2>1, <3>1 DEF Settled
  <2>2. CASE u # t
    <3>1. Settled(u)
      BY DEF SInv
    <3>2. Main \in App
      OBVIOUS
    <3>3. ASSUME u = connTok_', open[u] > 0
          PROVE  at'[Main] = u /\ stage'[Main] \in {"call", "limited", "get"}
      BY <1>2, <1>4, <3>1, <3>2, <3>3 DEF Settled
    <3> QED
      BY <1>2, <1>4, <2>2, <3>1, <3>3, SettledKept
  <2> QED
    BY <2>1, <2>2
<1> QED
  BY <1>5, <1>6 DEF SInv

LEMMA LibrarySync ==
  ASSUME TypeOK, SInv, SyncTypes', NEW l \in Library, SyncLibrary(l)
  PROVE  SInv'
<1>1. /\ tok' = tok /\ connTok_' = connTok_ /\ open' = open
      /\ UNCHANGED <<stage, lent, ok, gone>>
  BY DEF SyncLibrary, LibraryResumes, ListenerReturns, Signal, RemoveAnswered,
         DeliveryReturns, sync
<1>2. ASSUME NEW a \in App
      PROVE  /\ pc'[a] = pc[a] \/ (pc[a] \in SleepPc /\ pc'[a] = Woken(pc[a]))
             /\ at'[a] = at[a]
  <2>1. a # l
    BY AsyncAssumption
  <2>2. CASE Signal(l)
    BY <2>1, <2>2 DEF Signal, Asleep, TypeOK
  <2>3. CASE ListenerReturns(l) \/ DeliveryReturns(l) \/ RemoveAnswered(l)
    BY <2>1, <2>3
       DEF ListenerReturns, DeliveryReturns, RemoveAnswered, RemoveToken, Goto, TypeOK
  <2> QED
    BY <2>2, <2>3 DEF SyncLibrary, LibraryResumes
<1>3. l \notin App
  BY AsyncAssumption
<1>4. \A t \in Token : SameToken(t)
  BY <1>1 DEF SameToken
<1> QED
  BY <1>1, <1>2, <1>3, <1>4, QuietSync

\* Nobody moves, or only Main to the call of the C library, or a sleeper.
LEMMA StillSync ==
  ASSUME TypeOK, SInv, SyncTypes', NEW c \in App,
         UNCHANGED <<tok, open, connTok_, at, stage, lent, ok, gone>>,
         \/ pc' = pc
         \/ pc[c] = "resetting" /\ pc' = [pc EXCEPT ![c] = "reconnecting"]
         \/ Asleep(c) /\ pc' = [pc EXCEPT ![c] = Woken(pc[c])]
  PROVE  SInv'
<1>1. Fits(c) /\ c \in Thread /\ Checked(c)' = Checked(c)
  BY DEF SInv, Checked
<1>2. Fits(c)'
  <2>1. CASE pc' = pc
    BY <1>1, <2>1 DEF Fits
  <2>2. CASE pc[c] = "resetting" /\ pc' = [pc EXCEPT ![c] = "reconnecting"]
    BY <1>1, <2>2 DEF Fits, TypeOK
  <2>3. CASE Asleep(c) /\ pc' = [pc EXCEPT ![c] = Woken(pc[c])]
    BY <1>1, <2>3 DEF Fits, TypeOK, Woken, Asleep
  <2> QED
    BY <2>1, <2>2, <2>3
<1>3. \A a \in App \ {c} : pc'[a] = pc[a]
  BY DEF TypeOK
<1>4. \A t \in Token : SameToken(t)
  BY DEF SameToken
<1> QED
  BY <1>1, <1>2, <1>3, <1>4, QuietSync

LEMMA NextSync ==
  TypeOK /\ PendingAccounted /\ SInv /\ [SyncNext]_svars => SInv'
<1> SUFFICES ASSUME TypeOK, PendingAccounted, SInv, [SyncNext]_svars PROVE SInv'
  OBVIOUS
<1>1. SyncTypes'
  BY TypesKept, SInvTypes
<1>2. \A a \in App : ok[a] => stage[a] = "return"
  BY DEF SInv, Fits
<1>3. stage \in [App -> Stage] /\ lent \in [App -> BOOLEAN]
  BY DEF SInv, SyncTypes
<1>4. ASSUME NEW t \in Token, SyncConnect(t) PROVE SInv'
  <2>1. /\ Begin(Main, t, NewToken("CONNECT", FALSE), "connecting")
        /\ connTok_' = t /\ stage[Main] = "none" /\ stage'[Main] = "call"
        /\ ~lent'[Main] /\ ok' = ok /\ gone' = gone \ {t}
        /\ \A a \in App \ {Main} : stage'[a] = stage[a] /\ lent'[a] = lent[a]
    BY <1>3, <1>4 DEF SyncConnect, SyncBegin, To, Connect
  <2> QED
    BY <1>1, <2>1, BeginSync
<1>5. ASSUME NEW a \in App, NEW t \in Token, NEW kind \in Kind,
             SyncRequest(a, t, kind)
      PROVE  SInv'
  <2>1. /\ Begin(a, t, NewToken(kind, FALSE), "calling") 
        /\ kind \notin {"PUBLISH", "CONNECT"}
        /\ connTok_' = connTok_ /\ stage[a] = "none" /\ stage'[a] = "call"
        /\ ~lent'[a] /\ ok' = ok /\ gone' = gone \ {t}
        /\ \A b \in App \ {a} : stage'[b] = stage[b] /\ lent'[b] = lent[b]
    BY <1>3, <1>5, AsyncAssumption DEF SyncRequest, SyncBegin, To, Request
  <2> QED
    BY <1>1, <2>1, BeginSync
<1>6. ASSUME NEW a \in App, NEW t \in Token, NEW acked \in BOOLEAN,
             NEW borrows \in BOOLEAN, SyncPublish(a, t, acked, borrows)
      PROVE  SInv'
  <2>1. /\ Begin(a, t, NewToken("PUBLISH", acked), "publishing")
        /\ connTok_' = connTok_ /\ stage[a] = "none" /\ stage'[a] = "call"
        /\ ok' = ok /\ gone' = gone \ {t}
        /\ \A b \in App \ {a} : stage'[b] = stage[b] /\ lent'[b] = lent[b]
    BY <1>3, <1>6 DEF SyncPublish, SyncBegin, To, Publish, NewDelivery
  <2> QED
    BY <1>1, <2>1, BeginSync
<1>7. ASSUME NEW a \in App, NEW t \in Token, NEW acked \in BOOLEAN,
             TopicPublish(a, t, acked)
      PROVE  SInv'
  <2>1. /\ Begin(a, t, NewToken("PUBLISH", acked), "publishing")
        /\ connTok_' = connTok_ /\ stage[a] = "none" /\ stage' = stage
        /\ lent' = lent /\ ok' = ok /\ gone' = gone \ {t}
    BY <1>7 DEF TopicPublish, TopicBegin, Publish, NewDelivery
  <2>2. ~lent[a]
    BY <2>1 DEF SInv, Fits
  <2> QED
    BY <1>1, <2>1, <2>2, BeginSync
<1>7a. ASSUME NEW a \in App, NEW t \in Token, TopicSubscribe(a, t) PROVE SInv'
  <2>1. /\ Begin(a, t, NewToken("SUBSCRIBE", FALSE), "calling")
        /\ "SUBSCRIBE" \in Types
        /\ connTok_' = connTok_ /\ stage[a] = "none" /\ stage' = stage
        /\ lent' = lent /\ ok' = ok /\ gone' = gone \ {t}
    BY <1>7a DEF TopicSubscribe, TopicBegin, Request
  <2>2. ~lent[a]
    BY <2>1 DEF SInv, Fits
  <2> QED
    BY <1>1, <2>1, <2>2, BeginSync
<1>8. CASE SyncReconnect
  BY <1>1, <1>8, ReconnectSync
<1>9. ASSUME NEW a \in App, SyncCall(a) PROVE SInv'
  <2>1. /\ stage[a] = "call" /\ UNCHANGED <<lent, ok, gone>>
        /\ stage'[a] # "none"
        /\ \A b \in App \ {a} : stage'[b] = stage[b]
    BY <1>3, <1>9 DEF SyncCall, To, FirstWait
  <2>2. CASE Accept(a)
    <3>1. pc[a] \in CallPc
      BY <2>2 DEF Accept
    <3>2. stage'[a] = IF pc[a] = "publishing" THEN "call" ELSE FirstWait(a)
      BY <1>3, <1>9, <3>1 DEF SyncCall, To, SetMessageId
    <3> QED
      BY <1>1, <2>1, <2>2, <3>2, AcceptSync
  <2>3. CASE ~Accept(a)
    <3>1. SetMessageId(a) /\ stage'[a] = FirstWait(a)
      BY <1>3, <1>9, <2>3 DEF SyncCall, To
    <3>2. lent'[a] = (lent[a] /\ stage'[a] # "none")
      BY <1>3, <2>1
    <3> QED
      BY <1>1, <2>1, <3>1, <3>2, CallSync
  <2> QED
    BY <2>2, <2>3
<1>10. ASSUME NEW a \in App, SyncThrows(a) PROVE SInv'
  <2>1. /\ stage[a] = "call" /\ UNCHANGED <<ok, gone>>
        /\ Refuse(a) \/ DeliveryReturns(a)
        /\ stage'[a] = IF pc'[a] = "idle" THEN "none" ELSE "call"
        /\ \A b \in App \ {a} : stage'[b] = stage[b]
    BY <1>3, <1>10 DEF SyncThrows, To
  <2>2. /\ lent'[a] = (lent[a] /\ stage'[a] # "none")
        /\ \A b \in App \ {a} : lent'[b] = lent[b]
    BY <1>3, <1>10, <2>1 DEF SyncThrows
  <2> QED
    BY <1>1, <2>1, <2>2, CallSync
<1>11. ASSUME NEW a \in App, WaitLimited(a) \/ WaitUnlimited(a) PROVE SInv'
  BY <1>1, <1>11, WaitSync
<1>12. ASSUME NEW a \in App, SyncReturns(a) PROVE SInv'
  BY <1>1, <1>12, ReturnSync
<1>13. ASSUME NEW a \in App, TopicResumes(a) PROVE SInv'
  <2>1. stage[a] = "none" /\ UNCHANGED <<stage, lent, ok, gone>>
    BY <1>13 DEF TopicResumes, sync
  <2>2. ~lent[a]
    BY <2>1 DEF SInv, Fits
  <2>3. CASE Accept(a)
    BY <1>1, <2>1, <2>3, AcceptSync
  <2>4. CASE Refuse(a) \/ SetMessageId(a) \/ DeliveryReturns(a)
    <3>1. lent'[a] = (lent[a] /\ stage'[a] # "none")
      BY <1>3, <2>1, <2>2
    <3> QED
      BY <1>1, <2>1, <2>4, <3>1, CallSync
  <2>5. CASE Drop(a)
    <3>1. /\ tok' = tok /\ open' = open /\ connTok_' = connTok_
          /\ pc' = [pc EXCEPT ![a] = "idle"] /\ at' = [at EXCEPT ![a] = Null]
          /\ pc[a] = "idle"
      BY <2>5 DEF Drop, Goto
    <3>2. ~ok[a] /\ a \in Thread
      BY <1>2, <2>1
    <3>3. Fits(a)'
      BY <2>1, <2>2, <3>1, <3>2 DEF Fits, TypeOK
    <3>4. \A t \in Token : SameToken(t)
      BY <3>1 DEF SameToken
    <3>5. \A b \in App \ {a} : pc'[b] = pc[b] /\ at'[b] = at[b]
      BY <3>1 DEF TypeOK
    <3>6. at'[a] = Null
      BY <3>1 DEF TypeOK
    <3> QED
      BY <1>1, <2>1, <3>1, <3>2, <3>3, <3>4, <3>5, <3>6, QuietSync
  <2> QED
    BY <1>1, <1>13, <2>3, <2>4, <2>5, TopicWaitSync DEF TopicResumes, sync
<1>14. ASSUME NEW l \in Library, NEW t \in Token, Answers(l, t) PROVE SInv'
  <2>1. PICK rc \in BOOLEAN, data \in BOOLEAN, code \in {"none", "good", "bad"} :
          Answer(l, t, Answered(t, rc, data, code))
    BY <1>14 DEF Answers, OnSuccess, OnFailure
  <2>2. UNCHANGED sync
    BY <1>14 DEF Answers
  <2> QED
    BY <1>1, <2>1, <2>2, AnswerSync
<1>15. ASSUME NEW l \in Library, SyncLibrary(l) PROVE SInv'
  BY <1>1, <1>15, LibrarySync
<1>16. ASSUME NEW a \in App, SyncReconnectAdds \/ SyncWakes(a) PROVE SInv'
  <2>1. CASE SyncReconnectAdds
    <3>1. /\ UNCHANGED <<tok, open, connTok_, stage, lent, ok, gone>>
          /\ at' = at /\ Main \in App
          /\ pc[Main] = "resetting" /\ pc' = [pc EXCEPT ![Main] = "reconnecting"]
      BY <2>1 DEF SyncReconnectAdds, ReconnectAdds, Goto, TypeOK, sync
    <3> QED
      BY <1>1, <3>1, StillSync
  <2>2. CASE SyncWakes(a)
    <3>1. /\ UNCHANGED <<tok, open, connTok_, stage, lent, ok, gone>>
          /\ at' = at
          /\ Asleep(a) /\ pc' = [pc EXCEPT ![a] = Woken(pc[a])]
      BY <2>2 DEF SyncWakes, WakeUnsignalled, Goto, TypeOK, sync
    <3> QED
      BY <1>1, <3>1, StillSync
  <2> QED
    BY <1>16, <2>1, <2>2
<1>17. ASSUME SyncSetCallback \/ UNCHANGED svars \/ \E a \in App : Expire(a)
       PROVE  SInv'
  <2>1. UNCHANGED <<tok, open, connTok_, at, stage, lent, ok, gone, pc>>
    BY <1>17 DEF SyncSetCallback, SetCallback, Expire, svars, vars, sync
  <2> QED
    BY <1>1, <2>1, StillSync
<1> QED
  BY <1>4, <1>5, <1>6, <1>7, <1>8, <1>9, <1>10, <1>11, <1>12, <1>13, <1>14,
     <1>15, <1>16, <1>17, <1>7a
     DEF SyncNext, SyncResumes

-----------------------------------------------------------------------------
(* Theorems                                                                *)

SyncInvariant == TypeOK /\ PendingAccounted /\ SInv

LEMMA SyncIsInvariant == SyncSpec => []SyncInvariant
<1>1. SyncInit => SyncInvariant
  BY InitTyped, InitAccounted, InitSync DEF SyncInit, SyncInvariant
<1>2. SyncInvariant /\ [SyncNext]_svars => SyncInvariant'
  BY SInvTypes, StepIsAsync, NextTyped, NextAccounted, NextSync DEF SyncInvariant
<1> QED
  BY <1>1, <1>2, PTL DEF SyncSpec

\* A client of client.cpp, whatever calls are made of it, never does what an
\* async_client does not: every theorem about Spec is one about it.
THEOREM SyncImplementsAsync == SyncSpec => Spec
<1>1. SyncInit => Init
  BY DEF SyncInit
<1>2. SyncInvariant /\ [SyncNext]_svars => [Next]_vars
  BY SInvTypes, StepIsAsync DEF SyncInvariant
<1> QED
  BY <1>1, <1>2, SyncIsInvariant, PTL DEF SyncSpec, Spec

\* SyncTypeOK: where each call of the synchronous client is (client.cpp:69-143).
THEOREM SyncTypeCorrect == SyncSpec => []SyncTypeOK
<1>1. SyncInvariant => SyncTypeOK
  BY SInvTypes DEF SyncInvariant
<1> QED
  BY <1>1, SyncIsInvariant, PTL

\* SuccessIsAnswer: a call with a response that returns has the server's yes,
\* for connect() and reconnect() too, which use one token again.
THEOREM SuccessIsTheAnswer == SyncSpec => []SuccessIsAnswer
<1>1. SyncInvariant => SuccessIsAnswer
  <2> SUFFICES ASSUME SyncInvariant, NEW a \in App, ok[a]
               PROVE  /\ tok[at[a]].complete /\ tok[at[a]].answer = "good"
                      /\ open[at[a]] = 0
    BY DEF SuccessIsAnswer
  <2>1. stage[a] = "return" /\ tok[at[a]].complete /\ Checked(a) /\ at[a] # Null
    BY DEF SyncInvariant, SInv, Fits
  <2>2. at[a] \in Token
    BY <2>1 DEF SyncInvariant, TypeOK
  <2>3. Settled(at[a]) /\ open[at[a]] \in Nat
    BY <2>2 DEF SyncInvariant, SInv, TypeOK
  <2> QED
    BY <2>1, <2>3 DEF Settled, Checked
<1> QED
  BY <1>1, SyncIsInvariant, PTL

\* ResetWhenAnswered: reconnect() resets no token with a command in flight.
THEOREM ResetsAnswered == SyncSpec => []ResetWhenAnswered
<1>1. SyncInvariant => ResetWhenAnswered
  BY DEF SyncInvariant, SInv, Fits, ResetWhenAnswered
<1> QED
  BY <1>1, SyncIsInvariant, PTL

\* LentNotOpen: a message lent to publish() comes back when the C library has
\* no command for it any more.
THEOREM LentComesBack == SyncSpec => []LentNotOpen
<1>1. SyncInvariant => LentNotOpen
  BY DEF SyncInvariant, SInv, SyncTypes, Settled, LentNotOpen
<1> QED
  BY <1>1, SyncIsInvariant, PTL

-----------------------------------------------------------------------------
(* Nobody waits in vain                                                    *)

\* Where a thread that has a token may wait for it, now or soon.
MayWait == {"idle", "sent"} \cup WaitPc

\* Then the C library owes the answer if there is none yet.
Owed(a) ==
  at[a] # Null /\ pc[a] \in MayWait /\ ~tok[at[a]].complete => open[at[a]] > 0

OwedInv == \A a \in App : Owed(a)

\* A step that takes no command away, and after which a waits for what it, or
\* the thread it has its token from, could have waited for before.
LEMMA OwedKept ==
  ASSUME TypeOK, OwedInv, NEW a \in App, NEW b \in App,
         at'[a] # Null /\ pc'[a] \in MayWait =>
           /\ at'[a] = at[b] /\ pc[b] \in MayWait
           /\ tok'[at[b]].complete = tok[at[b]].complete
           /\ open[at[b]] > 0 => open'[at[b]] > 0
  PROVE  Owed(a)'
<1>1. Owed(b)
  BY DEF OwedInv
<1> QED
  BY <1>1 DEF Owed

\* An operation begins with a token that nobody has.
LEMMA BeginOwes ==
  ASSUME TypeOK, OwedInv, NEW c \in App, NEW t \in Token, NEW new, NEW p,
         Begin(c, t, new, p), p \notin MayWait
  PROVE  OwedInv'
<1> SUFFICES ASSUME NEW a \in App PROVE Owed(a)'
  BY DEF OwedInv
<1>1. CASE a = c
  BY <1>1 DEF Begin, Goto, TypeOK, Owed
<1>2. CASE a # c
  <2>1. at'[a] = at[a] /\ pc'[a] = pc[a] /\ at[a] # t /\ open' = open
    BY <1>2 DEF Begin, Goto, TypeOK, Live
  <2>2. at[a] # Null => tok'[at[a]] = tok[at[a]]
    BY <2>1 DEF Begin, TypeOK
  <2> QED
    BY <2>1, <2>2, OwedKept
<1> QED
  BY <1>1, <1>2

\* reconnect() resets a token that no other thread has.
LEMMA ReconnectOwes ==
  ASSUME TypeOK, SInv, OwedInv, Reconnect
  PROVE  OwedInv'
<1> SUFFICES ASSUME NEW a \in App PROVE Owed(a)'
  BY DEF OwedInv
<1>1. CASE a = Main
  BY <1>1 DEF Reconnect, Goto, TypeOK, Owed, MayWait
<1>2. CASE a # Main
  <2>1. at'[a] = at[a] /\ pc'[a] = pc[a] /\ open' = open
    BY <1>2 DEF Reconnect, Goto, TypeOK
  <2>2. at[a] # Null => at[a] # connTok_ /\ at[a] \in Token
    BY <1>2 DEF SInv, Fits, TypeOK
  <2>3. at[a] # Null => tok'[at[a]] = tok[at[a]]
    BY <2>2 DEF Reconnect, TypeOK
  <2> QED
    BY <2>1, <2>3, OwedKept
<1> QED
  BY <1>1, <1>2

\* Accepted, the command is one the C library has.
LEMMA AcceptOwes ==
  ASSUME TypeOK, OwedInv, NEW c \in App, Accept(c)
  PROVE  OwedInv'
<1> SUFFICES ASSUME NEW a \in App PROVE Owed(a)'
  BY DEF OwedInv
<1>1. at[c] \in Token /\ open[at[c]] \in Nat
  BY DEF Accept, TypeOK
<1>2. CASE a = c
  <2>1. at'[a] = at[c] /\ open'[at[c]] = open[at[c]] + 1
    BY <1>1, <1>2 DEF Accept, Goto, TypeOK
  <2> QED
    BY <1>1, <2>1 DEF Owed
<1>3. CASE a # c
  <2>1. at'[a] = at[a] /\ pc'[a] = pc[a] /\ tok' = tok
    BY <1>3 DEF Accept, Goto, TypeOK
  <2>2. at[a] # Null /\ open[at[a]] > 0 => open'[at[a]] > 0
    BY <1>1 DEF Accept, TypeOK
  <2> QED
    BY <2>1, <2>2, OwedKept
<1> QED
  BY <1>2, <1>3

\* An answer completes the token: there is nothing left to wait for.
LEMMA AnswerOwes ==
  ASSUME TypeOK, OwedInv, NEW l \in Library, NEW t \in Token, NEW new,
         Answer(l, t, new), new.complete
  PROVE  OwedInv'
<1> SUFFICES ASSUME NEW a \in App PROVE Owed(a)'
  BY DEF OwedInv
<1>1. at'[a] = at[a] /\ pc'[a] = pc[a]
  BY AsyncAssumption DEF Answer, Goto, TypeOK
<1>2. CASE at[a] = t
  BY <1>1, <1>2 DEF Answer, TypeOK, Owed
<1>3. CASE at[a] # t
  <2>1. at[a] # Null => tok'[at[a]] = tok[at[a]] /\ open'[at[a]] = open[at[a]]
    BY <1>3 DEF Answer, TypeOK
  <2> QED
    BY <1>1, <2>1, OwedKept
<1> QED
  BY <1>2, <1>3

\* A step of a thread that changes no token and no command.
LEMMA QuietOwes ==
  ASSUME TypeOK, OwedInv, UNCHANGED <<tok, open>>,
         \A a \in App : at'[a] # Null /\ pc'[a] \in MayWait =>
           \E b \in App : at'[a] = at[b] /\ pc[b] \in MayWait
  PROVE  OwedInv'
<1> SUFFICES ASSUME NEW a \in App PROVE Owed(a)'
  BY DEF OwedInv
<1>1. CASE at'[a] # Null /\ pc'[a] \in MayWait
  <2>1. PICK b \in App : at'[a] = at[b] /\ pc[b] \in MayWait
    BY <1>1
  <2> QED
    BY <2>1, OwedKept
<1>2. CASE ~(at'[a] # Null /\ pc'[a] \in MayWait)
  BY <1>2 DEF Owed
<1> QED
  BY <1>1, <1>2

LEMMA NextOwes == TypeOK /\ SInv /\ OwedInv /\ [Next]_vars => OwedInv'
<1> SUFFICES ASSUME TypeOK, SInv, OwedInv, [Next]_vars PROVE OwedInv'
  OBVIOUS
<1>1. ASSUME NEW t \in Token,
             Connect(t) \/ \E a \in App :
               \/ \E kind \in Kind : Request(a, t, kind)
               \/ \E acked \in BOOLEAN : Publish(a, t, acked)
      PROVE  OwedInv'
  <2>1. CASE Connect(t)
    BY <2>1, BeginOwes DEF Connect, MayWait
  <2>2. ASSUME NEW a \in App, NEW kind \in Kind, Request(a, t, kind) PROVE OwedInv'
    BY <2>2, BeginOwes DEF Request, MayWait
  <2>3. ASSUME NEW a \in App, NEW acked \in BOOLEAN, Publish(a, t, acked)
        PROVE  OwedInv'
    BY <2>3, BeginOwes DEF Publish, MayWait
  <2> QED
    BY <1>1, <2>1, <2>2, <2>3
<1>2. CASE Reconnect
  BY <1>2, ReconnectOwes
<1>3. CASE ReconnectAdds \/ SetCallback \/ UNCHANGED vars
  BY <1>3, QuietOwes DEF ReconnectAdds, SetCallback, Goto, vars, TypeOK, MayWait
<1>4. ASSUME NEW c \in App, Accept(c) PROVE OwedInv'
  BY <1>4, AcceptOwes
<1>5. ASSUME NEW c \in App, Refuse(c) PROVE OwedInv'
  BY <1>5, QuietOwes DEF Refuse, RemoveToken, Goto, TypeOK, MayWait
<1>6. ASSUME NEW c \in App, SetMessageId(c) PROVE OwedInv'
  <2> SUFFICES ASSUME NEW a \in App PROVE Owed(a)'
    BY DEF OwedInv
  <2>1. /\ at'[a] = at[a] /\ open' = open
        /\ pc'[a] \in MayWait => pc[a] \in MayWait
    BY <1>6 DEF SetMessageId, Goto, TypeOK, MayWait
  <2>2. \A t \in Token : tok'[t].complete = tok[t].complete
    BY <1>6 DEF SetMessageId, TypeOK, TokenMembers
  <2>3. at[a] # Null => at[a] \in Token
    BY DEF TypeOK
  <2> QED
    BY <2>1, <2>2, <2>3, OwedKept
<1>7. ASSUME NEW c \in App, DeliveryReturns(c) \/ Drop(c) \/ WakeUnsignalled(c)
      PROVE  OwedInv'
  BY <1>7, QuietOwes DEF DeliveryReturns, Drop, WakeUnsignalled, Asleep, Woken,
     Goto, TypeOK, MayWait
<1>8. ASSUME NEW c \in App, Wait(c) \/ WaitFor(c) PROVE OwedInv'
  BY <1>8, QuietOwes DEF Wait, WaitFor, WaitReturns, WaitGoesOn, Goto, TypeOK, MayWait
<1>9. ASSUME NEW c \in App, NEW b \in App, Share(c, b) PROVE OwedInv'
  BY <1>9, QuietOwes DEF Share, Goto, TypeOK, MayWait
<1>10. ASSUME NEW l \in Library, NEW t \in Token, OnSuccess(l, t) \/ OnFailure(l, t)
       PROVE  OwedInv'
  <2>1. tok[t] \in TokenMembers
    BY DEF TypeOK
  <2>2. \A rc, data, code : Answered(t, rc, data, code).complete
    BY <2>1 DEF Answered, TokenMembers
  <2> QED
    BY <1>10, <2>2, AnswerOwes DEF OnSuccess, OnFailure
<1>11. ASSUME NEW l \in Library,
              ListenerReturns(l) \/ RemoveAnswered(l) \/ DeliveryReturns(l)
       PROVE  OwedInv'
  <2>1. \A a \in App : at'[a] = at[a] /\ pc'[a] = pc[a]
    BY <1>11, AsyncAssumption DEF ListenerReturns, RemoveAnswered, RemoveToken,
       DeliveryReturns, Goto, TypeOK
  <2>2. UNCHANGED <<tok, open>>
    BY <1>11 DEF ListenerReturns, RemoveAnswered, DeliveryReturns
  <2> QED
    BY <2>1, <2>2, QuietOwes
<1>12. ASSUME NEW l \in Library, Signal(l) PROVE OwedInv'
  <2>1. \A a \in App : at'[a] = at[a] /\ (pc'[a] = pc[a] \/ pc[a] \in WaitPc)
    BY <1>12, AsyncAssumption DEF Signal, Asleep
  <2> QED
    BY <1>12, <2>1, QuietOwes DEF Signal, MayWait
<1> QED
  BY <1>1, <1>2, <1>3, <1>4, <1>5, <1>6, <1>7, <1>8, <1>9, <1>10, <1>11, <1>12
     DEF Next

\* WaitsForAnswer: whoever sleeps in a call of the synchronous client, or with
\* a topic's token, sleeps for an answer that is owed or is about to be woken.
THEOREM NobodyWaitsInVain == SyncSpec => []WaitsForAnswer
<1>1. SyncInit => OwedInv
  BY DEF SyncInit, Init, OwedInv, Owed
<1>2. SyncInvariant /\ OwedInv /\ [SyncNext]_svars => OwedInv'
  BY SInvTypes, StepIsAsync, NextOwes DEF SyncInvariant
<1>3. OwedInv /\ SleepersSignalled /\ TypeOK => WaitsForAnswer
  <2> SUFFICES ASSUME OwedInv, SleepersSignalled, TypeOK, NEW a \in App, Asleep(a)
               PROVE  \/ open[at[a]] > 0
                      \/ \E l \in Library : at[l] = at[a] /\ pc[l] \in {"listen", "signal"}
    BY DEF WaitsForAnswer
  <2>1. at[a] # Null /\ pc[a] \in MayWait
    BY DEF TypeOK, Asleep, MayWait
  <2> QED
    BY <2>1 DEF OwedInv, Owed, SleepersSignalled
<1>4. SyncInvariant => TypeOK
  BY DEF SyncInvariant
<1> QED
  BY <1>1, <1>2, <1>3, <1>4, SyncIsInvariant, SyncImplementsAsync, NoWakeUpLost, PTL
     DEF SyncSpec
=============================================================================
