------------------------- MODULE AsyncClientProofs --------------------------
(***************************************************************************)
(* Proofs about AsyncClient, for any threads, tokens and bounds: the list  *)
(* of pending tokens is accounted for, no address outlives its token, no   *)
(* wake-up is lost, a delivery is reported once.                           *)
(***************************************************************************)
EXTENDS AsyncClient, FiniteSetTheorems, TLAPS

USE DEF App, Thread, CallPc, WaitPc, SleepPc, AppPc, LibraryPc, Types

-----------------------------------------------------------------------------
(* Type correctness                                                        *)

LEMMA NewTyped ==
  ASSUME NEW type \in Types, NEW acked \in BOOLEAN
  PROVE  /\ NewToken(type, acked) \in TokenMembers
         /\ NewToken(type, acked).type = type
  BY DEF NewToken, TokenMembers

LEMMA InitTyped == Init => TypeOK
<1> SUFFICES ASSUME Init PROVE TypeOK
  OBVIOUS
<1>1. tok \in [Token -> TokenMembers]
  BY NewTyped DEF Init
<1> QED
  BY <1>1, AsyncAssumption DEF Init, TypeOK

\* What the three ways to begin an operation have in common.
LEMMA BeginsWith ==
  ASSUME NEW a \in App, NEW t \in Token,
         \/ Connect(t)
         \/ \E kind \in Kind : Request(a, t, kind)
         \/ \E acked \in BOOLEAN : Publish(a, t, acked)
  PROVE  \E c \in App, type \in Types, acked \in BOOLEAN, p \in CallPc :
           /\ Begin(c, t, NewToken(type, acked), p)
           /\ connTok_' = connTok_ \/ (connTok_' = t /\ type = "CONNECT")
           /\ p # "publishing" => type # "PUBLISH"
<1> DEFINE Begins(c, type, acked, p) ==
             /\ Begin(c, t, NewToken(type, acked), p)
             /\ connTok_' = connTok_ \/ (connTok_' = t /\ type = "CONNECT")
             /\ p # "publishing" => type # "PUBLISH"
<1>1. CASE Connect(t)
  <2>1. Begins(Main, "CONNECT", FALSE, "connecting")
    BY <1>1 DEF Connect
  <2> HIDE DEF Begins
  <2>2. \E c \in App, type \in Types, acked \in BOOLEAN, p \in CallPc :
          Begins(c, type, acked, p)
    BY <2>1
  <2> QED
    BY <2>2 DEF Begins
<1>2. ASSUME NEW kind \in Kind, Request(a, t, kind)
      PROVE  \E c \in App, type \in Types, acked \in BOOLEAN, p \in CallPc :
               Begins(c, type, acked, p)
  <2>1. Begins(a, kind, FALSE, "calling")
    BY <1>2, AsyncAssumption DEF Request
  <2> HIDE DEF Begins
  <2> QED
    BY <2>1
<1>3. ASSUME NEW acked \in BOOLEAN, Publish(a, t, acked)
      PROVE  \E c \in App, type \in Types, ack \in BOOLEAN, p \in CallPc :
               Begins(c, type, ack, p)
  <2>1. Begins(a, "PUBLISH", acked, "publishing")
    BY <1>3 DEF Publish, NewDelivery
  <2> HIDE DEF Begins
  <2> QED
    BY <2>1
<1> QED
  BY <1>1, <1>2, <1>3

LEMMA BeginTyped ==
  ASSUME TypeOK, NEW a \in App, NEW t \in Token,
         NEW type \in Types, NEW acked \in BOOLEAN,
         NEW p \in CallPc, Begin(a, t, NewToken(type, acked), p),
         connTok_' = connTok_ \/ (connTok_' = t /\ type = "CONNECT")
  PROVE  TypeOK'
<1>1. tok' \in [Token -> TokenMembers] /\ tok'[t].type = type
  BY NewTyped DEF TypeOK, Begin
<1>2. connTok_' # Null => tok'[connTok_'].type = "CONNECT"
  BY <1>1 DEF TypeOK, Begin, Live
<1>3. pending' \in [Token -> Nat] /\ connTok_' \in Token \cup {Null}
  BY DEF TypeOK, Begin, AddToken
<1> QED
  BY <1>1, <1>2, <1>3, AsyncAssumption DEF TypeOK, Begin, Goto

LEMMA RemoveTyped ==
  ASSUME TypeOK, NEW x \in Thread, at[x] # Null, RemoveToken(x),
         UNCHANGED <<tok, userCallback_>>, open' \in [Token -> Nat],
         connTok_' \in {connTok_, Null}
  PROVE  TypeOK'
<1>1. at[x] \in Token /\ pending' \in [Token -> Nat]
  BY DEF TypeOK, RemoveToken
<1>2. /\ pc' \in [Thread -> AppPc \cup LibraryPc]
      /\ \E p \in {"idle", "deliver"} : pc' = [pc EXCEPT ![x] = p]
  BY DEF TypeOK, RemoveToken, Goto
<1>3. /\ at' \in [Thread -> Token \cup {Null}]
      /\ \A y \in Thread : at'[y] = Null => pc'[y] = "idle"
      /\ \A y \in Library : pc'[y] = "idle" => at'[y] = Null
  BY <1>1 DEF TypeOK, RemoveToken, Goto
<1> QED
  BY <1>1, <1>2, <1>3, AsyncAssumption DEF TypeOK

LEMMA AnswerTyped ==
  ASSUME TypeOK, NEW l \in Library, NEW t \in Token, NEW ok \in BOOLEAN,
         NEW data \in BOOLEAN, NEW code \in {"none", "good", "bad"},
         Answer(l, t, Answered(t, ok, data, code))
  PROVE  TypeOK'
<1>1. Answered(t, ok, data, code) \in TokenMembers
  <2>1. tok[t] \in TokenMembers
    BY DEF TypeOK
  <2>2. /\ (IF data THEN tok[t].acked ELSE tok[t].msgId) \in BOOLEAN
        /\ (IF code = "none" THEN tok[t].reason ELSE code = "good") \in BOOLEAN
    BY <2>1, Zenon DEF TokenMembers
  <2> QED
    BY <2>1, <2>2 DEF Answered, TokenMembers
<1>2. Answered(t, ok, data, code).type = tok[t].type
  BY DEF TypeOK, Answered, TokenMembers
<1>3. tok' \in [Token -> TokenMembers] /\ open' \in [Token -> Nat]
  BY <1>1 DEF TypeOK, Answer
<1>4. connTok_' # Null => tok'[connTok_'].type = "CONNECT"
  BY <1>1, <1>2 DEF TypeOK, Answer
<1> QED
  BY <1>3, <1>4, AsyncAssumption DEF TypeOK, Answer, Goto

LEMMA ResetTyped ==
  ASSUME TypeOK, NEW t \in Token
  PROVE  Reset(t) \in TokenMembers /\ Reset(t).type = tok[t].type
<1>1. tok[t] \in TokenMembers
  BY DEF TypeOK
<1>2. (tok[t].mixed \/ pending[t] > 0) \in BOOLEAN
  OBVIOUS
<1> QED
  BY <1>1, <1>2 DEF Reset, TokenMembers

LEMMA NextTyped == TypeOK /\ [Next]_vars => TypeOK'
<1> SUFFICES ASSUME TypeOK, [Next]_vars PROVE TypeOK'
  OBVIOUS
<1>1. ASSUME NEW t \in Token, Connect(t) PROVE TypeOK'
  BY <1>1, BeginTyped DEF Connect
<1>2. ASSUME NEW a \in App, NEW t \in Token, NEW kind \in Kind,
             Request(a, t, kind) PROVE TypeOK'
  BY <1>2, BeginTyped DEF Request
<1>3. ASSUME NEW a \in App, NEW t \in Token, NEW acked \in BOOLEAN,
             Publish(a, t, acked) PROVE TypeOK'
  BY <1>3, BeginTyped DEF Publish, NewDelivery
<1>4. CASE Reconnect
  BY <1>4, ResetTyped, AsyncAssumption DEF TypeOK, Reconnect, Goto
<1>5. CASE ReconnectAdds
  BY <1>5, AsyncAssumption DEF TypeOK, ReconnectAdds, AddToken, Goto
<1>6. CASE SetCallback
  BY <1>6 DEF TypeOK, SetCallback
<1>7. ASSUME NEW a \in App, Accept(a) PROVE TypeOK'
  BY <1>7, AsyncAssumption DEF TypeOK, Accept, Goto
<1>8. ASSUME NEW a \in App, Refuse(a) PROVE TypeOK'
  <2>1. at[a] # Null /\ connTok_' \in {connTok_, Null}
    BY <1>8 DEF TypeOK, Refuse
  <2> QED
    BY <1>8, <2>1, RemoveTyped DEF TypeOK, Refuse
<1>9. ASSUME NEW a \in App, SetMessageId(a) PROVE TypeOK'
  <2>1. at[a] \in Token
    BY <1>9 DEF TypeOK, SetMessageId
  <2>2. /\ tok' \in [Token -> TokenMembers]
        /\ \A u \in Token : tok'[u].type = tok[u].type
    BY <1>9, <2>1 DEF TypeOK, SetMessageId, TokenMembers
  <2> QED
    BY <1>9, <2>1, <2>2, AsyncAssumption DEF TypeOK, SetMessageId, Goto
<1>10. ASSUME NEW x \in Thread, DeliveryReturns(x) PROVE TypeOK'
  BY <1>10, AsyncAssumption DEF TypeOK, DeliveryReturns, Goto
<1>11. ASSUME NEW a \in App, Wait(a) \/ WaitFor(a) PROVE TypeOK'
  BY <1>11, AsyncAssumption
     DEF TypeOK, Wait, WaitFor, WaitReturns, WaitGoesOn, Goto
<1>12. ASSUME NEW a \in App, WakeUnsignalled(a) PROVE TypeOK'
  BY <1>12, AsyncAssumption DEF TypeOK, WakeUnsignalled, Asleep, Woken, Goto
<1>13. ASSUME NEW a \in App, Drop(a) PROVE TypeOK'
  BY <1>13, AsyncAssumption DEF TypeOK, Drop, Goto
<1>14. ASSUME NEW a \in App, NEW b \in App, Share(a, b) PROVE TypeOK'
  BY <1>14, AsyncAssumption DEF TypeOK, Share, Goto
<1>15. ASSUME NEW l \in Library, NEW t \in Token,
              OnSuccess(l, t) \/ OnFailure(l, t) PROVE TypeOK'
  BY <1>15, AnswerTyped DEF OnSuccess, OnFailure
<1>16. ASSUME NEW l \in Library, ListenerReturns(l) PROVE TypeOK'
  BY <1>16, AsyncAssumption DEF TypeOK, ListenerReturns, Goto
<1>17. ASSUME NEW l \in Library, Signal(l) PROVE TypeOK'
  BY <1>17, AsyncAssumption DEF TypeOK, Signal, Asleep, Woken
<1>18. ASSUME NEW l \in Library, RemoveAnswered(l) PROVE TypeOK'
  <2>1. at[l] # Null
    BY <1>18 DEF TypeOK, RemoveAnswered
  <2> QED
    BY <1>18, <2>1, RemoveTyped DEF TypeOK, RemoveAnswered
<1>19. CASE UNCHANGED vars
  BY <1>19 DEF vars, TypeOK
<1> QED
  BY <1>1, <1>2, <1>3, <1>4, <1>5, <1>6, <1>7, <1>8, <1>9, <1>10, <1>11,
     <1>12, <1>13, <1>14, <1>15, <1>16, <1>17, <1>18, <1>19 DEF Next

\* TypeOK: no step leaves an ill-formed token, list or thread.
THEOREM TokensTypeCorrect == Spec => []TypeOK
  BY InitTyped, NextTyped, PTL DEF Spec

-----------------------------------------------------------------------------
(* The list of pending tokens                                              *)

AnswerPc == {"listen", "signal", "remove"}

LEMMA PartsFinite ==
  \A t \in Token :
    /\ IsFiniteSet(Callers(t)) /\ Cardinality(Callers(t)) \in Nat
    /\ IsFiniteSet(Answerers(t)) /\ Cardinality(Answerers(t)) \in Nat
<1> TAKE t \in Token
<1>1. Callers(t) \in SUBSET App /\ Answerers(t) \in SUBSET Library
  BY DEF Callers, Answerers
<1>2. IsFiniteSet(App) /\ IsFiniteSet(Library)
  BY AsyncAssumption
<1>3. IsFiniteSet(Callers(t)) /\ IsFiniteSet(Answerers(t))
  BY <1>1, <1>2, FS_Subset
<1> QED
  BY <1>3, FS_CardinalityType

\* What a step that leaves the calls, the callbacks or both alone changes.
LEMMA SameCallers ==
  ASSUME \A a \in App : \/ pc'[a] = pc[a] /\ at'[a] = at[a]
                        \/ pc[a] \notin CallPc /\ pc'[a] \notin CallPc
  PROVE  \A t \in Token : Callers(t)' = Callers(t)
  BY DEF Callers

LEMMA SameAnswerers ==
  ASSUME \A l \in Library :
           \/ at'[l] = at[l] /\ (pc'[l] \in AnswerPc <=> pc[l] \in AnswerPc)
           \/ pc[l] \notin AnswerPc /\ pc'[l] \notin AnswerPc
  PROVE  \A t \in Token : Answerers(t)' = Answerers(t)
  BY DEF Answerers, AnswerPc

LEMMA Balanced ==
  ASSUME PendingAccounted, NEW t \in Token,
         \A u \in Token \ {t} :
           /\ pending'[u] = pending[u] /\ open'[u] = open[u]
           /\ Callers(u)' = Callers(u) /\ Answerers(u)' = Answerers(u),
         pending'[t] = open'[t] + Cardinality(Callers(t)')
                                + Cardinality(Answerers(t)')
  PROVE  PendingAccounted'
<1> SUFFICES ASSUME NEW u \in Token
             PROVE  pending'[u] = open'[u] + Cardinality(Callers(u)')
                                           + Cardinality(Answerers(u)')
  BY DEF PendingAccounted
<1>1. CASE u = t
  BY <1>1
<1>2. CASE u # t
  BY <1>2 DEF PendingAccounted
<1> QED
  BY <1>1, <1>2

LEMMA QuietAccounted ==
  ASSUME PendingAccounted, UNCHANGED <<pending, open>>,
         \A a \in App : \/ pc'[a] = pc[a] /\ at'[a] = at[a]
                        \/ pc[a] \notin CallPc /\ pc'[a] \notin CallPc,
         \A l \in Library :
           \/ at'[l] = at[l] /\ (pc'[l] \in AnswerPc <=> pc[l] \in AnswerPc)
           \/ pc[l] \notin AnswerPc /\ pc'[l] \notin AnswerPc
  PROVE  PendingAccounted'
<1>1. \A t \in Token : Callers(t)' = Callers(t) /\ Answerers(t)' = Answerers(t)
  BY SameCallers, SameAnswerers
<1> QED
  BY <1>1 DEF PendingAccounted

\* A thread outside the calls enters one, with an entry of its own.
LEMMA EnterAccounted ==
  ASSUME TypeOK, PendingAccounted, NEW a \in App, NEW t \in Token,
         NEW p \in CallPc, pc[a] \notin CallPc,
         AddToken(t), Goto(a, p, t), UNCHANGED open
  PROVE  PendingAccounted'
<1>1. \A u \in Token : Answerers(u)' = Answerers(u)
  BY SameAnswerers, AsyncAssumption DEF TypeOK, Goto
<1>2. \A u \in Token \ {t} : Callers(u)' = Callers(u) /\ pending'[u] = pending[u]
  BY DEF TypeOK, Goto, Callers, AddToken
<1>3. /\ Callers(t)' = Callers(t) \cup {a} /\ a \notin Callers(t)
      /\ pending'[t] = pending[t] + 1
  BY DEF TypeOK, Goto, Callers, AddToken
<1>4. Cardinality(Callers(t)') = Cardinality(Callers(t)) + 1
  BY <1>3, PartsFinite, FS_AddElement
<1>5. /\ pending[t] = open[t] + Cardinality(Callers(t)) + Cardinality(Answerers(t))
      /\ pending[t] \in Nat /\ open[t] \in Nat
  BY DEF PendingAccounted, TypeOK
<1>6. pending'[t] = open'[t] + Cardinality(Callers(t)')
                       + Cardinality(Answerers(t)')
  BY <1>1, <1>2, <1>3, <1>4, <1>5, PartsFinite
<1> QED
  BY <1>1, <1>2, <1>3, <1>4, <1>6, Balanced

LEMMA AcceptAccounted ==
  ASSUME TypeOK, PendingAccounted, NEW a \in App, Accept(a)
  PROVE  PendingAccounted'
<1>1. PICK t \in Token : t = at[a]
  BY DEF TypeOK, Accept
<1>2. \A u \in Token : Answerers(u)' = Answerers(u)
  BY SameAnswerers, AsyncAssumption DEF TypeOK, Goto, Accept
<1>3. \A u \in Token \ {t} : Callers(u)' = Callers(u) /\ open'[u] = open[u]
  BY <1>1 DEF TypeOK, Goto, Callers, Accept
<1>4. /\ Callers(t)' = Callers(t) \ {a} /\ a \in Callers(t)
      /\ open'[t] = open[t] + 1
  BY <1>1 DEF TypeOK, Goto, Callers, Accept
<1>5. Cardinality(Callers(t)') = Cardinality(Callers(t)) - 1
  BY <1>1, <1>4, PartsFinite, FS_RemoveElement
<1>6. pending' = pending
  BY DEF Accept
<1>7. /\ pending[t] = open[t] + Cardinality(Callers(t)) + Cardinality(Answerers(t))
      /\ pending[t] \in Nat /\ open[t] \in Nat
  BY DEF PendingAccounted, TypeOK
<1>8. pending'[t] = open'[t] + Cardinality(Callers(t)')
                       + Cardinality(Answerers(t)')
  BY <1>1, <1>2, <1>3, <1>4, <1>5, <1>6, <1>7, PartsFinite
<1> QED
  BY <1>1, <1>2, <1>3, <1>4, <1>5, <1>6, <1>8, Balanced

LEMMA RefuseAccounted ==
  ASSUME TypeOK, PendingAccounted, NEW a \in App, Refuse(a)
  PROVE  PendingAccounted'
<1>1. PICK t \in Token : t = at[a]
  BY DEF TypeOK, Refuse
<1>2. \A u \in Token : Answerers(u)' = Answerers(u)
  BY SameAnswerers, AsyncAssumption DEF TypeOK, Goto, Refuse, RemoveToken
<1>3. \A u \in Token \ {t} : Callers(u)' = Callers(u) /\ pending'[u] = pending[u]
  BY <1>1 DEF TypeOK, Goto, Callers, Refuse, RemoveToken
<1>4. Callers(t)' = Callers(t) \ {a} /\ a \in Callers(t)
  BY <1>1 DEF TypeOK, Goto, Callers, Refuse, RemoveToken
<1>5. /\ Cardinality(Callers(t)') = Cardinality(Callers(t)) - 1
      /\ Cardinality(Callers(t)') \in Nat
  BY <1>1, <1>4, PartsFinite, FS_RemoveElement, FS_CardinalityType
<1>6. pending[t] > 0
  BY <1>1, <1>5, PartsFinite DEF PendingAccounted, TypeOK
<1>7. pending'[t] = pending[t] - 1 /\ open' = open
  BY <1>1, <1>6 DEF TypeOK, Refuse, RemoveToken
<1>8. /\ pending[t] = open[t] + Cardinality(Callers(t)) + Cardinality(Answerers(t))
      /\ pending[t] \in Nat /\ open[t] \in Nat
  BY DEF PendingAccounted, TypeOK
<1>9. pending'[t] = open'[t] + Cardinality(Callers(t)')
                       + Cardinality(Answerers(t)')
  BY <1>1, <1>2, <1>3, <1>5, <1>7, <1>8, PartsFinite
<1> QED
  BY <1>1, <1>2, <1>3, <1>5, <1>7, <1>9, Balanced

LEMMA AnswerAccounted ==
  ASSUME TypeOK, PendingAccounted, NEW l \in Library, NEW t \in Token,
         NEW new, Answer(l, t, new)
  PROVE  PendingAccounted'
<1>1. \A u \in Token : Callers(u)' = Callers(u)
  BY SameCallers, AsyncAssumption DEF TypeOK, Goto, Answer
<1>2. \A u \in Token \ {t} : Answerers(u)' = Answerers(u) /\ open'[u] = open[u]
  BY DEF TypeOK, Goto, Answerers, Answer
<1>3. /\ Answerers(t)' = Answerers(t) \cup {l} /\ l \notin Answerers(t)
      /\ open'[t] = open[t] - 1
  BY DEF TypeOK, Goto, Answerers, Answer
<1>4. Cardinality(Answerers(t)') = Cardinality(Answerers(t)) + 1
  BY <1>3, PartsFinite, FS_AddElement
<1>5. pending' = pending
  BY DEF Answer
<1>6. /\ pending[t] = open[t] + Cardinality(Callers(t)) + Cardinality(Answerers(t))
      /\ pending[t] \in Nat /\ open[t] \in Nat
  BY DEF PendingAccounted, TypeOK
<1>7. pending'[t] = open'[t] + Cardinality(Callers(t)')
                       + Cardinality(Answerers(t)')
  BY <1>1, <1>2, <1>3, <1>4, <1>5, <1>6, PartsFinite
<1> QED
  BY <1>1, <1>2, <1>3, <1>4, <1>5, <1>7, Balanced

LEMMA RemoveAccounted ==
  ASSUME TypeOK, PendingAccounted, NEW l \in Library, RemoveAnswered(l)
  PROVE  PendingAccounted'
<1>1. PICK t \in Token : t = at[l]
  BY DEF TypeOK, RemoveAnswered
<1>2. \A u \in Token : Callers(u)' = Callers(u)
  BY SameCallers, AsyncAssumption DEF TypeOK, Goto, RemoveAnswered, RemoveToken
<1>3. \A u \in Token \ {t} :
        Answerers(u)' = Answerers(u) /\ pending'[u] = pending[u]
  BY <1>1 DEF TypeOK, Goto, Answerers, RemoveAnswered, RemoveToken
<1>4. Answerers(t)' = Answerers(t) \ {l} /\ l \in Answerers(t)
  BY <1>1 DEF TypeOK, Goto, Answerers, RemoveAnswered, RemoveToken
<1>5. /\ Cardinality(Answerers(t)') = Cardinality(Answerers(t)) - 1
      /\ Cardinality(Answerers(t)') \in Nat
  BY <1>1, <1>4, PartsFinite, FS_RemoveElement, FS_CardinalityType
<1>6. pending[t] > 0
  BY <1>1, <1>5, PartsFinite DEF PendingAccounted, TypeOK
<1>7. pending'[t] = pending[t] - 1 /\ open' = open
  BY <1>1, <1>6 DEF TypeOK, RemoveAnswered, RemoveToken
<1>8. /\ pending[t] = open[t] + Cardinality(Callers(t)) + Cardinality(Answerers(t))
      /\ pending[t] \in Nat /\ open[t] \in Nat
  BY DEF PendingAccounted, TypeOK
<1>9. pending'[t] = open'[t] + Cardinality(Callers(t)')
                       + Cardinality(Answerers(t)')
  BY <1>1, <1>2, <1>3, <1>5, <1>7, <1>8, PartsFinite
<1> QED
  BY <1>1, <1>2, <1>3, <1>5, <1>7, <1>9, Balanced

LEMMA NextAccounted ==
  TypeOK /\ PendingAccounted /\ [Next]_vars => PendingAccounted'
<1> SUFFICES ASSUME TypeOK, PendingAccounted, [Next]_vars
             PROVE  PendingAccounted'
  OBVIOUS
<1> USE AsyncAssumption DEF AnswerPc
<1>1. ASSUME NEW a \in App, NEW t \in Token,
             Connect(t) \/ (\E kind \in Kind : Request(a, t, kind))
                        \/ (\E acked \in BOOLEAN : Publish(a, t, acked))
      PROVE  PendingAccounted'
  BY <1>1, EnterAccounted DEF Connect, Request, Publish, NewDelivery, Begin
<1>2. CASE Reconnect
  BY <1>2, QuietAccounted DEF TypeOK, Reconnect, Goto
<1>3. CASE ReconnectAdds
  BY <1>3, EnterAccounted DEF TypeOK, ReconnectAdds
<1>4. CASE SetCallback
  BY <1>4, QuietAccounted DEF SetCallback
<1>5. ASSUME NEW a \in App, SetMessageId(a) PROVE PendingAccounted'
  BY <1>5, QuietAccounted DEF TypeOK, SetMessageId, Goto
<1>6. ASSUME NEW x \in Thread, DeliveryReturns(x) PROVE PendingAccounted'
  BY <1>6, QuietAccounted DEF TypeOK, DeliveryReturns, Goto
<1>7. ASSUME NEW a \in App, Wait(a) \/ WaitFor(a) PROVE PendingAccounted'
  BY <1>7, QuietAccounted
     DEF TypeOK, Wait, WaitFor, WaitReturns, WaitGoesOn, Goto
<1>8. ASSUME NEW a \in App, WakeUnsignalled(a) PROVE PendingAccounted'
  BY <1>8, QuietAccounted DEF TypeOK, WakeUnsignalled, Asleep, Woken, Goto
<1>9. ASSUME NEW a \in App, Drop(a) PROVE PendingAccounted'
  BY <1>9, QuietAccounted DEF TypeOK, Drop, Goto
<1>10. ASSUME NEW a \in App, NEW b \in App, Share(a, b)
       PROVE  PendingAccounted'
  BY <1>10, QuietAccounted DEF TypeOK, Share, Goto
<1>11. ASSUME NEW l \in Library, NEW t \in Token,
              OnSuccess(l, t) \/ OnFailure(l, t)
       PROVE  PendingAccounted'
  BY <1>11, AnswerAccounted DEF OnSuccess, OnFailure
<1>12. ASSUME NEW l \in Library, Signal(l) PROVE PendingAccounted'
  BY <1>12, QuietAccounted DEF TypeOK, Signal, Asleep, Woken
<1>13. ASSUME NEW l \in Library, ListenerReturns(l) PROVE PendingAccounted'
  BY <1>13, QuietAccounted DEF TypeOK, ListenerReturns, Goto
<1>14. CASE UNCHANGED vars
  BY <1>14, QuietAccounted DEF vars
<1> QED
  BY <1>1, <1>2, <1>3, <1>4, <1>5, <1>6, <1>7, <1>8, <1>9, <1>10, <1>11,
     <1>12, <1>13, <1>14, AcceptAccounted, RefuseAccounted, RemoveAccounted
     DEF Next

LEMMA InitAccounted == Init => PendingAccounted
<1> SUFFICES ASSUME Init, NEW t \in Token
             PROVE  pending[t] = open[t] + Cardinality(Callers(t))
                                         + Cardinality(Answerers(t))
  BY DEF PendingAccounted
<1>1. Callers(t) = {} /\ Answerers(t) = {}
  BY AsyncAssumption DEF Init, Callers, Answerers
<1> QED
  BY <1>1, FS_EmptySet DEF Init

\* PendingAccounted: every entry of the list has a command, a call or a
\* callback that will remove it, and each of these has its entry.
THEOREM PendingIsAccounted == Spec => []PendingAccounted
<1>1. TypeOK /\ PendingAccounted /\ [Next]_vars => (TypeOK /\ PendingAccounted)'
  BY NextTyped, NextAccounted
<1> QED
  BY <1>1, InitTyped, InitAccounted, PTL DEF Spec

\* A command, a call or a callback keeps its token in the list.
LEMMA InPlayIsPending ==
  ASSUME TypeOK, PendingAccounted, NEW t \in Token,
         \/ open[t] > 0
         \/ \E a \in App : at[a] = t /\ pc[a] \in CallPc
         \/ \E l \in Library : at[l] = t /\ pc[l] \in AnswerPc
  PROVE  pending[t] > 0
<1>1. open[t] > 0 \/ Callers(t) # {} \/ Answerers(t) # {}
  BY DEF Callers, Answerers, AnswerPc
<1>2. \/ open[t] > 0
      \/ Cardinality(Callers(t)) > 0
      \/ Cardinality(Answerers(t)) > 0
  BY <1>1, PartsFinite, FS_EmptySet
<1>3. open[t] \in Nat
  BY DEF TypeOK
<1> QED
  BY <1>2, <1>3, PartsFinite DEF PendingAccounted

\* ContextsAlive: no address that the C library or a callback has outlives
\* its token, whatever the application keeps or drops.
THEOREM ContextsStayAlive == Spec => []ContextsAlive
<1>1. TypeOK /\ PendingAccounted => ContextsAlive
  <2> SUFFICES ASSUME TypeOK, PendingAccounted, NEW t \in Token,
                      open[t] > 0 \/ (\E l \in Library : at[l] = t)
               PROVE  Live(t)
    BY DEF ContextsAlive
  <2>1. CASE open[t] > 0
    BY <2>1, InPlayIsPending DEF Live
  <2>2. ASSUME NEW l \in Library, at[l] = t PROVE Live(t)
    <3>1. pc[l] \in AnswerPc \cup {"deliver"}
      BY <2>2, AsyncAssumption DEF TypeOK, AnswerPc
    <3>2. CASE pc[l] \in AnswerPc
      BY <2>2, <3>2, InPlayIsPending DEF Live
    <3> QED
      BY <2>2, <3>1, <3>2 DEF Live
  <2> QED
    BY <2>1, <2>2
<1> QED
  BY <1>1, TokensTypeCorrect, PendingIsAccounted, PTL

-----------------------------------------------------------------------------
(* Waiting threads                                                         *)

LEMMA NextSignalled ==
  TypeOK /\ SleepersSignalled /\ [Next]_vars => SleepersSignalled'
<1> SUFFICES ASSUME TypeOK, SleepersSignalled, [Next]_vars,
                    NEW b \in App, Asleep(b)', tok'[at'[b]].complete
             PROVE  \E l \in Library :
                      at'[l] = at'[b] /\ pc'[l] \in {"listen", "signal"}
  BY DEF SleepersSignalled
<1> USE AsyncAssumption DEF Asleep
<1> DEFINE Served == \E l \in Library :
                       at'[l] = at'[b] /\ pc'[l] \in {"listen", "signal"}
<1>1. ASSUME NEW a \in App, NEW t \in Token,
             Connect(t) \/ (\E kind \in Kind : Request(a, t, kind))
                        \/ (\E acked \in BOOLEAN : Publish(a, t, acked))
      PROVE  Served
  <2>1. PICK c \in App, type \in Types, acked \in BOOLEAN, p \in CallPc :
          Begin(c, t, NewToken(type, acked), p)
    BY <1>1, BeginsWith
  <2> QED
    BY <2>1 DEF TypeOK, SleepersSignalled, Begin, Goto, Live
<1>2. CASE Reconnect
  BY <1>2 DEF TypeOK, SleepersSignalled, Reconnect, Goto, Reset, TokenMembers
<1>3. CASE ReconnectAdds
  BY <1>3 DEF TypeOK, SleepersSignalled, ReconnectAdds, Goto
<1>4. CASE SetCallback
  BY <1>4 DEF SleepersSignalled, SetCallback
<1>5. ASSUME NEW a \in App, Accept(a) PROVE Served
  BY <1>5 DEF TypeOK, SleepersSignalled, Accept, Goto
<1>6. ASSUME NEW a \in App, Refuse(a) PROVE Served
  BY <1>6 DEF TypeOK, SleepersSignalled, Refuse, RemoveToken, Goto
<1>7. ASSUME NEW a \in App, SetMessageId(a) PROVE Served
  BY <1>7 DEF TypeOK, SleepersSignalled, SetMessageId, Goto, TokenMembers
<1>8. ASSUME NEW x \in Thread, DeliveryReturns(x) PROVE Served
  BY <1>8 DEF TypeOK, SleepersSignalled, DeliveryReturns, Goto
<1>9. ASSUME NEW a \in App, Wait(a) \/ WaitFor(a) PROVE Served
  BY <1>9
     DEF TypeOK, SleepersSignalled, Wait, WaitFor, WaitReturns, WaitGoesOn, Goto
<1>10. ASSUME NEW a \in App, WakeUnsignalled(a) PROVE Served
  BY <1>10 DEF TypeOK, SleepersSignalled, WakeUnsignalled, Woken, Goto
<1>11. ASSUME NEW a \in App, Drop(a) PROVE Served
  BY <1>11 DEF TypeOK, SleepersSignalled, Drop, Goto
<1>12. ASSUME NEW a \in App, NEW c \in App, Share(a, c) PROVE Served
  BY <1>12 DEF TypeOK, SleepersSignalled, Share, Goto
<1>13. ASSUME NEW l \in Library, NEW t \in Token,
              OnSuccess(l, t) \/ OnFailure(l, t)
       PROVE  Served
  <2>1. PICK new : Answer(l, t, new)
    BY <1>13 DEF OnSuccess, OnFailure
  <2> QED
    BY <2>1 DEF TypeOK, SleepersSignalled, Answer, Goto
<1>14. ASSUME NEW l \in Library, ListenerReturns(l) PROVE Served
  BY <1>14 DEF TypeOK, SleepersSignalled, ListenerReturns, Goto
<1>15. ASSUME NEW l \in Library, Signal(l) PROVE Served
  BY <1>15 DEF TypeOK, SleepersSignalled, Signal, Woken
<1>16. ASSUME NEW l \in Library, RemoveAnswered(l) PROVE Served
  BY <1>16 DEF TypeOK, SleepersSignalled, RemoveAnswered, RemoveToken, Goto
<1>17. CASE UNCHANGED vars
  BY <1>17 DEF SleepersSignalled, vars
<1> QED
  BY <1>1, <1>2, <1>3, <1>4, <1>5, <1>6, <1>7, <1>8, <1>9, <1>10, <1>11,
     <1>12, <1>13, <1>14, <1>15, <1>16, <1>17 DEF Next

\* SleepersSignalled: with any number of waiters on a token, and however often
\* it is used again, a complete token has no sleeper that nobody will wake.
THEOREM NoWakeUpLost == Spec => []SleepersSignalled
<1>1. Init => SleepersSignalled
  BY AsyncAssumption DEF Init, SleepersSignalled, Asleep
<1>2. TypeOK /\ SleepersSignalled /\ [Next]_vars
        => (TypeOK /\ SleepersSignalled)'
  BY NextTyped, NextSignalled
<1> QED
  BY <1>1, <1>2, InitTyped, PTL DEF Spec

-----------------------------------------------------------------------------
(* Deliveries                                                              *)

\* A message's token is in the list once, never at all while it is reported,
\* and no other kind of call works with it.
DeliveryInv ==
  /\ \A a \in App : pc[a] \in {"connecting", "reconnecting", "resetting", "calling"}
       => tok[at[a]].type # "PUBLISH"
  /\ \A t \in Token : tok[t].type = "PUBLISH" => pending[t] <= 1
  /\ \A x \in Thread : pc[x] = "deliver" =>
       tok[at[x]].type = "PUBLISH" /\ pending[at[x]] = 0
  /\ \A x, y \in Thread :
       pc[x] = "deliver" /\ pc[y] = "deliver" /\ at[x] = at[y] => x = y

LEMMA InitDelivery == Init => DeliveryInv
  BY DEF Init, DeliveryInv, NewToken

\* A step that leaves types, the list and the places this is about alone.
LEMMA QuietDelivery ==
  ASSUME DeliveryInv, pending' = pending,
         \A t \in Token : tok'[t].type = tok[t].type, TypeOK,
         \A x \in Thread :
           pc'[x] \in {"connecting", "reconnecting", "resetting", "calling",
                      "deliver"} =>
             pc'[x] = pc[x] /\ at'[x] = at[x]
  PROVE  DeliveryInv'
<1>1. \A x \in Thread : pc[x] # "idle" => at[x] \in Token
  BY DEF TypeOK
<1> QED
  BY <1>1 DEF DeliveryInv, TypeOK

LEMMA BeginDelivery ==
  ASSUME TypeOK, DeliveryInv, NEW c \in App, NEW t \in Token,
         NEW type \in Types, NEW acked \in BOOLEAN, NEW p \in CallPc,
         Begin(c, t, NewToken(type, acked), p),
         p # "publishing" => type # "PUBLISH"
  PROVE  DeliveryInv'
<1>1. /\ \A x \in Thread : pc[x] = "deliver" => at[x] # t /\ x # c
      /\ \A a \in App : at[a] # t
      /\ pending[t] = 0
  BY DEF TypeOK, Begin, Live
<1>2. /\ tok'[t].type = type /\ pending'[t] = 1
      /\ \A u \in Token \ {t} : tok'[u] = tok[u] /\ pending'[u] = pending[u]
  BY <1>1, NewTyped DEF TypeOK, Begin, AddToken
<1>3. /\ pc'[c] = p /\ at'[c] = t
      /\ \A x \in Thread \ {c} : pc'[x] = pc[x] /\ at'[x] = at[x]
  BY DEF TypeOK, Begin, Goto
<1>4. \A x \in Thread : pc[x] # "idle" => at[x] \in Token
  BY DEF TypeOK
<1> QED
  BY <1>1, <1>2, <1>3, <1>4 DEF DeliveryInv, TypeOK

LEMMA RemoveDelivery ==
  ASSUME TypeOK, DeliveryInv, NEW x \in Thread, at[x] \in Token,
         pending[at[x]] > 0, RemoveToken(x), tok' = tok
  PROVE  DeliveryInv'
<1>1. \A y \in Thread : pc[y] = "deliver" => at[y] # at[x] /\ y # x
  BY DEF DeliveryInv, TypeOK
<1>2. /\ pending'[at[x]] = pending[at[x]] - 1
      /\ \A u \in Token \ {at[x]} : pending'[u] = pending[u]
  BY DEF TypeOK, RemoveToken
<1>3. \A y \in Thread \ {x} : pc'[y] = pc[y] /\ at'[y] = at[y]
  BY DEF TypeOK, RemoveToken, Goto
<1>4. \/ pc'[x] = "idle"
      \/ pc'[x] = "deliver" /\ at'[x] = at[x] /\ tok[at[x]].type = "PUBLISH"
  BY DEF TypeOK, RemoveToken, Goto
<1>5. \A y \in Thread : pc[y] # "idle" => at[y] \in Token
  BY DEF TypeOK
<1>6. /\ \A a \in App :
           pc'[a] \in {"connecting", "reconnecting", "resetting", "calling"}
             => tok[at'[a]].type # "PUBLISH"
      /\ \A t \in Token : tok[t].type = "PUBLISH" => pending'[t] <= 1
  BY <1>2, <1>3, <1>4 DEF DeliveryInv, TypeOK
<1>7. /\ \A y \in Thread : pc'[y] = "deliver" =>
           tok[at'[y]].type = "PUBLISH" /\ pending'[at'[y]] = 0
      /\ \A y, z \in Thread :
           pc'[y] = "deliver" /\ pc'[z] = "deliver" /\ at'[y] = at'[z] => y = z
  BY <1>1, <1>2, <1>3, <1>4, <1>5 DEF DeliveryInv, TypeOK
<1> QED
  BY <1>6, <1>7 DEF DeliveryInv

LEMMA NextDelivery ==
  TypeOK /\ PendingAccounted /\ DeliveryInv /\ [Next]_vars => DeliveryInv'
<1> SUFFICES ASSUME TypeOK, PendingAccounted, DeliveryInv, [Next]_vars
             PROVE  DeliveryInv'
  OBVIOUS
<1> USE AsyncAssumption
<1>1. ASSUME NEW a \in App, NEW t \in Token,
             Connect(t) \/ (\E kind \in Kind : Request(a, t, kind))
                        \/ (\E acked \in BOOLEAN : Publish(a, t, acked))
      PROVE  DeliveryInv'
  BY <1>1, BeginsWith, BeginDelivery
<1>2. CASE Reconnect
  <2>1. connTok_ \in Token /\ tok[connTok_].type = "CONNECT"
    BY <1>2 DEF TypeOK, Reconnect
  <2>2. /\ pending' = pending
        /\ \A t \in Token : tok'[t].type = tok[t].type
    BY <1>2, <2>1, ResetTyped DEF TypeOK, Reconnect
  <2>3. /\ pc'[Main] = "resetting" /\ at'[Main] = connTok_
        /\ \A x \in Thread \ {Main} : pc'[x] = pc[x] /\ at'[x] = at[x]
    BY <1>2 DEF TypeOK, Reconnect, Goto
  <2>4. \A x \in Thread : pc[x] # "idle" => at[x] \in Token
    BY DEF TypeOK
  <2> QED
    BY <2>1, <2>2, <2>3, <2>4 DEF DeliveryInv
<1>3. CASE ReconnectAdds
  <2> DEFINE t == at[Main]
  <2>1. /\ t \in Token /\ tok[t].type # "PUBLISH" /\ tok' = tok
        /\ \A u \in Token \ {t} : pending'[u] = pending[u]
    BY <1>3 DEF TypeOK, DeliveryInv, ReconnectAdds, AddToken
  <2>2. /\ pc'[Main] = "reconnecting" /\ at'[Main] = t
        /\ \A x \in Thread \ {Main} : pc'[x] = pc[x] /\ at'[x] = at[x]
    BY <1>3 DEF TypeOK, ReconnectAdds, Goto
  <2>3. \A x \in Thread : pc[x] # "idle" => at[x] \in Token
    BY DEF TypeOK
  <2> QED
    BY <2>1, <2>2, <2>3 DEF DeliveryInv
<1>4. CASE SetCallback
  BY <1>4, QuietDelivery DEF SetCallback
<1>5. ASSUME NEW a \in App, Accept(a) PROVE DeliveryInv'
  BY <1>5, QuietDelivery DEF TypeOK, Accept, Goto
<1>6. ASSUME NEW a \in App, Refuse(a) PROVE DeliveryInv'
  <2>1. at[a] \in Token
    BY <1>6 DEF TypeOK, Refuse
  <2>2. pending[at[a]] > 0
    BY <1>6, <2>1, InPlayIsPending DEF Refuse
  <2> QED
    BY <1>6, <2>1, <2>2, RemoveDelivery DEF Refuse
<1>7. ASSUME NEW a \in App, SetMessageId(a) PROVE DeliveryInv'
  <2>1. \A t \in Token : tok'[t].type = tok[t].type
    BY <1>7 DEF TypeOK, SetMessageId, TokenMembers
  <2> QED
    BY <1>7, <2>1, QuietDelivery DEF TypeOK, SetMessageId, Goto
<1>8. ASSUME NEW x \in Thread, DeliveryReturns(x) PROVE DeliveryInv'
  BY <1>8, QuietDelivery DEF TypeOK, DeliveryReturns, Goto
<1>9. ASSUME NEW a \in App, Wait(a) \/ WaitFor(a) PROVE DeliveryInv'
  BY <1>9, QuietDelivery
     DEF TypeOK, Wait, WaitFor, WaitReturns, WaitGoesOn, Goto
<1>10. ASSUME NEW a \in App, WakeUnsignalled(a) PROVE DeliveryInv'
  BY <1>10, QuietDelivery DEF TypeOK, WakeUnsignalled, Woken, Goto
<1>11. ASSUME NEW a \in App, Drop(a) PROVE DeliveryInv'
  BY <1>11, QuietDelivery DEF TypeOK, Drop, Goto
<1>12. ASSUME NEW a \in App, NEW b \in App, Share(a, b) PROVE DeliveryInv'
  BY <1>12, QuietDelivery DEF TypeOK, Share, Goto
<1>13. ASSUME NEW l \in Library, NEW t \in Token,
              OnSuccess(l, t) \/ OnFailure(l, t)
       PROVE  DeliveryInv'
  <2>1. PICK ok \in BOOLEAN, data \in BOOLEAN, code \in {"none", "good", "bad"} :
          Answer(l, t, Answered(t, ok, data, code))
    BY <1>13 DEF OnSuccess, OnFailure
  <2>2. Answered(t, ok, data, code).type = tok[t].type
    BY DEF TypeOK, Answered, TokenMembers
  <2>3. \A u \in Token : tok'[u].type = tok[u].type
    BY <2>1, <2>2 DEF TypeOK, Answer
  <2> QED
    BY <2>1, <2>3, QuietDelivery DEF TypeOK, Answer, Goto
<1>14. ASSUME NEW l \in Library, ListenerReturns(l) PROVE DeliveryInv'
  BY <1>14, QuietDelivery DEF TypeOK, ListenerReturns, Goto
<1>15. ASSUME NEW l \in Library, Signal(l) PROVE DeliveryInv'
  BY <1>15, QuietDelivery DEF TypeOK, Signal, Woken
<1>16. ASSUME NEW l \in Library, RemoveAnswered(l) PROVE DeliveryInv'
  <2>1. at[l] \in Token
    BY <1>16 DEF TypeOK, RemoveAnswered
  <2>2. pending[at[l]] > 0
    BY <1>16, <2>1, InPlayIsPending DEF RemoveAnswered, AnswerPc
  <2> QED
    BY <1>16, <2>1, <2>2, RemoveDelivery DEF RemoveAnswered
<1>17. CASE UNCHANGED vars
  BY <1>17, QuietDelivery DEF vars
<1> QED
  BY <1>1, <1>2, <1>3, <1>4, <1>5, <1>6, <1>7, <1>8, <1>9, <1>10, <1>11,
     <1>12, <1>13, <1>14, <1>15, <1>16, <1>17 DEF Next

LEMMA DeliveryInvariant == Spec => [](TypeOK /\ PendingAccounted /\ DeliveryInv)
<1>1. TypeOK /\ PendingAccounted /\ DeliveryInv /\ [Next]_vars
        => (TypeOK /\ PendingAccounted /\ DeliveryInv)'
  BY NextTyped, NextAccounted, NextDelivery
<1> QED
  BY <1>1, InitTyped, InitAccounted, InitDelivery, PTL DEF Spec

\* DeliveryIsLast: when delivery_complete() runs, nothing else in the library
\* knows the token, so that it runs at most once for each message.
THEOREM DeliveredOnceAndLast == Spec => []DeliveryIsLast
<1>1. TypeOK /\ PendingAccounted /\ DeliveryInv => DeliveryIsLast
  <2> SUFFICES ASSUME TypeOK, PendingAccounted, DeliveryInv,
                      NEW x \in Thread, pc[x] = "deliver"
               PROVE  /\ pending[at[x]] = 0 /\ open[at[x]] = 0
                      /\ \A y \in Thread \ {x} : at[y] = at[x] =>
                           y \in App /\ pc[y] \notin CallPc \cup {"deliver"}
    BY DEF DeliveryIsLast
  <2>1. at[x] \in Token /\ at[x] # Null
    BY AsyncAssumption DEF TypeOK
  <2>2. pending[at[x]] = 0
    BY DEF DeliveryInv
  <2>3. /\ ~(open[at[x]] > 0)
        /\ \A a \in App : at[a] = at[x] => pc[a] \notin CallPc
        /\ \A l \in Library : at[l] = at[x] => pc[l] \notin AnswerPc
    BY <2>1, <2>2, InPlayIsPending
  <2>4. open[at[x]] = 0
    BY <2>1, <2>3 DEF TypeOK
  <2>5. \A y \in Thread \ {x} : at[y] = at[x] => pc[y] # "deliver"
    BY DEF DeliveryInv
  <2>6. \A l \in Library \ {x} : at[l] # at[x]
    BY <2>1, <2>3, <2>5 DEF TypeOK, AnswerPc
  <2> QED
    BY <2>2, <2>3, <2>4, <2>5, <2>6
<1> QED
  BY <1>1, DeliveryInvariant, PTL

-----------------------------------------------------------------------------
(* Message ids                                                             *)

\* A message in flight has its id, or publish() is about to store it.
IdInv ==
  \A t \in Token :
    open[t] > 0 /\ tok[t].type = "PUBLISH" /\ tok[t].acked =>
      tok[t].msgId \/ \E a \in App : at[a] = t /\ pc[a] = "sent"

LEMMA QuietId ==
  ASSUME IdInv, open' = open,
         \A t \in Token :
           /\ tok'[t].type = tok[t].type /\ tok'[t].acked = tok[t].acked
           /\ tok'[t].msgId = tok[t].msgId,
         \A a \in App : pc[a] = "sent" => pc'[a] = "sent" /\ at'[a] = at[a]
  PROVE  IdInv'
  BY DEF IdInv

LEMMA NextId ==
  TypeOK /\ PendingAccounted /\ DeliveryInv /\ IdInv /\ [Next]_vars => IdInv'
<1> SUFFICES ASSUME TypeOK, PendingAccounted, DeliveryInv, IdInv, [Next]_vars
             PROVE  IdInv'
  OBVIOUS
<1> USE AsyncAssumption
<1>1. ASSUME NEW b \in App, NEW t \in Token,
             Connect(t) \/ (\E kind \in Kind : Request(b, t, kind))
                        \/ (\E acked \in BOOLEAN : Publish(b, t, acked))
      PROVE  IdInv'
  <2>1. PICK c \in App, type \in Types, acked \in BOOLEAN, p \in CallPc :
          Begin(c, t, NewToken(type, acked), p)
    BY <1>1, BeginsWith
  <2>2. pending[t] = 0 /\ open[t] \in Nat
    BY <2>1 DEF TypeOK, Begin, Live
  <2>3. ~(open[t] > 0)
    BY <2>2, InPlayIsPending
  <2>4. /\ open' = open
        /\ \A u \in Token \ {t} : tok'[u] = tok[u]
        /\ \A a \in App : pc[a] = "sent" => pc'[a] = "sent" /\ at'[a] = at[a]
    BY <2>1 DEF TypeOK, Begin, Goto
  <2> QED
    BY <2>3, <2>4 DEF IdInv
<1>2. CASE Reconnect
  <2>1. \A t \in Token :
          /\ tok'[t].type = tok[t].type /\ tok'[t].acked = tok[t].acked
          /\ tok'[t].msgId = tok[t].msgId
    BY <1>2 DEF TypeOK, TokenMembers, Reconnect, Reset
  <2> QED
    BY <1>2, <2>1, QuietId DEF TypeOK, Reconnect, Goto
<1>3. CASE ReconnectAdds
  BY <1>3, QuietId DEF TypeOK, ReconnectAdds, Goto
<1>4. CASE SetCallback
  BY <1>4, QuietId DEF SetCallback
<1>5. ASSUME NEW b \in App, Accept(b) PROVE IdInv'
  <2>1. /\ at[b] \in Token /\ tok' = tok
        /\ \A u \in Token \ {at[b]} : open'[u] = open[u]
        /\ \A a \in App : pc[a] = "sent" => pc'[a] = "sent" /\ at'[a] = at[a]
    BY <1>5 DEF TypeOK, Accept, Goto
  <2>2. CASE pc[b] = "publishing"
    <3>1. pc'[b] = "sent" /\ at'[b] = at[b]
      BY <1>5, <2>2 DEF TypeOK, Accept, Goto
    <3> QED
      BY <2>1, <3>1 DEF IdInv
  <2>3. CASE pc[b] # "publishing"
    <3>1. tok[at[b]].type # "PUBLISH"
      BY <1>5, <2>3 DEF DeliveryInv, Accept
    <3> QED
      BY <2>1, <3>1 DEF IdInv
  <2> QED
    BY <2>2, <2>3
<1>6. ASSUME NEW b \in App, Refuse(b) PROVE IdInv'
  BY <1>6, QuietId DEF TypeOK, Refuse, RemoveToken, Goto
<1>7. ASSUME NEW b \in App, SetMessageId(b) PROVE IdInv'
  <2>1. /\ at[b] \in Token /\ open' = open
        /\ tok'[at[b]].acked = tok[at[b]].acked
        /\ tok'[at[b]].msgId = tok[at[b]].acked
        /\ \A u \in Token \ {at[b]} : tok'[u] = tok[u]
        /\ \A a \in App \ {b} : pc'[a] = pc[a] /\ at'[a] = at[a]
    BY <1>7 DEF TypeOK, TokenMembers, SetMessageId, Goto
  <2> QED
    BY <2>1 DEF IdInv
<1>8. ASSUME NEW x \in Thread, DeliveryReturns(x) PROVE IdInv'
  BY <1>8, QuietId DEF TypeOK, DeliveryReturns, Goto
<1>9. ASSUME NEW a \in App, Wait(a) \/ WaitFor(a) PROVE IdInv'
  BY <1>9, QuietId
     DEF TypeOK, Wait, WaitFor, WaitReturns, WaitGoesOn, Goto
<1>10. ASSUME NEW a \in App, WakeUnsignalled(a) PROVE IdInv'
  BY <1>10, QuietId DEF TypeOK, WakeUnsignalled, Asleep, Woken, Goto
<1>11. ASSUME NEW a \in App, Drop(a) PROVE IdInv'
  BY <1>11, QuietId DEF TypeOK, Drop, Goto
<1>12. ASSUME NEW a \in App, NEW b \in App, Share(a, b) PROVE IdInv'
  BY <1>12, QuietId DEF TypeOK, Share, Goto
<1>13. ASSUME NEW l \in Library, NEW t \in Token,
              OnSuccess(l, t) \/ OnFailure(l, t)
       PROVE  IdInv'
  <2>1. PICK ok \in BOOLEAN, data \in BOOLEAN, code \in {"none", "good", "bad"} :
          Answer(l, t, Answered(t, ok, data, code))
    BY <1>13 DEF OnSuccess, OnFailure
  <2>2. LET new == Answered(t, ok, data, code) IN
          /\ new.type = tok[t].type /\ new.acked = tok[t].acked
          /\ new.msgId \in {tok[t].msgId, tok[t].acked}
    BY DEF TypeOK, Answered, TokenMembers
  <2>3. /\ open'[t] < open[t]
        /\ tok'[t].type = tok[t].type /\ tok'[t].acked = tok[t].acked
        /\ tok'[t].msgId \in {tok[t].msgId, tok[t].acked}
        /\ \A u \in Token \ {t} : tok'[u] = tok[u] /\ open'[u] = open[u]
        /\ \A a \in App : pc'[a] = pc[a] /\ at'[a] = at[a]
    BY <2>1, <2>2 DEF TypeOK, Answer, Goto
  <2>4. open[t] \in Nat /\ open'[t] \in Int
    BY <2>1 DEF TypeOK, Answer
  <2> QED
    BY <2>3, <2>4 DEF IdInv
<1>14. ASSUME NEW l \in Library, ListenerReturns(l) PROVE IdInv'
  BY <1>14, QuietId DEF TypeOK, ListenerReturns, Goto
<1>15. ASSUME NEW l \in Library, Signal(l) PROVE IdInv'
  BY <1>15, QuietId DEF TypeOK, Signal, Asleep, Woken
<1>16. ASSUME NEW l \in Library, RemoveAnswered(l) PROVE IdInv'
  BY <1>16, QuietId DEF TypeOK, RemoveAnswered, RemoveToken, Goto
<1>17. CASE UNCHANGED vars
  BY <1>17, QuietId DEF vars
<1> QED
  BY <1>1, <1>2, <1>3, <1>4, <1>5, <1>6, <1>7, <1>8, <1>9, <1>10, <1>11,
     <1>12, <1>13, <1>14, <1>15, <1>16, <1>17 DEF Next

\* ReturnedIsListed: get_pending_delivery_tokens() finds every message that is
\* on its way once publish() has returned.
THEOREM ReturnedStaysListed == Spec => []ReturnedIsListed
<1>1. Init => IdInv
  BY DEF Init, IdInv
<1>2. TypeOK /\ PendingAccounted /\ DeliveryInv /\ IdInv /\ [Next]_vars
        => (TypeOK /\ PendingAccounted /\ DeliveryInv /\ IdInv)'
  BY NextTyped, NextAccounted, NextDelivery, NextId
<1>3. TypeOK /\ PendingAccounted /\ IdInv => ReturnedIsListed
  BY InPlayIsPending DEF IdInv, ReturnedIsListed, PendingDeliveryTokens
<1> QED
  BY <1>1, <1>2, <1>3, InitTyped, InitAccounted, InitDelivery, PTL DEF Spec

-----------------------------------------------------------------------------
(* Results                                                                 *)

\* A token that was never reset while an answer was to come has at most one
\* command, and no error stored before its answer.
ResultInv ==
  \A t \in Token : ~tok[t].mixed =>
    /\ pending[t] <= 1
    /\ pc[Main] = "resetting" /\ at[Main] = t =>
         pending[t] = 0 /\ ~tok[t].complete
    /\ ~tok[t].complete => tok[t].rc /\ tok[t].reason
    /\ tok[t].complete =>
         /\ open[t] = 0
         /\ \A a \in App : at[a] = t => pc[a] \notin CallPc
         /\ tok[t].rc /\ tok[t].reason <=> tok[t].answer = "good"

LEMMA InitResult == Init => ResultInv
  BY DEF Init, ResultInv, NewToken

\* A step that takes no token into the C library, a call or the list.
LEMMA QuietResult ==
  ASSUME TypeOK, ResultInv, UNCHANGED <<tok, open>>,
         pending' \in [Token -> Nat],
         \A t \in Token : pending'[t] <= pending[t],
         \A a \in App :
           pc'[a] \in CallPc \cup {"resetting"} =>
             pc'[a] = pc[a] /\ at'[a] = at[a]
  PROVE  ResultInv'
<1> SUFFICES ASSUME NEW t \in Token, ~tok[t].mixed
             PROVE  /\ pending'[t] <= 1
                    /\ pc'[Main] = "resetting" /\ at'[Main] = t =>
                         pending'[t] = 0 /\ ~tok[t].complete
                    /\ ~tok[t].complete => tok[t].rc /\ tok[t].reason
                    /\ tok[t].complete =>
                         /\ open[t] = 0
                         /\ \A a \in App : at'[a] = t => pc'[a] \notin CallPc
                         /\ tok[t].rc /\ tok[t].reason <=> tok[t].answer = "good"
  BY DEF ResultInv
<1>1. pending[t] \in Nat /\ pending'[t] \in Nat /\ pending'[t] <= pending[t]
  BY DEF TypeOK
<1>2. pending'[t] <= 1
  BY <1>1 DEF ResultInv
<1>3. pc'[Main] = "resetting" /\ at'[Main] = t =>
        pending'[t] = 0 /\ ~tok[t].complete
  BY <1>1 DEF ResultInv
<1>4. tok[t].complete => \A a \in App : at'[a] = t => pc'[a] \notin CallPc
  BY DEF ResultInv
<1> QED
  BY <1>2, <1>3, <1>4 DEF ResultInv

LEMMA NextResult ==
  TypeOK /\ PendingAccounted /\ ResultInv /\ [Next]_vars => ResultInv'
<1> SUFFICES ASSUME TypeOK, PendingAccounted, ResultInv, [Next]_vars
             PROVE  ResultInv'
  OBVIOUS
<1> USE AsyncAssumption
<1>0. pending \in [Token -> Nat]
  BY DEF TypeOK
<1>1. ASSUME NEW b \in App, NEW t \in Token,
             Connect(t) \/ (\E kind \in Kind : Request(b, t, kind))
                        \/ (\E acked \in BOOLEAN : Publish(b, t, acked))
      PROVE  ResultInv'
  <2>1. PICK c \in App, type \in Types, acked \in BOOLEAN, p \in CallPc :
          Begin(c, t, NewToken(type, acked), p)
    BY <1>1, BeginsWith
  <2>2. pending[t] = 0 /\ at[Main] # t
    BY <2>1 DEF TypeOK, Begin, Live
  <2>3. /\ pending'[t] = 1 /\ open' = open
        /\ tok'[t] = NewToken(type, acked)
        /\ \A u \in Token \ {t} : tok'[u] = tok[u] /\ pending'[u] = pending[u]
        /\ pc'[c] = p /\ at'[c] = t
        /\ \A a \in App \ {c} : pc'[a] = pc[a] /\ at'[a] = at[a]
    BY <2>1, <2>2 DEF TypeOK, Begin, AddToken, Goto
  <2>4. /\ ~tok'[t].complete /\ tok'[t].rc /\ tok'[t].reason
    BY <2>3 DEF NewToken
  <2>5. ~(pc'[Main] = "resetting" /\ at'[Main] = t)
    BY <2>2, <2>3
  <2> QED
    BY <2>3, <2>4, <2>5 DEF ResultInv
<1>2. CASE Reconnect
  <2> DEFINE t == connTok_
  <2>1. t \in Token /\ tok[t] \in TokenMembers
    BY <1>2 DEF TypeOK, Reconnect
  <2>2. /\ ~tok'[t].complete /\ tok'[t].rc /\ tok'[t].reason
        /\ ~tok'[t].mixed => ~(pending[t] > 0)
        /\ \A u \in Token \ {t} : tok'[u] = tok[u]
    BY <1>2, <2>1 DEF TypeOK, Reconnect, Reset, TokenMembers
  <2>3. /\ pending' = pending /\ open' = open /\ connTok_' = connTok_
        /\ pc'[Main] = "resetting" /\ at'[Main] = t
        /\ \A a \in App \ {Main} : pc'[a] = pc[a] /\ at'[a] = at[a]
    BY <1>2 DEF TypeOK, Reconnect, Goto
  <2>4. ~tok'[t].mixed => pending[t] = 0
    BY <1>0, <2>1, <2>2
  <2> QED
    BY <2>1, <2>2, <2>3, <2>4 DEF ResultInv
<1>3. CASE ReconnectAdds
  <2>1. PICK t \in Token : t = at[Main]
    BY <1>3 DEF TypeOK, ReconnectAdds
  <2>2. /\ pending'[t] = pending[t] + 1 /\ open' = open /\ tok' = tok
        /\ \A u \in Token \ {t} : pending'[u] = pending[u]
        /\ pc[Main] = "resetting"
        /\ pc'[Main] = "reconnecting" /\ at'[Main] = t
        /\ \A a \in App \ {Main} : pc'[a] = pc[a] /\ at'[a] = at[a]
    BY <1>3, <2>1 DEF TypeOK, ReconnectAdds, AddToken, Goto
  <2>3. ~tok[t].mixed => pending[t] = 0 /\ ~tok[t].complete
    BY <2>1, <2>2 DEF ResultInv
  <2> QED
    BY <2>2, <2>3 DEF ResultInv
<1>4. CASE SetCallback
  BY <1>0, <1>4, QuietResult DEF SetCallback
<1>5. ASSUME NEW b \in App, Accept(b) PROVE ResultInv'
  <2>1. PICK t \in Token : t = at[b]
    BY <1>5 DEF TypeOK, Accept
  <2>2. /\ pending' = pending /\ tok' = tok
        /\ \A u \in Token \ {t} : open'[u] = open[u]
        /\ pc'[b] \in {"sent", "idle"}
        /\ \A a \in App \ {b} : pc'[a] = pc[a] /\ at'[a] = at[a]
    BY <1>5, <2>1 DEF TypeOK, Accept, Goto
  <2>3. ~tok[t].mixed => ~tok[t].complete
    BY <1>5, <2>1 DEF ResultInv, Accept
  <2> QED
    BY <2>2, <2>3 DEF ResultInv
<1>6. ASSUME NEW b \in App, Refuse(b) PROVE ResultInv'
  <2>1. at[b] \in Token
    BY <1>6 DEF TypeOK, Refuse
  <2>2. /\ pending' \in [Token -> Nat]
        /\ \A t \in Token : pending'[t] <= pending[t]
    BY <1>6, <2>1 DEF TypeOK, Refuse, RemoveToken
  <2> QED
    BY <1>6, <2>2, QuietResult DEF TypeOK, Refuse, RemoveToken, Goto
<1>7. ASSUME NEW b \in App, SetMessageId(b) PROVE ResultInv'
  <2>1. /\ pending' = pending /\ open' = open
        /\ \A t \in Token :
             /\ tok'[t].mixed = tok[t].mixed /\ tok'[t].complete = tok[t].complete
             /\ tok'[t].rc = tok[t].rc /\ tok'[t].reason = tok[t].reason
             /\ tok'[t].answer = tok[t].answer
        /\ pc'[b] = "idle"
        /\ \A a \in App \ {b} : pc'[a] = pc[a] /\ at'[a] = at[a]
    BY <1>7 DEF TypeOK, TokenMembers, SetMessageId, Goto
  <2> QED
    BY <2>1 DEF ResultInv
<1>8. ASSUME NEW x \in Thread, DeliveryReturns(x) PROVE ResultInv'
  BY <1>0, <1>8, QuietResult DEF TypeOK, DeliveryReturns, Goto
<1>9. ASSUME NEW a \in App, Wait(a) \/ WaitFor(a) PROVE ResultInv'
  BY <1>0, <1>9, QuietResult
     DEF TypeOK, Wait, WaitFor, WaitReturns, WaitGoesOn, Goto
<1>10. ASSUME NEW a \in App, WakeUnsignalled(a) PROVE ResultInv'
  BY <1>0, <1>10, QuietResult DEF TypeOK, WakeUnsignalled, Asleep, Woken, Goto
<1>11. ASSUME NEW a \in App, Drop(a) PROVE ResultInv'
  BY <1>0, <1>11, QuietResult DEF TypeOK, Drop, Goto
<1>12. ASSUME NEW a \in App, NEW b \in App, Share(a, b) PROVE ResultInv'
  BY <1>0, <1>12, QuietResult DEF TypeOK, Share, Goto
<1>13. ASSUME NEW l \in Library, NEW t \in Token,
              OnSuccess(l, t) \/ OnFailure(l, t)
       PROVE  ResultInv'
  <2>1. PICK ok \in BOOLEAN, data \in BOOLEAN, code \in {"none", "good", "bad"} :
          Answer(l, t, Answered(t, ok, data, code)) /\ (~ok => ~data \/ code # "none")
    BY <1>13 DEF OnSuccess, OnFailure
  <2> DEFINE new == Answered(t, ok, data, code)
  <2>2. /\ pending' = pending /\ open[t] > 0 /\ open'[t] = open[t] - 1
        /\ tok'[t] = new
        /\ \A u \in Token \ {t} : tok'[u] = tok[u] /\ open'[u] = open[u]
        /\ \A a \in App : pc'[a] = pc[a] /\ at'[a] = at[a]
    BY <2>1 DEF TypeOK, Answer, Goto
  <2>3. tok[t] \in TokenMembers /\ open[t] \in Nat /\ pending[t] \in Nat
    BY DEF TypeOK
  <2>4. /\ new.mixed = tok[t].mixed /\ new.complete = TRUE /\ new.rc = ok
        /\ new.answer = (IF ok /\ code # "bad" THEN "good" ELSE "bad")
        /\ new.reason = (IF code = "none" THEN tok[t].reason ELSE code = "good")
    BY <2>3, Zenon DEF Answered, TokenMembers
  <2> HIDE DEF new
  <2>5. ASSUME ~tok[t].mixed
        PROVE  /\ open'[t] = 0 /\ tok[t].rc /\ tok[t].reason
               /\ ~(pc[Main] = "resetting" /\ at[Main] = t)
               /\ \A a \in App : at[a] = t => pc[a] \notin CallPc
    <3>1. pending[t] <= 1 /\ pending[t] > 0
      BY <2>2, <2>5, InPlayIsPending DEF ResultInv
    <3>2. open[t] + Cardinality(Callers(t)) <= 1
      BY <2>3, <3>1, PartsFinite DEF PendingAccounted
    <3>3. open[t] = 1 /\ Cardinality(Callers(t)) = 0
      BY <2>2, <2>3, <3>2, PartsFinite
    <3>4. Callers(t) = {}
      BY <3>3, PartsFinite, FS_EmptySet
    <3>5. ~tok[t].complete
      BY <2>5, <3>3 DEF ResultInv
    <3> QED
      BY <2>2, <2>5, <3>1, <3>3, <3>4, <3>5 DEF ResultInv, Callers
  <2>6. ~tok[t].mixed => (new.rc /\ new.reason <=> new.answer = "good")
    BY <2>1, <2>4, <2>5
  <2> QED
    BY <2>2, <2>4, <2>5, <2>6 DEF ResultInv
<1>14. ASSUME NEW l \in Library, ListenerReturns(l) PROVE ResultInv'
  BY <1>0, <1>14, QuietResult DEF TypeOK, ListenerReturns, Goto
<1>15. ASSUME NEW l \in Library, Signal(l) PROVE ResultInv'
  BY <1>0, <1>15, QuietResult DEF TypeOK, Signal, Asleep, Woken
<1>16. ASSUME NEW l \in Library, RemoveAnswered(l) PROVE ResultInv'
  <2>1. at[l] \in Token
    BY <1>16 DEF TypeOK, RemoveAnswered
  <2>2. /\ pending' \in [Token -> Nat]
        /\ \A t \in Token : pending'[t] <= pending[t]
    BY <1>16, <2>1 DEF TypeOK, RemoveAnswered, RemoveToken
  <2> QED
    BY <1>16, <2>2, QuietResult DEF TypeOK, RemoveAnswered, RemoveToken, Goto
<1>17. CASE UNCHANGED vars
  BY <1>0, <1>17, QuietResult DEF vars
<1> QED
  BY <1>1, <1>2, <1>3, <1>4, <1>5, <1>6, <1>7, <1>8, <1>9, <1>10, <1>11,
     <1>12, <1>13, <1>14, <1>15, <1>16, <1>17 DEF Next

\* ResultIsAnswer: a wait throws exactly if the operation failed, also on a
\* token that reconnect() uses again after its answer.
THEOREM ResultsAreAnswers == Spec => []ResultIsAnswer
<1>1. TypeOK /\ PendingAccounted /\ ResultInv /\ [Next]_vars
        => (TypeOK /\ PendingAccounted /\ ResultInv)'
  BY NextTyped, NextAccounted, NextResult
<1>2. ResultInv => ResultIsAnswer
  BY DEF ResultInv, ResultIsAnswer
<1> QED
  BY <1>1, <1>2, InitTyped, InitAccounted, InitResult, PTL DEF Spec
=============================================================================
