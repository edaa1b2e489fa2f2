------------------------- MODULE ThreadQueueProofs --------------------------
(***************************************************************************)
(* Proofs about ThreadQueue, for any readers, writers, items, capacities:  *)
(* the threads never all sleep, and every call is a step of BoundedFifo.   *)
(***************************************************************************)
EXTENDS ThreadQueue, SequenceTheorems, TLAPS

IInv == TypeOK /\ ItemIsAnnounced /\ PlaceIsAnnounced

USE DEF Thread, PutPc, GetPc, ForPc, SleepPc

-----------------------------------------------------------------------------
(* Type correctness                                                        *)

LEMMA InitTyped == Init => TypeOK
  BY QueueAssumption, EmptySeq DEF Init, TypeOK

LEMMA InsertTyped ==
  ASSUME TypeOK, NEW w \in Writer, NEW v \in Item, Insert(w, v)
  PROVE  TypeOK'
<1>1. que_' \in Seq(Item)
  BY AppendProperties DEF TypeOK, Insert
<1> QED
  BY <1>1, QueueAssumption DEF TypeOK, Insert, Goto

LEMMA PutWaitsTyped ==
  ASSUME TypeOK, NEW w \in Writer, NEW v \in Item, PutWaits(w, v)
  PROVE  TypeOK'
  BY QueueAssumption DEF TypeOK, PutWaits, Goto

LEMMA RemoveTyped ==
  ASSUME TypeOK, NEW r \in Reader, Remove(r)
  PROVE  TypeOK'
<1>1. que_' \in Seq(Item) /\ Head(que_) \in Item
  BY HeadTailProperties DEF TypeOK, Remove
<1> QED
  BY <1>1, QueueAssumption DEF TypeOK, Remove, Goto

LEMMA NextTyped == TypeOK /\ [Next]_vars => TypeOK'
<1> SUFFICES ASSUME TypeOK, [Next]_vars PROVE TypeOK'
  OBVIOUS
<1>1. ASSUME NEW w \in Writer, NEW v \in Item, Put(w, v) PROVE TypeOK'
  BY <1>1, InsertTyped, PutWaitsTyped DEF Put
<1>2. ASSUME NEW w \in Writer, NEW v \in Item, TryPut(w, v) PROVE TypeOK'
  <2>1. CASE Insert(w, v)
    BY <2>1, InsertTyped
  <2>2. CASE Full /\ ret' = [ret EXCEPT ![w] = "failed"]
             /\ UNCHANGED <<que_, cap_, pc, val, raised>>
    BY <2>2 DEF TypeOK
  <2> QED
    BY <1>2, <2>1, <2>2 DEF TryPut
<1>3. ASSUME NEW w \in Writer, PutResumes(w) PROVE TypeOK'
  <2>1. val[w] \in Item
    BY <1>3 DEF TypeOK, PutResumes
  <2> QED
    BY <1>3, <2>1, InsertTyped, PutWaitsTyped DEF PutResumes
<1>4. ASSUME NEW w \in Writer, NotifyNotEmpty(w) PROVE TypeOK'
  BY <1>4, QueueAssumption DEF TypeOK, NotifyNotEmpty, NotifyOne, Goto, Woken
<1>5. ASSUME NEW r \in Reader, Get(r) PROVE TypeOK'
  BY <1>5, RemoveTyped, QueueAssumption DEF Get, GetWaits, TypeOK, Goto
<1>6. ASSUME NEW r \in Reader, TryGetFor(r) PROVE TypeOK'
  BY <1>6, RemoveTyped, QueueAssumption DEF TryGetFor, GetWaits, TypeOK, Goto
<1>7. ASSUME NEW r \in Reader, TryGet(r) \/ ExpiredResumes(r) PROVE TypeOK'
  BY <1>7, RemoveTyped, QueueAssumption
     DEF TryGet, ExpiredResumes, GetFails, TypeOK, Goto
<1>8. ASSUME NEW r \in Reader, Expire(r) PROVE TypeOK'
  BY <1>8, QueueAssumption DEF Expire, TypeOK, Goto
<1>9. ASSUME NEW r \in Reader, NotifyNotFull(r) PROVE TypeOK'
  BY <1>9, QueueAssumption DEF TypeOK, NotifyNotFull, NotifyOne, Goto, Woken
<1>10. ASSUME NEW t \in Thread, WakeSpuriously(t) PROVE TypeOK'
  BY <1>10, QueueAssumption DEF TypeOK, WakeSpuriously, Goto, Woken
<1>11. ASSUME NEW cap \in Capacity, SetCapacity(cap) PROVE TypeOK'
  BY <1>11, QueueAssumption DEF TypeOK, SetCapacity
<1>12. CASE UNCHANGED vars
  BY <1>12 DEF vars, TypeOK
<1> QED
  BY <1>1, <1>2, <1>3, <1>4, <1>5, <1>6, <1>7, <1>8, <1>9, <1>10, <1>11,
     <1>12 DEF Next, WriterResumes

-----------------------------------------------------------------------------
(* The announcements: whoever changes the queue is itself awake, so only   *)
(* the edge cases, first item and first place, need a notification.        *)

LEMMA InsertAnnounces ==
  ASSUME IInv, NEW w \in Writer, NEW v \in Item, Insert(w, v),
         pc[w] \in {"idle", "putWoken"}
  PROVE  ItemIsAnnounced' /\ PlaceIsAnnounced'
<1> USE DEF IInv, TypeOK, Insert, Goto, Asleep
<1>1. PlaceIsAnnounced'
  <2>1. ~Asleep(w)'
    OBVIOUS
  <2> QED
    BY <2>1 DEF PlaceIsAnnounced
<1>2. ItemIsAnnounced'
  <2>1. CASE que_ = <<>>
    BY <2>1 DEF ItemIsAnnounced
  <2>2. CASE que_ # <<>>
    <3>1. \A r \in Reader : pc'[r] = pc[r]
      BY QueueAssumption
    <3>2. \A u \in Writer : pc[u] = "notifyNotEmpty" => pc'[u] = pc[u]
      OBVIOUS
    <3> QED
      BY <2>2, <3>1, <3>2 DEF ItemIsAnnounced
  <2> QED
    BY <2>1, <2>2
<1> QED
  BY <1>1, <1>2

LEMMA PutWaitsAnnounces ==
  ASSUME IInv, NEW w \in Writer, NEW v \in Item, PutWaits(w, v),
         pc[w] \in {"idle", "putWoken"}
  PROVE  ItemIsAnnounced' /\ PlaceIsAnnounced'
<1> USE DEF IInv, TypeOK, PutWaits, Goto, Asleep
<1>1. PlaceIsAnnounced'
  BY DEF PlaceIsAnnounced, Full
<1>2. ItemIsAnnounced'
  <2>1. \A r \in Reader : pc'[r] = pc[r]
    BY QueueAssumption
  <2>2. \A u \in Writer : pc[u] = "notifyNotEmpty" => pc'[u] = pc[u]
    OBVIOUS
  <2> QED
    BY <2>1, <2>2 DEF ItemIsAnnounced
<1> QED
  BY <1>1, <1>2

LEMMA RemoveAnnounces ==
  ASSUME IInv, NEW r \in Reader, Remove(r), pc[r] # "notifyNotFull"
  PROVE  ItemIsAnnounced' /\ PlaceIsAnnounced'
<1> USE DEF IInv, TypeOK, Remove, Goto, Asleep
<1>1. ItemIsAnnounced'
  <2>1. ~Asleep(r)'
    OBVIOUS
  <2> QED
    BY <2>1 DEF ItemIsAnnounced
<1>2. PlaceIsAnnounced'
  <2>1. Len(que_') = Len(que_) - 1 /\ Len(que_) \in Nat
    BY HeadTailProperties, LenProperties
  <2>2. CASE Len(que_) = cap_
    BY <2>2 DEF PlaceIsAnnounced
  <2>3. CASE Len(que_) # cap_
    <3>1. ~Full' => ~Full
      <4>1. cap_' = cap_ /\ cap_ \in Nat
        OBVIOUS
      <4> HIDE DEF IInv, TypeOK, Remove, Goto
      <4> QED
        BY <2>1, <2>3, <4>1 DEF Full
    <3>2. \A w \in Writer : pc'[w] = pc[w]
      BY QueueAssumption
    <3>3. \A u \in Reader : pc[u] = "notifyNotFull" => pc'[u] = pc[u]
      OBVIOUS
    <3> QED
      BY <3>1, <3>2, <3>3 DEF PlaceIsAnnounced
  <2> QED
    BY <2>2, <2>3
<1> QED
  BY <1>1, <1>2

\* A reader that goes to sleep or gives up has seen the queue empty.
LEMMA EmptyAnnounces ==
  ASSUME IInv, NEW r \in Reader, pc[r] # "notifyNotFull", que_ = <<>>,
         NEW p, Goto(r, p), UNCHANGED <<que_, cap_, raised>>
  PROVE  ItemIsAnnounced' /\ PlaceIsAnnounced'
<1> USE DEF IInv, TypeOK, Goto, Asleep
<1>1. ItemIsAnnounced'
  BY DEF ItemIsAnnounced
<1>2. PlaceIsAnnounced'
  <2>1. \A w \in Writer : pc'[w] = pc[w]
    BY QueueAssumption
  <2>2. \A u \in Reader : pc[u] = "notifyNotFull" => pc'[u] = pc[u]
    OBVIOUS
  <2> QED
    BY <2>1, <2>2 DEF PlaceIsAnnounced, Full
<1> QED
  BY <1>1, <1>2

\* A thread that wakes up is awake; the others keep their notifications.
LEMMA WakingAnnounces ==
  ASSUME IInv, NEW t \in Thread, pc[t] \in SleepPc, NEW p,
         p \notin SleepPc, Goto(t, p), UNCHANGED <<que_, cap_, raised>>
  PROVE  ItemIsAnnounced' /\ PlaceIsAnnounced'
<1> USE DEF IInv, TypeOK, Goto, Asleep
<1>1. \A u \in Thread : pc[u] \in {"notifyNotEmpty", "notifyNotFull"}
                          => pc'[u] = pc[u]
  OBVIOUS
<1>2. \A u \in Thread : Asleep(u)' => Asleep(u)
  OBVIOUS
<1>3. ItemIsAnnounced'
  BY <1>1, <1>2 DEF ItemIsAnnounced
<1>4. PlaceIsAnnounced'
  BY <1>1, <1>2 DEF PlaceIsAnnounced, Full
<1> QED
  BY <1>3, <1>4

LEMMA NotifyNotEmptyAnnounces ==
  ASSUME IInv, NEW w \in Writer, NotifyNotEmpty(w)
  PROVE  ItemIsAnnounced' /\ PlaceIsAnnounced'
<1> USE DEF IInv, TypeOK, Asleep
<1> DEFINE S == {r \in Reader : pc[r] \in SleepPc}
<1>1. pc[w] = "notifyNotEmpty" /\ NotifyOne(w, S)
  BY DEF NotifyNotEmpty
<1>2. UNCHANGED <<que_, cap_, raised>>
  BY <1>1 DEF NotifyOne
<1>3. pc'[w] = "idle"
  BY <1>1, QueueAssumption DEF NotifyOne, Goto
<1>4. PlaceIsAnnounced'
  BY <1>3 DEF PlaceIsAnnounced
<1>5. ItemIsAnnounced'
  <2>1. CASE S = {}
    <3>1. PICK r \in Reader : TRUE
      BY QueueAssumption
    <3>2. ~Asleep(r)'
      BY <1>1, <2>1, QueueAssumption DEF NotifyOne, Goto
    <3> QED
      BY <3>2 DEF ItemIsAnnounced
  <2>2. CASE S # {}
    <3>1. PICK s \in S : pc' = [pc EXCEPT ![w] = "idle", ![s] = Woken(pc[s])]
      BY <1>1, <2>2 DEF NotifyOne
    <3>2. s \in Reader /\ ~Asleep(s)'
      BY <3>1, QueueAssumption DEF Woken
    <3> QED
      BY <3>2 DEF ItemIsAnnounced
  <2> QED
    BY <2>1, <2>2
<1> QED
  BY <1>4, <1>5

LEMMA NotifyNotFullAnnounces ==
  ASSUME IInv, NEW r \in Reader, NotifyNotFull(r)
  PROVE  ItemIsAnnounced' /\ PlaceIsAnnounced'
<1> USE DEF IInv, TypeOK, Asleep
<1> DEFINE S == {w \in Writer : pc[w] \in SleepPc}
<1>1. pc[r] = "notifyNotFull" /\ NotifyOne(r, S)
  BY DEF NotifyNotFull
<1>2. UNCHANGED <<que_, cap_, raised>>
  BY <1>1 DEF NotifyOne
<1>3. pc'[r] = "idle"
  BY <1>1, QueueAssumption DEF NotifyOne, Goto
<1>4. ItemIsAnnounced'
  BY <1>3 DEF ItemIsAnnounced
<1>5. PlaceIsAnnounced'
  <2>1. CASE S = {}
    <3>1. PICK w \in Writer : TRUE
      BY QueueAssumption
    <3>2. ~Asleep(w)'
      BY <1>1, <2>1, QueueAssumption DEF NotifyOne, Goto
    <3> QED
      BY <3>2 DEF PlaceIsAnnounced
  <2>2. CASE S # {}
    <3>1. PICK s \in S : pc' = [pc EXCEPT ![r] = "idle", ![s] = Woken(pc[s])]
      BY <1>1, <2>2 DEF NotifyOne
    <3>2. s \in Writer /\ ~Asleep(s)'
      BY <3>1, QueueAssumption DEF Woken
    <3> QED
      BY <3>2 DEF PlaceIsAnnounced
  <2> QED
    BY <2>1, <2>2
<1> QED
  BY <1>4, <1>5

LEMMA NextAnnounces == IInv /\ [Next]_vars => ItemIsAnnounced' /\ PlaceIsAnnounced'
<1> SUFFICES ASSUME IInv, [Next]_vars
             PROVE  ItemIsAnnounced' /\ PlaceIsAnnounced'
  OBVIOUS
<1> DEFINE Announced == ItemIsAnnounced /\ PlaceIsAnnounced
<1>1. ASSUME NEW w \in Writer, NEW v \in Item, Put(w, v) PROVE Announced'
  BY <1>1, InsertAnnounces, PutWaitsAnnounces DEF Put
<1>2. ASSUME NEW w \in Writer, NEW v \in Item, TryPut(w, v) PROVE Announced'
  <2>1. CASE UNCHANGED <<que_, cap_, pc, val, raised>>
    BY <2>1 DEF IInv, ItemIsAnnounced, PlaceIsAnnounced, Full, Asleep
  <2> QED
    BY <1>2, <2>1, InsertAnnounces DEF TryPut
<1>3. ASSUME NEW w \in Writer, PutResumes(w) PROVE Announced'
  <2>1. val[w] \in Item
    BY <1>3 DEF IInv, TypeOK, PutResumes
  <2> QED
    BY <1>3, <2>1, InsertAnnounces, PutWaitsAnnounces DEF PutResumes
<1>4. ASSUME NEW w \in Writer, NotifyNotEmpty(w) PROVE Announced'
  BY <1>4, NotifyNotEmptyAnnounces
<1>5. ASSUME NEW r \in Reader, Get(r) PROVE Announced'
  BY <1>5, RemoveAnnounces, EmptyAnnounces DEF Get, GetWaits
<1>6. ASSUME NEW r \in Reader, TryGetFor(r) PROVE Announced'
  BY <1>6, RemoveAnnounces, EmptyAnnounces DEF TryGetFor, GetWaits
<1>7. ASSUME NEW r \in Reader, TryGet(r) \/ ExpiredResumes(r) PROVE Announced'
  BY <1>7, RemoveAnnounces, EmptyAnnounces DEF TryGet, ExpiredResumes, GetFails
<1>8. ASSUME NEW r \in Reader, Expire(r) PROVE Announced'
  BY <1>8, WakingAnnounces DEF Expire
<1>9. ASSUME NEW r \in Reader, NotifyNotFull(r) PROVE Announced'
  BY <1>9, NotifyNotFullAnnounces
<1>10. ASSUME NEW t \in Thread, WakeSpuriously(t) PROVE Announced'
  <2>1. Woken(pc[t]) \notin SleepPc
    BY <1>10 DEF WakeSpuriously, Woken
  <2> QED
    BY <1>10, <2>1, WakingAnnounces DEF WakeSpuriously
<1>11. ASSUME NEW cap \in Capacity, SetCapacity(cap) PROVE Announced'
  <2>1. ItemIsAnnounced'
    BY <1>11 DEF IInv, SetCapacity, ItemIsAnnounced, Asleep
  <2>2. ~raised' /\ ~Full' => ~raised /\ ~Full
    <3>1. Len(que_) \in Nat /\ cap_ \in Nat /\ cap \in Nat
      BY QueueAssumption, LenProperties DEF IInv, TypeOK
    <3>2. cap_' = cap /\ que_' = que_ /\ (~raised' => ~raised /\ ~(cap > cap_))
      BY <1>11, Zenon DEF SetCapacity
    <3> QED
      BY <3>1, <3>2 DEF Full
  <2>3. PlaceIsAnnounced'
    BY <1>11, <2>2 DEF IInv, SetCapacity, PlaceIsAnnounced, Asleep
  <2> QED
    BY <2>1, <2>3
<1>12. CASE UNCHANGED vars
  BY <1>12 DEF vars, IInv, ItemIsAnnounced, PlaceIsAnnounced, Full, Asleep
<1> QED
  BY <1>1, <1>2, <1>3, <1>4, <1>5, <1>6, <1>7, <1>8, <1>9, <1>10, <1>11,
     <1>12 DEF Next, WriterResumes

\* The inductive invariant: types, and an announcement for every edge.
THEOREM QueueInvariance == Spec => []IInv
<1>1. Init => IInv
  <2> SUFFICES ASSUME Init PROVE IInv
    OBVIOUS
  <2>1. PICK w \in Writer : TRUE
    BY QueueAssumption
  <2>2. ~Asleep(w)
    BY DEF Init, Asleep
  <2>3. PlaceIsAnnounced
    BY <2>2 DEF PlaceIsAnnounced
  <2> QED
    BY <2>3, InitTyped DEF IInv, Init, ItemIsAnnounced
<1>2. IInv /\ [Next]_vars => IInv'
  BY NextTyped, NextAnnounces DEF IInv
<1> QED
  BY <1>1, <1>2, PTL DEF Spec

\* No step of thread_queue.h leaves an ill-formed queue or thread.
THEOREM QueueTypeCorrect == Spec => []TypeOK
  BY QueueInvariance, PTL DEF IInv

\* An item beside which all readers sleep is about to be announced.
THEOREM ItemsAnnounced == Spec => []ItemIsAnnounced
  BY QueueInvariance, PTL DEF IInv

\* A free place beside which all writers sleep is about to be announced.
THEOREM PlacesAnnounced == Spec => []PlaceIsAnnounced
  BY QueueInvariance, PTL DEF IInv

\* Unless the capacity is raised or 0, put() and get() never put all threads to
\* sleep: a queue that is full is not empty, and either edge is announced.
THEOREM NeverAllAsleep == Spec => []NotAllAsleep
<1>1. IInv => NotAllAsleep
  <2> SUFFICES ASSUME IInv, ~raised, cap_ # 0, \A t \in Thread : Asleep(t)
               PROVE  FALSE
    BY DEF NotAllAsleep
  <2>1. que_ = <<>>
    BY DEF IInv, ItemIsAnnounced, Asleep
  <2>2. Full
    BY DEF IInv, PlaceIsAnnounced, Asleep
  <2>3. Len(que_) = 0
    BY <2>1
  <2> QED
    BY <2>2, <2>3 DEF IInv, TypeOK, Full
<1> QED
  BY <1>1, QueueInvariance, PTL

-----------------------------------------------------------------------------
(* Refinement: each critical section is one step of the abstract queue,    *)
(* each notification, wake-up and time-out is none.                        *)

USE DEF Fifo!Thread

LEMMA WantKept ==
  ASSUME TypeOK, NEW t \in Thread, NEW p, Goto(t, p),
         \/ t \in Writer
         \/ pc[t] \in GetPc /\ p \in GetPc
         \/ pc[t] \in ForPc /\ p \in ForPc
         \/ pc[t] \in {"idle", "notifyNotFull"} /\ p \in {"idle", "notifyNotFull"}
  PROVE  Want' = Want
<1>1. ASSUME NEW r \in Reader PROVE Want'[r] = Want[r]
  BY <1>1, QueueAssumption DEF TypeOK, Goto, Want
<1> QED
  BY <1>1, Zenon DEF Want

LEMMA WantChanged ==
  ASSUME TypeOK, NEW r \in Reader, NEW p, Goto(r, p), NEW op,
         \/ p \in GetPc /\ op = "get"
         \/ p \in ForPc /\ op = "get_for"
         \/ p \in {"idle", "notifyNotFull"} /\ op = "none"
  PROVE  Want' = [Want EXCEPT ![r] = op]
<1>1. ASSUME NEW u \in Reader PROVE Want'[u] = [Want EXCEPT ![r] = op][u]
  BY <1>1 DEF TypeOK, Goto, Want
<1>2. Want' = [u \in Reader |-> Want'[u]]
  BY Zenon DEF Want
<1>3. [Want EXCEPT ![r] = op] = [u \in Reader |-> [Want EXCEPT ![r] = op][u]]
  BY DEF Want
<1> QED
  BY <1>1, <1>2, <1>3, Zenon

LEMMA InsertIsPut ==
  ASSUME TypeOK, NEW w \in Writer, NEW v \in Item, Insert(w, v),
         val[w] \in {Null, v}
  PROVE  Fifo!Put(w, v)
<1>1. Want' = Want
  BY WantKept DEF Insert
<1> QED
  BY <1>1 DEF Insert, Full, Fifo!Put, Fifo!Full

LEMMA PutWaitsIsWait ==
  ASSUME TypeOK, NEW w \in Writer, NEW v \in Item, PutWaits(w, v),
         val[w] = Null
  PROVE  Fifo!WaitToPut(w, v)
<1>1. Want' = Want
  BY WantKept DEF PutWaits
<1> QED
  BY <1>1 DEF PutWaits, Full, Fifo!WaitToPut, Fifo!Full

LEMMA RemoveIsGet ==
  ASSUME TypeOK, NEW r \in Reader, Remove(r)
  PROVE  Fifo!Get(r)
<1>1. Want' = [Want EXCEPT ![r] = "none"]
  BY WantChanged DEF Remove
<1> QED
  BY <1>1 DEF Remove, Fifo!Get

LEMMA GetWaitsIsWait ==
  ASSUME TypeOK, NEW r \in Reader, NEW p, GetWaits(r, p),
         \/ p = "getSleep" /\ pc[r] \in {"idle", "getWoken"}
         \/ p = "getForSleep" /\ pc[r] \in {"idle", "getForWoken"}
  PROVE  Fifo!WaitToGet(r) \/ UNCHANGED Fifo!vars
<1>1. CASE pc[r] = "idle"
  <2>1. PICK op \in {"get", "get_for"} : Want' = [Want EXCEPT ![r] = op]
    BY WantChanged DEF GetWaits
  <2>2. Want[r] = "none"
    BY <1>1 DEF Want
  <2> QED
    BY <2>1, <2>2 DEF GetWaits, Fifo!WaitToGet
<1>2. CASE pc[r] # "idle"
  <2>1. Want' = Want
    BY <1>2, WantKept DEF GetWaits
  <2> QED
    BY <2>1 DEF GetWaits, Fifo!vars
<1> QED
  BY <1>1, <1>2

LEMMA GetFailsIsFailure ==
  ASSUME TypeOK, NEW r \in Reader, GetFails(r), pc[r] \in {"idle", "getExpired"}
  PROVE  Fifo!GetFails(r)
<1>1. Want' = [Want EXCEPT ![r] = "none"]
  BY WantChanged DEF GetFails
<1>2. Want[r] # "get"
  BY DEF Want
<1> QED
  BY <1>1, <1>2 DEF GetFails, Fifo!GetFails

LEMMA NotifyIsStutter ==
  ASSUME TypeOK, NEW t \in Thread, pc[t] \in {"notifyNotEmpty", "notifyNotFull"},
         NEW S \in SUBSET Thread, \A s \in S : pc[s] \in SleepPc,
         NotifyOne(t, S)
  PROVE  UNCHANGED Fifo!vars
<1>1. Want' = Want
  <2>1. CASE S = {}
    BY <2>1, WantKept DEF NotifyOne, TypeOK
  <2>2. CASE S # {}
    <3>1. PICK s \in S : pc' = [pc EXCEPT ![t] = "idle", ![s] = Woken(pc[s])]
      BY <2>2 DEF NotifyOne
    <3>2. ASSUME NEW r \in Reader PROVE Want'[r] = Want[r]
      <4>1. CASE r = s
        <5>1. pc'[r] = Woken(pc[r])
          BY <3>1, <4>1 DEF TypeOK
        <5> QED
          BY <5>1, <4>1, <3>2, QueueAssumption DEF Want, Woken, TypeOK
      <4>2. CASE r # s
        BY <3>1, <3>2, <4>2 DEF Want, TypeOK
      <4> QED
        BY <4>1, <4>2
    <3> QED
      BY <3>2, Zenon DEF Want
  <2> QED
    BY <2>1, <2>2
<1> QED
  BY <1>1 DEF NotifyOne, Fifo!vars

LEMMA WakingIsStutter ==
  ASSUME TypeOK, NEW t \in Thread, NEW p, Goto(t, p),
         \/ pc[t] = "putSleep" /\ p = "putWoken"
         \/ pc[t] = "getSleep" /\ p = "getWoken"
         \/ pc[t] = "getForSleep" /\ p \in {"getForWoken", "getExpired"},
         UNCHANGED <<que_, cap_, val, ret>>
  PROVE  UNCHANGED Fifo!vars
<1>1. Want' = Want
  BY WantKept DEF TypeOK
<1> QED
  BY <1>1 DEF Fifo!vars

LEMMA StepRefines == TypeOK /\ [Next]_vars => [Fifo!Next]_Fifo!vars
<1> SUFFICES ASSUME TypeOK, [Next]_vars PROVE Fifo!Next \/ UNCHANGED Fifo!vars
  OBVIOUS
<1> DEFINE Refined == Fifo!Next \/ UNCHANGED Fifo!vars
<1>1. ASSUME NEW w \in Writer, NEW v \in Item, Put(w, v) PROVE Refined
  <2>1. val[w] = Null
    BY <1>1 DEF Put, TypeOK
  <2> QED
    BY <1>1, <2>1, InsertIsPut, PutWaitsIsWait DEF Put, Fifo!Next
<1>2. ASSUME NEW w \in Writer, NEW v \in Item, TryPut(w, v) PROVE Refined
  <2>1. val[w] = Null
    BY <1>2 DEF TryPut, TypeOK
  <2>2. CASE Full /\ ret' = [ret EXCEPT ![w] = "failed"]
             /\ UNCHANGED <<que_, cap_, pc, val, raised>>
    <3>1. Fifo!PutFails(w)
      BY <2>1, <2>2 DEF Want, Full, Fifo!PutFails, Fifo!Full
    <3> QED
      BY <3>1 DEF Fifo!Next
  <2> QED
    BY <1>2, <2>1, <2>2, InsertIsPut DEF TryPut, Fifo!Next
<1>3. ASSUME NEW w \in Writer, PutResumes(w) PROVE Refined
  <2>1. val[w] \in Item
    BY <1>3 DEF TypeOK, PutResumes
  <2>2. CASE Insert(w, val[w])
    BY <2>1, <2>2, InsertIsPut DEF Fifo!Next
  <2>3. CASE PutWaits(w, val[w])
    <3>1. Want' = Want
      BY <2>3, WantKept DEF PutWaits
    <3>2. val' = val
      BY <2>3 DEF PutWaits, TypeOK
    <3> QED
      BY <2>3, <3>1, <3>2 DEF PutWaits, Fifo!vars
  <2> QED
    BY <1>3, <2>2, <2>3 DEF PutResumes
<1>4. ASSUME NEW w \in Writer, NotifyNotEmpty(w) PROVE Refined
  BY <1>4, NotifyIsStutter DEF NotifyNotEmpty
<1>5. ASSUME NEW r \in Reader, Get(r) PROVE Refined
  BY <1>5, RemoveIsGet, GetWaitsIsWait DEF Get, Fifo!Next
<1>6. ASSUME NEW r \in Reader, TryGetFor(r) PROVE Refined
  BY <1>6, RemoveIsGet, GetWaitsIsWait DEF TryGetFor, Fifo!Next
<1>7. ASSUME NEW r \in Reader, TryGet(r) \/ ExpiredResumes(r) PROVE Refined
  BY <1>7, RemoveIsGet, GetFailsIsFailure DEF TryGet, ExpiredResumes, Fifo!Next
<1>8. ASSUME NEW r \in Reader, Expire(r) PROVE Refined
  BY <1>8, WakingIsStutter DEF Expire
<1>9. ASSUME NEW r \in Reader, NotifyNotFull(r) PROVE Refined
  BY <1>9, NotifyIsStutter DEF NotifyNotFull
<1>10. ASSUME NEW t \in Thread, WakeSpuriously(t) PROVE Refined
  BY <1>10, WakingIsStutter DEF WakeSpuriously, Woken
<1>11. ASSUME NEW cap \in Capacity, SetCapacity(cap) PROVE Refined
  BY <1>11 DEF SetCapacity, Want, Fifo!SetCapacity, Fifo!Next
<1>12. CASE UNCHANGED vars
  BY <1>12 DEF vars, Want, Fifo!vars
<1> QED
  BY <1>1, <1>2, <1>3, <1>4, <1>5, <1>6, <1>7, <1>8, <1>9, <1>10, <1>11,
     <1>12 DEF Next, WriterResumes

\* The threaded queue of thread_queue.h implements the bounded FIFO: items
\* leave in the order they came, once each, never more than the capacity,
\* and a call fails only on a queue that is full or empty.
THEOREM FifoImplemented == Spec => ImplementsFifo
<1>1. Init => Fifo!Init
  BY DEF Init, Want, Fifo!Init
<1>2. TypeOK /\ [Next]_vars => [Fifo!Next]_Fifo!vars
  BY StepRefines
<1> QED
  BY <1>1, <1>2, QueueTypeCorrect, PTL DEF Spec, ImplementsFifo, Fifo!Spec
=============================================================================
