---------------------------- MODULE ThreadQueue -----------------------------
(***************************************************************************)
(* mqtt::thread_queue, mqtt/thread_queue.h: a queue with a capacity, a     *)
(* lock and two condition variables, each notified only on the edge: the   *)
(* first item put, and the item whose removal leaves one place.            *)
(*                                                                         *)
(* One action is what a thread does while it holds the lock.  A notify     *)
(* comes after the unlock, as an action of its own.  pc[t] says where a    *)
(* thread is between its actions: "idle" outside the queue, "...Sleep" in  *)
(* the wait of a condition variable, "...Woken" on the way back to the     *)
(* lock, "getExpired" likewise after a time-out.                           *)
(*                                                                         *)
(* A definition commented "Faulty" is a variant with a plausible mistake;  *)
(* nothing uses it, it shows that the properties would notice.             *)
(***************************************************************************)
EXTENDS Integers, Sequences

CONSTANTS Reader,      \* threads that get
          Writer,      \* threads that put
          Item,        \* the values put
          InitCap,     \* the capacity the queue is made with, at least 1
          Capacity,    \* the values capacity() is called with
          Null         \* no item

ASSUME QueueAssumption ==
  /\ Reader \cap Writer = {}
  /\ Reader # {} /\ Writer # {}
  /\ InitCap \in Nat \ {0}
  /\ Capacity \subseteq Nat
  /\ Null \notin Item

VARIABLES que_,        \* the items
          cap_,        \* the capacity
          pc,          \* where each thread is
          val,         \* the argument of a writer's blocked put()
          ret,         \* what the last call of each thread returned
          raised       \* history: whether the capacity was ever raised

vars == <<que_, cap_, pc, val, ret, raised>>

Thread == Reader \cup Writer

PutPc == {"putSleep", "putWoken"}
GetPc == {"getSleep", "getWoken"}
ForPc == {"getForSleep", "getForWoken", "getExpired"}

TypeOK ==
  /\ que_ \in Seq(Item)
  /\ cap_ \in Nat
  /\ pc \in [Thread -> {"idle", "notifyNotEmpty", "notifyNotFull"}
                         \cup PutPc \cup GetPc \cup ForPc]
  /\ \A w \in Writer : pc[w] \in {"idle", "notifyNotEmpty"} \cup PutPc
  /\ \A r \in Reader : pc[r] \in {"idle", "notifyNotFull"} \cup GetPc \cup ForPc
  /\ val \in [Writer -> Item \cup {Null}]
  /\ \A w \in Writer : pc[w] \in PutPc <=> val[w] # Null
  /\ ret \in [Thread -> Item \cup {"none", "done", "failed"}]
  /\ raised \in BOOLEAN

Init ==
  /\ que_ = <<>>
  /\ cap_ = InitCap
  /\ pc = [t \in Thread |-> "idle"]
  /\ val = [w \in Writer |-> Null]
  /\ ret = [t \in Thread |-> "none"]
  /\ raised = FALSE

Goto(t, p) == pc' = [pc EXCEPT ![t] = p]

Full == Len(que_) >= cap_

-----------------------------------------------------------------------------
(* Writers                                                                 *)

\* Faulty: a notification whenever the queue was not empty before.
InsertNotifiesLate(w, v) ==
  /\ ~Full
  /\ que_' = Append(que_, v)
  /\ Goto(w, IF que_ = <<>> THEN "idle" ELSE "notifyNotEmpty")
  /\ val' = [val EXCEPT ![w] = Null]
  /\ ret' = [ret EXCEPT ![w] = "done"]
  /\ UNCHANGED <<cap_, raised>>

\* que_.emplace(val), and a notification if the queue was empty.
Insert(w, v) ==
  /\ ~Full
  /\ que_' = Append(que_, v)
  /\ Goto(w, IF que_ = <<>> THEN "notifyNotEmpty" ELSE "idle")
  /\ val' = [val EXCEPT ![w] = Null]
  /\ ret' = [ret EXCEPT ![w] = "done"]
  /\ UNCHANGED <<cap_, raised>>

\* put() waits while the queue is full.
PutWaits(w, v) ==
  /\ Full
  /\ Goto(w, "putSleep")
  /\ val' = [val EXCEPT ![w] = v]
  /\ UNCHANGED <<que_, cap_, ret, raised>>

Put(w, v) ==
  /\ pc[w] = "idle"
  /\ Insert(w, v) \/ PutWaits(w, v)

\* The predicate is tested again on each return from the wait.
PutResumes(w) ==
  /\ pc[w] = "putWoken"
  /\ Insert(w, val[w]) \/ PutWaits(w, val[w])

TryPut(w, v) ==
  /\ pc[w] = "idle"
  /\ \/ Insert(w, v)
     \/ /\ Full
        /\ ret' = [ret EXCEPT ![w] = "failed"]
        /\ UNCHANGED <<que_, cap_, pc, val, raised>>

-----------------------------------------------------------------------------
(* Readers                                                                 *)

\* Faulty: a place is announced only by the reader that empties the queue.
RemoveNotifiesEmpty(r) ==
  /\ que_ # <<>>
  /\ ret' = [ret EXCEPT ![r] = Head(que_)]
  /\ que_' = Tail(que_)
  /\ Goto(r, IF Len(que_) = 1 THEN "notifyNotFull" ELSE "idle")
  /\ UNCHANGED <<cap_, val, raised>>

\* que_.front() and pop(), and a notification if that left exactly one place:
\* never for a capacity of 0, where cap_ - 1 is the largest size_type.
Remove(r) ==
  /\ que_ # <<>>
  /\ ret' = [ret EXCEPT ![r] = Head(que_)]
  /\ que_' = Tail(que_)
  /\ Goto(r, IF Len(que_) - 1 = cap_ - 1 THEN "notifyNotFull" ELSE "idle")
  /\ UNCHANGED <<cap_, val, raised>>

GetWaits(r, p) ==
  /\ que_ = <<>>
  /\ Goto(r, p)
  /\ UNCHANGED <<que_, cap_, val, ret, raised>>

GetFails(r) ==
  /\ que_ = <<>>
  /\ Goto(r, "idle")
  /\ ret' = [ret EXCEPT ![r] = "failed"]
  /\ UNCHANGED <<que_, cap_, val, raised>>

Get(r) ==
  /\ pc[r] \in {"idle", "getWoken"}
  /\ Remove(r) \/ GetWaits(r, "getSleep")

\* try_get_for(), try_get_until()
TryGetFor(r) ==
  /\ pc[r] \in {"idle", "getForWoken"}
  /\ Remove(r) \/ GetWaits(r, "getForSleep")

TryGet(r) ==
  /\ pc[r] = "idle"
  /\ Remove(r) \/ GetFails(r)

\* The time is up: the reader is no longer one that a notification can wake.
Expire(r) ==
  /\ pc[r] = "getForSleep"
  /\ Goto(r, "getExpired")
  /\ UNCHANGED <<que_, cap_, val, ret, raised>>

\* Faulty: a reader that timed out does not test the predicate once more.
ExpiredGivesUp(r) ==
  /\ pc[r] = "getExpired"
  /\ Goto(r, "idle")
  /\ ret' = [ret EXCEPT ![r] = "failed"]
  /\ UNCHANGED <<que_, cap_, val, raised>>

\* wait_for() returns the predicate's value under the lock, not the time-out.
ExpiredResumes(r) ==
  /\ pc[r] = "getExpired"
  /\ Remove(r) \/ GetFails(r)

-----------------------------------------------------------------------------
(* The condition variables and the capacity                                *)

Woken(p) ==
  CASE p = "putSleep"    -> "putWoken"
    [] p = "getSleep"    -> "getWoken"
    [] p = "getForSleep" -> "getForWoken"

SleepPc == {"putSleep", "getSleep", "getForSleep"}

\* notify_one() wakes any of the sleepers in S, or nobody.
NotifyOne(t, S) ==
  /\ IF S = {}
     THEN Goto(t, "idle")
     ELSE \E s \in S : pc' = [pc EXCEPT ![t] = "idle", ![s] = Woken(pc[s])]
  /\ UNCHANGED <<que_, cap_, val, ret, raised>>

NotifyNotEmpty(w) ==
  /\ pc[w] = "notifyNotEmpty"
  /\ NotifyOne(w, {r \in Reader : pc[r] \in SleepPc})

NotifyNotFull(r) ==
  /\ pc[r] = "notifyNotFull"
  /\ NotifyOne(r, {w \in Writer : pc[w] \in SleepPc})

\* A condition variable may wake a thread for no reason.
WakeSpuriously(t) ==
  /\ pc[t] \in SleepPc
  /\ Goto(t, Woken(pc[t]))
  /\ UNCHANGED <<que_, cap_, val, ret, raised>>

\* capacity(cap) wakes nobody, and takes 0, which the constructor does not.
SetCapacity(cap) ==
  /\ cap_' = cap
  /\ raised' = (raised \/ cap > cap_)
  /\ UNCHANGED <<que_, pc, val, ret>>

-----------------------------------------------------------------------------
\* The steps of a call that has begun.
WriterResumes(w) == PutResumes(w) \/ NotifyNotEmpty(w)

ReaderResumes(r) ==
  \/ pc[r] # "idle" /\ (Get(r) \/ TryGetFor(r))
  \/ ExpiredResumes(r)
  \/ NotifyNotFull(r)

Next ==
  \/ \E w \in Writer :
       \/ \E v \in Item : Put(w, v) \/ TryPut(w, v)
       \/ WriterResumes(w)
  \/ \E r \in Reader :
       \/ Get(r) \/ TryGet(r) \/ TryGetFor(r) \/ Expire(r)
       \/ ExpiredResumes(r) \/ NotifyNotFull(r)
  \/ \E t \in Thread : WakeSpuriously(t)
  \/ \E cap \in Capacity : SetCapacity(cap)

Spec == Init /\ [][Next]_vars

\* A thread that is inside the queue and awake goes on.
FairSpec ==
  /\ Spec
  /\ \A w \in Writer : WF_vars(WriterResumes(w))
  /\ \A r \in Reader : WF_vars(ReaderResumes(r))

-----------------------------------------------------------------------------
(* Properties                                                              *)

\* How a reader waits, asleep or on its way back to the lock.
Want == [r \in Reader |-> CASE pc[r] \in GetPc -> "get"
                            [] pc[r] \in ForPc -> "get_for"
                            [] OTHER -> "none"]

\* The queue is a bounded FIFO: see BoundedFifo.
Fifo == INSTANCE BoundedFifo
          WITH q <- que_, cap <- cap_, offer <- val, want <- Want, ret <- ret

\* Every call takes effect at once, in order, within the capacity, and fails
\* only when the queue is full or empty (all of thread_queue.h).
ImplementsFifo == Fifo!Spec

\* With one reader, one writer and a capacity that is never raised, nobody
\* waits for ever for what the queue has: the edge notifications suffice.
ImplementsFairFifo == Fifo!FairSpec

Asleep(t) == pc[t] \in SleepPc

\* Unless capacity() raises the bound, or sets it to 0, so that nobody can put
\* and nobody get, the threads are never all asleep, however many they are, and
\* however their calls and time-outs interleave.
NotAllAsleep == ~raised /\ cap_ # 0 => \E t \in Thread : ~Asleep(t)

\* The first of its two reasons: if all readers sleep beside an item, a
\* writer is about to notify one.  (If only some of them do, nobody may be: the
\* second of two items that come before the first reader wakes is announced to
\* nobody, and the other reader sleeps on, against the comment of get().)
ItemIsAnnounced ==
  que_ # <<>> /\ (\A r \in Reader : Asleep(r)) =>
    \E w \in Writer : pc[w] = "notifyNotEmpty"

\* The second: if all writers sleep beside a free place, a reader is about
\* to notify one.
PlaceIsAnnounced ==
  ~raised /\ ~Full /\ (\A w \in Writer : Asleep(w)) =>
    \E r \in Reader : pc[r] = "notifyNotFull"
=============================================================================
