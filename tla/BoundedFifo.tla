---------------------------- MODULE BoundedFifo -----------------------------
(***************************************************************************)
(* What mqtt::thread_queue promises: a first-in first-out queue that a     *)
(* writer waits for while it is full and a reader while it is empty.       *)
(***************************************************************************)
EXTENDS Naturals, Sequences

CONSTANTS Reader, Writer, Item,
          InitCap,     \* the capacity the queue is made with
          Capacity,    \* the capacities it may be given later
          Null         \* no item

VARIABLES q,           \* the items
          cap,         \* the capacity
          offer,       \* the item a waiting writer wants to put, or Null
          want,        \* how a reader waits: "none", "get" or "get_for"
          ret          \* what the last call of each thread returned

vars == <<q, cap, offer, want, ret>>

Thread == Reader \cup Writer

Full == Len(q) >= cap

Init ==
  /\ q = <<>>
  /\ cap = InitCap
  /\ offer = [w \in Writer |-> Null]
  /\ want = [r \in Reader |-> "none"]
  /\ ret = [t \in Thread |-> "none"]

\* A writer's item goes to the end of the queue, never beyond the capacity.
Put(w, v) ==
  /\ ~Full
  /\ offer[w] \in {Null, v}
  /\ q' = Append(q, v)
  /\ offer' = [offer EXCEPT ![w] = Null]
  /\ ret' = [ret EXCEPT ![w] = "done"]
  /\ UNCHANGED <<cap, want>>

WaitToPut(w, v) ==
  /\ Full
  /\ offer[w] = Null
  /\ offer' = [offer EXCEPT ![w] = v]
  /\ UNCHANGED <<q, cap, want, ret>>

\* A call gives up only when it sees the queue full, or empty.
PutFails(w) ==
  /\ Full
  /\ offer[w] = Null
  /\ ret' = [ret EXCEPT ![w] = "failed"]
  /\ UNCHANGED <<q, cap, offer, want>>

\* A reader gets the first item of the queue.
Get(r) ==
  /\ q # <<>>
  /\ ret' = [ret EXCEPT ![r] = Head(q)]
  /\ q' = Tail(q)
  /\ want' = [want EXCEPT ![r] = "none"]
  /\ UNCHANGED <<cap, offer>>

WaitToGet(r) ==
  /\ q = <<>>
  /\ want[r] = "none"
  /\ \E op \in {"get", "get_for"} : want' = [want EXCEPT ![r] = op]
  /\ UNCHANGED <<q, cap, offer, ret>>

GetFails(r) ==
  /\ q = <<>>
  /\ want[r] # "get"
  /\ ret' = [ret EXCEPT ![r] = "failed"]
  /\ want' = [want EXCEPT ![r] = "none"]
  /\ UNCHANGED <<q, cap, offer>>

SetCapacity ==
  /\ cap' \in Capacity
  /\ UNCHANGED <<q, offer, want, ret>>

Next ==
  \/ \E w \in Writer :
       \/ \E v \in Item : Put(w, v) \/ WaitToPut(w, v)
       \/ PutFails(w)
  \/ \E r \in Reader : Get(r) \/ WaitToGet(r) \/ GetFails(r)
  \/ SetCapacity

Spec == Init /\ [][Next]_vars

\* Nobody waits for ever for what the queue has.
FairSpec ==
  /\ Spec
  /\ \A w \in Writer : WF_vars(offer[w] # Null /\ \E v \in Item : Put(w, v))
  /\ \A r \in Reader : WF_vars(want[r] # "none" /\ Get(r))
=============================================================================
