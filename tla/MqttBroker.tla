----------------------------- MODULE MqttBroker -----------------------------
(***************************************************************************)
(* The broker, as the two programs use it through mqtt::async_client:      *)
(* QoS 1, every publication retained, subscriptions with or without the    *)
(* no-local option.  The broker is outside the repository; inbox[s] joins  *)
(* its outgoing queue for session s, the C library's, and the consumer     *)
(* queue que_ of the async_client, all of them FIFO.                       *)
(***************************************************************************)
EXTENDS BupProtocol

CONSTANT MaxFaults     \* bound: failures the environment may inject

ASSUME MaxFaultsIsNat == MaxFaults \in Nat

VARIABLES retained,    \* the retained message of each topic, or Null
          sub,         \* how each session subscribes to each topic
          inbox,       \* messages on their way to each session
          faults       \* failures injected so far

netVars    == <<retained, sub, inbox>>
brokerVars == <<retained, sub, inbox, faults>>

SubMode == {"none", "local", "nolocal"}

BrokerTypeOK ==
  /\ retained \in [Topic -> Message \cup {Null}]
  /\ sub \in [Session -> [Topic -> SubMode]]
  /\ inbox \in [Session -> Seq(Message \cup {Null})]
  /\ faults \in Nat

BrokerInit ==
  /\ retained = [t \in Topic |-> Null]
  /\ sub = [s \in Session |-> [t \in Topic |-> "none"]]
  /\ inbox = [s \in Session |-> <<>>]
  /\ faults = 0

Fault   == faults < MaxFaults /\ faults' = faults + 1
NoFault == UNCHANGED faults

\* A subscription delivers a message unless it is "no local" and its own.
Accepts(mode, m, s) ==
  \/ mode = "local"
  \/ mode = "nolocal" /\ m.from # s

\* publish(t, body, QOS, RETAINED)->wait(): an empty payload clears the
\* retained message, and is delivered like any other.
Publish(s, t, body) ==
  LET m == [topic |-> t, body |-> body, from |-> s]
  IN  /\ retained' = [retained EXCEPT ![t] =
                        IF body.type = "empty" THEN Null ELSE m]
      /\ inbox' = [r \in Session |->
                     IF Accepts(sub[r][t], m, r)
                     THEN Append(inbox[r], m) ELSE inbox[r]]
      /\ UNCHANGED sub

\* subscribe(t, QOS, opts)->wait(): the retained message of t follows.
Subscribe(s, t, mode) ==
  /\ sub' = [sub EXCEPT ![s][t] = mode]
  /\ inbox' = IF retained[t] # Null /\ Accepts(mode, retained[t], s)
              THEN [inbox EXCEPT ![s] = Append(@, retained[t])]
              ELSE inbox
  /\ UNCHANGED retained

\* The clean session s ends, `rest` being what its process still has queued.
\* Its next connection has a new client id, so no retained message is its own.
EndSession(s, rest) ==
  /\ retained' = [t \in Topic |->
                    IF retained[t] # Null /\ retained[t].from = s
                    THEN [retained[t] EXCEPT !.from = Nobody]
                    ELSE retained[t]]
  /\ sub' = [sub EXCEPT ![s] = [t \in Topic |-> "none"]]
  /\ inbox' = [inbox EXCEPT ![s] = rest]

\* que_->get(), once the queue is not empty.
Take(s) ==
  /\ inbox[s] # <<>>
  /\ inbox' = [inbox EXCEPT ![s] = Tail(@)]
  /\ UNCHANGED <<retained, sub>>
=============================================================================
