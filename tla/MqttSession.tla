---------------------------- MODULE MqttSession ----------------------------
(***************************************************************************)
(* The MQTT client's handler table and the broker's subscriptions, which   *)
(* subscribe, unsubscribe and resubscribe are to keep the same, one thread *)
(* using the client.  A request waits for an acknowledgement, and any of   *)
(* the right type will do: packet identifiers are not compared.  A message *)
(* that arrives in a wait, or in yield, is handed to a callback, which may *)
(* itself make requests.                                                   *)
(*                                                                         *)
(* MqttClient has the client's states, which allow these calls; here are   *)
(* the packets.  The session is a clean one, as the shadow asks for: the   *)
(* broker forgets the subscriptions of a connection that ends.             *)
(***************************************************************************)
EXTENDS Integers, Sequences

CONSTANTS TopicNames,
          NumHandlers,    \* AWS_IOT_MQTT_NUM_SUBSCRIBE_HANDLERS
          NoTopic,        \* NULL
          MaxCalls,       \* bounds the calls in progress
          MaxWire         \* bounds the packets under way

ASSUME SessionAssumption ==
  /\ {NumHandlers, MaxCalls, MaxWire} \subseteq Nat \ {0}
  /\ NoTopic \notin TopicNames

VARIABLES
  messageHandlers,  \* the topic of each handler, or NoTopic
  calls,            \* the calls in progress, the innermost last
  online,           \* whether there is a connection
  toBroker,         \* the requests under way, in order
  toClient,         \* the types of the acknowledgements under way, in order
  broker,           \* the topics the broker has subscribed the client to
  disturbed         \* history: since the connection was made, a request has
                    \* failed, been refused, or been made while the opposite
                    \* request for its topic waited; a handler been overwritten,
                    \* left out of the resubscription, or read by it when free

sessionVars ==
  <<messageHandlers, calls, online, toBroker, toClient, broker, disturbed>>

HandlerIndex == 0 .. NumHandlers - 1
Handled == {messageHandlers[i] : i \in HandlerIndex} \ {NoTopic}

\* _aws_iot_mqtt_get_free_message_handler_index
FreeIndex ==
  CHOOSE i \in 0 .. NumHandlers :
    /\ i = NumHandlers \/ messageHandlers[i] = NoTopic
    /\ \A j \in 0 .. i - 1 : messageHandlers[j] # NoTopic

\* A call: the topic it is about, its index in the table and, of a
\* resubscription, the index at which it ends.
ActiveCall(op, topic, index, upto) ==
  [op |-> op, topic |-> topic, at |-> index, upto |-> upto]
Innermost == calls[Len(calls)]
Waits(op) == calls # <<>> /\ Innermost.op = op
Return == calls' = SubSeq(calls, 1, Len(calls) - 1)

\* The client is idle, or in a callback: a request is allowed.
Ready == (calls = <<>> \/ Waits("callback")) /\ Len(calls) < MaxCalls
Invoke(call) == calls' = Append(calls, call)
InProgress(op, topic) ==
  \E i \in DOMAIN calls : calls[i].op = op /\ calls[i].topic = topic

SendPacket(type, topic) ==
  /\ online
  /\ Len(toBroker) + Len(toClient) < MaxWire
  /\ toBroker' = Append(toBroker, [type |-> type, topic |-> topic])

\* An acknowledgement is read.
Read(ack) ==
  /\ toClient # <<>>
  /\ Head(toClient) = ack
  /\ toClient' = Tail(toClient)

SessionInit ==
  /\ messageHandlers = [i \in HandlerIndex |-> NoTopic]
  /\ calls = <<>>
  /\ online = TRUE
  /\ toBroker = <<>>
  /\ toClient = <<>>
  /\ broker = {}
  /\ disturbed = FALSE

\* aws_iot_mqtt_subscribe: the handler's place is chosen before the wait.
Subscribe(t) ==
  /\ Ready
  /\ FreeIndex < NumHandlers
  /\ Invoke(ActiveCall("subscribe", t, FreeIndex, 0))
  /\ SendPacket("SUBSCRIBE", t)
  /\ disturbed' = (disturbed \/ InProgress("unsubscribe", t))
  /\ UNCHANGED <<messageHandlers, online, toClient, broker>>

Subscribed ==
  /\ Waits("subscribe")
  /\ Read("SUBACK")
  /\ messageHandlers' = [messageHandlers EXCEPT ![Innermost.at] = Innermost.topic]
  /\ disturbed' =
       (disturbed \/ messageHandlers[Innermost.at] \notin {NoTopic, Innermost.topic})
  /\ Return
  /\ UNCHANGED <<online, toBroker, broker>>

\* aws_iot_mqtt_unsubscribe: of a topic that has a handler.
Unsubscribe(t) ==
  /\ Ready
  /\ t \in Handled
  /\ Invoke(ActiveCall("unsubscribe", t, 0, 0))
  /\ SendPacket("UNSUBSCRIBE", t)
  /\ disturbed' = (disturbed \/ InProgress("subscribe", t))
  /\ UNCHANGED <<messageHandlers, online, toClient, broker>>

\* Mutant: the removal ends at the first handler of the topic.
UnsubscribedFirst ==
  /\ Waits("unsubscribe")
  /\ Read("UNSUBACK")
  /\ messageHandlers' =
       [i \in HandlerIndex |->
          IF /\ messageHandlers[i] = Innermost.topic
             /\ \A j \in 0 .. i - 1 : messageHandlers[j] # Innermost.topic
            THEN NoTopic ELSE messageHandlers[i]]
  /\ Return
  /\ UNCHANGED <<online, toBroker, broker, disturbed>>

Unsubscribed ==
  /\ Waits("unsubscribe")
  /\ Read("UNSUBACK")
  /\ messageHandlers' =
       [i \in HandlerIndex |->
          IF messageHandlers[i] = Innermost.topic THEN NoTopic ELSE messageHandlers[i]]
  /\ Return
  /\ UNCHANGED <<online, toBroker, broker, disturbed>>

\* A new connection, and aws_iot_mqtt_resubscribe: of the handlers before the
\* first free one.
Reconnected ==
  /\ calls = <<>>
  /\ ~online
  /\ online' = TRUE
  /\ disturbed' = (\E i \in HandlerIndex : i > FreeIndex /\ messageHandlers[i] # NoTopic)
  /\ IF FreeIndex = 0
       THEN UNCHANGED <<calls, toBroker>>
       ELSE /\ Invoke(ActiveCall("resubscribe", messageHandlers[0], 0, FreeIndex))
            /\ toBroker' = <<[type |-> "SUBSCRIBE", topic |-> messageHandlers[0]]>>
  /\ UNCHANGED <<messageHandlers, toClient, broker>>

\* The handlers are read one by one: one that a callback has removed meanwhile
\* names no topic, and what is then subscribed to is undefined.
Resubscribed ==
  /\ Waits("resubscribe")
  /\ Read("SUBACK")
  /\ LET next == Innermost.at + 1 IN
       IF next = Innermost.upto
         THEN Return /\ UNCHANGED <<toBroker, disturbed>>
         ELSE /\ calls' = [calls EXCEPT ![Len(calls)].at = next,
                                        ![Len(calls)].topic = messageHandlers[next]]
              /\ SendPacket("SUBSCRIBE", messageHandlers[next])
              /\ disturbed' = (disturbed \/ messageHandlers[next] = NoTopic)
  /\ UNCHANGED <<messageHandlers, online, broker>>

\* A wait, or yield, drops an acknowledgement it does not wait for.
DropAck ==
  /\ ~Waits("callback")
  /\ \/ Read("SUBACK") /\ ~Waits("subscribe") /\ ~Waits("resubscribe")
     \/ Read("UNSUBACK") /\ ~Waits("unsubscribe")
  /\ UNCHANGED <<messageHandlers, calls, online, toBroker, broker, disturbed>>

\* A message arrives in a wait, or in yield, and its handler is called.
Callback ==
  /\ online
  /\ ~Waits("callback")
  /\ Handled # {}
  /\ Len(calls) < MaxCalls
  /\ Invoke(ActiveCall("callback", NoTopic, 0, 0))
  /\ UNCHANGED <<messageHandlers, online, toBroker, toClient, broker, disturbed>>

CallbackReturns ==
  /\ Waits("callback")
  /\ Return
  /\ UNCHANGED <<messageHandlers, online, toBroker, toClient, broker, disturbed>>

\* A wait ends without an acknowledgement: by its timeout or a lost connection.
RequestFails ==
  /\ calls # <<>>
  /\ ~Waits("callback")
  /\ Return
  /\ disturbed' = TRUE
  /\ UNCHANGED <<messageHandlers, online, toBroker, toClient, broker>>

\* The broker carries out a request and acknowledges it; the acknowledgement of
\* a subscription it refuses is the same to the client, which does not look at
\* the granted QoS.
Broker ==
  /\ toBroker # <<>>
  /\ toBroker' = Tail(toBroker)
  /\ LET topic == Head(toBroker).topic IN
       \/ /\ Head(toBroker).type = "SUBSCRIBE"
          /\ toClient' = Append(toClient, "SUBACK")
          /\ \/ broker' = broker \cup ({topic} \ {NoTopic}) /\ UNCHANGED disturbed
             \/ UNCHANGED broker /\ disturbed' = TRUE
       \/ /\ Head(toBroker).type = "UNSUBSCRIBE"
          /\ toClient' = Append(toClient, "UNSUBACK")
          /\ broker' = broker \ {topic}
          /\ UNCHANGED disturbed
  /\ UNCHANGED <<messageHandlers, calls, online>>

ConnectionLost ==
  /\ online
  /\ online' = FALSE
  /\ toBroker' = <<>>
  /\ toClient' = <<>>
  /\ broker' = {}
  /\ UNCHANGED <<messageHandlers, calls, disturbed>>

SessionNext ==
  \/ \E t \in TopicNames : Subscribe(t) \/ Unsubscribe(t)
  \/ Subscribed \/ Unsubscribed
  \/ Reconnected \/ Resubscribed
  \/ DropAck \/ Callback \/ CallbackReturns \/ RequestFails
  \/ Broker \/ ConnectionLost

SessionSpec == SessionInit /\ [][SessionNext]_sessionVars

-----------------------------------------------------------------------------
(* What should hold. *)

\* Acknowledgements matched by type alone, which calls in callbacks take from
\* each other, do no harm by themselves: on a connection that was not disturbed
\* an idle client has a handler for exactly the topics the broker has subscribed
\* it to, and no acknowledgement is left over for a later request.
SessionIsExact ==
  calls = <<>> /\ online /\ ~disturbed =>
    broker = Handled /\ toBroker = <<>> /\ toClient = <<>>
=============================================================================
