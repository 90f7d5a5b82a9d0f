------------------------- MODULE MqttSessionProofs -------------------------
(***************************************************************************)
(* The MQTT session, for any topics, any size of the handler table, any    *)
(* nesting of calls and any number of packets under way: an idle client    *)
(* that was not disturbed has handlers for exactly the topics the broker   *)
(* sends it.  And the length of a packet, for any radix and any integers   *)
(* that four of its digits fit: both decoders read what was encoded.       *)
(***************************************************************************)
EXTENDS MqttSession, PacketLength, FiniteSetTheorems, FunctionTheorems,
        SequenceTheorems, WellFoundedInduction, TLAPS

-----------------------------------------------------------------------------
(* How many elements of a sequence are in a set. *)

Places(s, V) == {i \in DOMAIN s : s[i] \in V}
Number(s, V) == Cardinality(Places(s, V))

\* The places are finitely many, and none is left when the number is zero.
LEMMA NumberIsNat ==
  ASSUME NEW S, NEW s \in Seq(S), NEW V
  PROVE  /\ IsFiniteSet(Places(s, V))
         /\ Number(s, V) \in Nat
         /\ Number(s, V) = 0 => \A i \in DOMAIN s : s[i] \notin V
<1>1. IsFiniteSet(1 .. Len(s))
  BY LenProperties, FS_Interval
<1>2. Places(s, V) \in SUBSET (1 .. Len(s))
  BY LenProperties DEF Places
<1>3. IsFiniteSet(Places(s, V))
  BY <1>1, <1>2, FS_Subset
<1>4. Number(s, V) \in Nat
  BY <1>3, FS_CardinalityType DEF Number
<1>5. Number(s, V) = 0 => Places(s, V) = {}
  BY <1>3, FS_EmptySet DEF Number
<1> QED
  BY <1>3, <1>4, <1>5 DEF Places

\* The empty sequence has none.
LEMMA NumberEmpty ==
  ASSUME NEW V
  PROVE  Number(<<>>, V) = 0
BY FS_EmptySet DEF Number, Places

\* An element appended counts if it is in the set.
LEMMA NumberAppend ==
  ASSUME NEW S, NEW s \in Seq(S), NEW e \in S, NEW V
  PROVE  Number(Append(s, e), V) = Number(s, V) + (IF e \in V THEN 1 ELSE 0)
<1> DEFINE n == Len(s) + 1
           added == IF e \in V THEN {n} ELSE {}
<1>1. Len(s) \in Nat /\ DOMAIN s = 1 .. Len(s)
  BY LenProperties
<1>2. /\ DOMAIN Append(s, e) = 1 .. n
      /\ \A i \in 1 .. Len(s) : Append(s, e)[i] = s[i]
      /\ Append(s, e)[n] = e
  BY <1>1
<1>3. Places(Append(s, e), V) = Places(s, V) \cup added
  BY <1>1, <1>2 DEF Places
<1>4. n \notin Places(s, V)
  BY <1>1 DEF Places
<1>5. IsFiniteSet(Places(s, V)) /\ Number(s, V) \in Nat
  BY NumberIsNat
<1>6. CASE e \in V
  <2>1. Places(Append(s, e), V) = Places(s, V) \cup {n}
    BY <1>3, <1>6
  <2>2. Cardinality(Places(s, V) \cup {n}) = Cardinality(Places(s, V)) + 1
    BY <1>4, <1>5, FS_AddElement
  <2> QED
    BY <1>6, <2>1, <2>2 DEF Number
<1>7. CASE e \notin V
  BY <1>3, <1>5, <1>7 DEF Number
<1> QED
  BY <1>6, <1>7

\* The last element removed counts if it is in the set.
LEMMA NumberFront ==
  ASSUME NEW S, NEW s \in Seq(S), s # <<>>, NEW V
  PROVE  Number(s, V) = Number(SubSeq(s, 1, Len(s) - 1), V)
                        + (IF s[Len(s)] \in V THEN 1 ELSE 0)
<1> DEFINE front == SubSeq(s, 1, Len(s) - 1)
           last == s[Len(s)]
<1>1. Len(s) \in Nat \ {0} /\ DOMAIN s = 1 .. Len(s) /\ s \in [1 .. Len(s) -> S]
  BY LenProperties, EmptySeq
<1>2. front \in Seq(S) /\ last \in S /\ Len(front) = Len(s) - 1
      /\ \A i \in 1 .. Len(s) - 1 : front[i] = s[i]
  <2>1. \A i \in 1 .. Len(s) - 1 : s[i] \in S
    BY <1>1
  <2>2. 1 \in Int /\ Len(s) - 1 \in Int
    BY <1>1
  <2> QED
    BY <1>1, <2>1, <2>2, SubSeqProperties
<1>3. last = s[Len(s)] /\ Len(s) \in Nat /\ Len(s) > 0
  BY <1>1
<1> HIDE DEF front, last
<1>4. Append(front, last) = s
  <2>0. front \in Seq(S) /\ last \in S
    BY <1>2
  <2>1. /\ Append(front, last) \in Seq(S)
        /\ Len(Append(front, last)) = Len(front) + 1
    BY <2>0, AppendProperties
  <2>2. \A i \in 1 .. Len(s) - 1 : Append(front, last)[i] = s[i]
    BY <1>1, <1>2
  <2>3. Append(front, last)[Len(s)] = s[Len(s)]
    BY <1>1, <1>2, <1>3
  <2>4. \A i \in 1 .. Len(s) : Append(front, last)[i] = s[i]
    <3>1. \A i \in 1 .. Len(s) : i \in 1 .. Len(s) - 1 \/ i = Len(s)
      BY <1>3
    <3> QED
      BY <2>2, <2>3, <3>1
  <2> QED
    BY <1>2, <1>3, <2>1, <2>4, SeqEqual
<1>5. Number(Append(front, last), V) = Number(front, V) + (IF last \in V THEN 1 ELSE 0)
  BY <1>2, NumberAppend
<1>6. Number(s, V) = Number(front, V) + (IF s[Len(s)] \in V THEN 1 ELSE 0)
  BY <1>3, <1>4, <1>5
<1> QED
  BY <1>6 DEF front

\* The head removed counts if it is in the set.
LEMMA NumberTail ==
  ASSUME NEW S, NEW s \in Seq(S), s # <<>>, NEW V
  PROVE  Number(s, V) = Number(Tail(s), V) + (IF Head(s) \in V THEN 1 ELSE 0)
<1> DEFINE others == Places(s, V) \ {1}
           shift == [i \in others |-> i - 1]
<1>1. Len(s) \in Nat \ {0} /\ DOMAIN s = 1 .. Len(s) /\ Head(s) = s[1]
  BY LenProperties, EmptySeq
<1>2. /\ Tail(s) \in Seq(S)
      /\ DOMAIN Tail(s) = 1 .. Len(s) - 1
      /\ \A i \in 1 .. Len(s) - 1 : Tail(s)[i] = s[i + 1]
  BY <1>1, HeadTailProperties, LenProperties
<1>3. IsFiniteSet(Places(s, V)) /\ Number(s, V) \in Nat
  BY NumberIsNat
<1>4. IsFiniteSet(others)
      /\ Cardinality(others) = IF 1 \in Places(s, V) THEN Number(s, V) - 1 ELSE Number(s, V)
  BY <1>3, FS_RemoveElement DEF Number
<1>5. shift \in Bijection(others, Places(Tail(s), V))
  <2>1. \A i \in others : i \in 2 .. Len(s) /\ s[i] \in V
    BY <1>1 DEF Places
  <2>2. \A i \in others : shift[i] = i - 1 /\ shift[i] \in Places(Tail(s), V)
    BY <1>1, <1>2, <2>1 DEF Places
  <2>3. \A i, j \in others : shift[i] = shift[j] => i = j
    BY <2>1, <2>2
  <2>4. \A k \in Places(Tail(s), V) : k + 1 \in others /\ shift[k + 1] = k
    BY <1>1, <1>2 DEF Places
  <2>5. shift \in [others -> Places(Tail(s), V)]
    BY <2>2
  <2> HIDE DEF shift, others
  <2> QED
    BY <2>3, <2>4, <2>5, Fun_IsBij
<1>6. Cardinality(Places(Tail(s), V)) = Cardinality(others)
  <2>1. ExistsBijection(others, Places(Tail(s), V))
    BY <1>5 DEF ExistsBijection
  <2> HIDE DEF others
  <2> QED
    BY <1>4, <2>1, FS_Bijection
<1>7. 1 \in Places(s, V) <=> Head(s) \in V
  BY <1>1 DEF Places
<1> QED
  BY <1>3, <1>4, <1>6, <1>7 DEF Number

-----------------------------------------------------------------------------
(* The inductive invariant. *)

Ops == {"subscribe", "unsubscribe", "resubscribe", "callback"}
Names == TopicNames \cup {NoTopic}
CallsOf(ops) ==
  [op : ops, topic : Names, at : 0 .. NumHandlers, upto : 0 .. NumHandlers]
RequestsOf(types) == [type : types, topic : Names]

SessionTypeOK ==
  /\ messageHandlers \in [HandlerIndex -> Names]
  /\ calls \in Seq(CallsOf(Ops))
  /\ online \in BOOLEAN
  /\ toBroker \in Seq(RequestsOf({"SUBSCRIBE", "UNSUBSCRIBE"}))
  /\ toClient \in Seq({"SUBACK", "UNSUBACK"})
  /\ broker \subseteq TopicNames
  /\ disturbed \in BOOLEAN

\* What a call in progress is about; a resubscription is the outermost one.
CallsFit ==
  \A i \in DOMAIN calls :
    /\ calls[i].op \in {"subscribe", "unsubscribe"} => calls[i].topic \in TopicNames
    /\ calls[i].op = "subscribe" => calls[i].at \in HandlerIndex
    /\ calls[i].op = "resubscribe" => i = 1 /\ calls[i].at < calls[i].upto

OfflineIsEmpty ==
  ~online => toBroker = <<>> /\ toClient = <<>> /\ broker = {}

\* How many calls wait for an answer, and how many requests and answers of a
\* type are under way.
Waiters(ops) == Number(calls, CallsOf(ops))
Requests(type) == Number(toBroker, RequestsOf({type}))
Answers(ack) == Number(toClient, {ack})

\* No more answers of a type are due than calls wait for one: each request has
\* one, and a call that takes another call's answer leaves its own to that one.
AnswersAreAwaited ==
  /\ Requests("SUBSCRIBE") + Answers("SUBACK") <= Waiters({"subscribe", "resubscribe"})
  /\ Requests("UNSUBSCRIBE") + Answers("UNSUBACK") <= Waiters({"unsubscribe"})

\* What the broker will have for a topic once all requests have reached it: the
\* last request about the topic decides, or what there is if there is none.
NoneAfter(i, topic) ==
  \A j \in DOMAIN toBroker : j > i => toBroker[j].topic # topic
LastIs(type, topic) ==
  \E i \in DOMAIN toBroker :
    /\ toBroker[i].type = type /\ toBroker[i].topic = topic
    /\ NoneAfter(i, topic)
WillHave(topic) ==
  LastIs("SUBSCRIBE", topic) \/ (topic \in broker /\ NoneAfter(0, topic))
WillLack(topic) ==
  LastIs("UNSUBSCRIBE", topic) \/ (topic \notin broker /\ NoneAfter(0, topic))

\* A handler that the resubscription has yet to come to.
Unreached(topic) ==
  /\ calls # <<>>
  /\ calls[1].op = "resubscribe"
  /\ \E i \in HandlerIndex :
       calls[1].at < i /\ i < calls[1].upto /\ messageHandlers[i] = topic

\* The broker will have what the calls in progress ask for and, of a topic that
\* none is about, what the handlers say.
Agreed(topic) ==
  /\ InProgress("subscribe", topic) =>
       WillHave(topic) /\ ~InProgress("unsubscribe", topic)
  /\ InProgress("unsubscribe", topic) => WillLack(topic)
  /\ ~InProgress("subscribe", topic) /\ ~InProgress("unsubscribe", topic) =>
       /\ topic \in Handled => WillHave(topic) \/ Unreached(topic)
       /\ topic \notin Handled => WillLack(topic)

SessionInv ==
  /\ SessionTypeOK
  /\ CallsFit
  /\ OfflineIsEmpty
  /\ ~disturbed => AnswersAreAwaited
  /\ ~disturbed /\ online => \A topic \in TopicNames : Agreed(topic)

-----------------------------------------------------------------------------
(* The helpers of the actions. *)

\* _aws_iot_mqtt_get_free_message_handler_index returns the first free index, or
\* the size of a full table.
LEMMA FreeIndexIsFirst ==
  /\ FreeIndex \in 0 .. NumHandlers
  /\ FreeIndex = NumHandlers \/ messageHandlers[FreeIndex] = NoTopic
  /\ \A j \in 0 .. FreeIndex - 1 : messageHandlers[j] # NoTopic
<1> DEFINE free == {i \in 0 .. NumHandlers :
                      i = NumHandlers \/ messageHandlers[i] = NoTopic}
           less == OpToRel(<, Nat)
<1>1. NumHandlers \in Nat
  BY SessionAssumption
<1>2. free \subseteq Nat /\ free # {}
  BY <1>1
<1>3. PICK i \in free : \A j \in free : ~ (<<j, i>> \in less)
  <2>1. IsWellFoundedOn(less, Nat)
    BY NatLessThanWellFounded
  <2> HIDE DEF free, less
  <2> QED
    BY <1>2, <2>1, WFMin
<1>4. \A j \in free : j >= i
  <2>1. \A j, k \in Nat : j < k => <<j, k>> \in less
    BY DEF OpToRel
  <2>2. ASSUME NEW j \in free PROVE j >= i
    <3>1. j \in Nat /\ i \in Nat
      BY <1>2
    <3>2. ~ (j < i)
      BY <1>3, <2>1, <3>1
    <3> QED
      BY <3>1, <3>2
  <2> QED
    BY <2>2
<1>5. \A j \in 0 .. i - 1 : messageHandlers[j] # NoTopic
  BY <1>1, <1>4
<1> QED
  BY <1>5 DEF FreeIndex

\* What the outermost and the innermost call are, and what is left without it.
LEMMA InnermostFits ==
  ASSUME SessionTypeOK, calls # <<>>
  PROVE  /\ Len(calls) \in Nat \ {0} /\ DOMAIN calls = 1 .. Len(calls)
         /\ Innermost \in CallsOf(Ops)
         /\ \A i \in DOMAIN calls : calls[i] \in CallsOf(Ops)
<1> QED
  BY LenProperties, EmptySeq DEF SessionTypeOK, Innermost

\* What is left when the innermost call returns.
LEMMA FrontFits ==
  ASSUME SessionTypeOK, calls # <<>>, Return
  PROVE  /\ calls' \in Seq(CallsOf(Ops))
         /\ Len(calls') = Len(calls) - 1
         /\ DOMAIN calls' = 1 .. Len(calls) - 1
         /\ \A i \in 1 .. Len(calls) - 1 : calls'[i] = calls[i]
<1>1. Len(calls) \in Nat \ {0} /\ \A i \in 1 .. Len(calls) : calls[i] \in CallsOf(Ops)
  BY InnermostFits
<1>2. 1 \in Int /\ Len(calls) - 1 \in Int
  BY <1>1
<1>3. \A i \in 1 .. Len(calls) - 1 : calls[i] \in CallsOf(Ops)
  BY <1>1
<1>4. /\ SubSeq(calls, 1, Len(calls) - 1) \in Seq(CallsOf(Ops))
      /\ Len(SubSeq(calls, 1, Len(calls) - 1)) =
           IF 1 <= Len(calls) - 1 THEN Len(calls) - 1 - 1 + 1 ELSE 0
      /\ \A i \in 1 .. Len(calls) - 1 - 1 + 1 :
           SubSeq(calls, 1, Len(calls) - 1)[i] = calls[1 + i - 1]
  BY <1>2, <1>3, SubSeqProperties
<1>5. calls' = SubSeq(calls, 1, Len(calls) - 1)
  BY DEF Return
<1>6. /\ calls' \in Seq(CallsOf(Ops))
      /\ Len(calls') = IF 1 <= Len(calls) - 1 THEN Len(calls) - 1 - 1 + 1 ELSE 0
      /\ \A i \in 1 .. Len(calls) - 1 - 1 + 1 : calls'[i] = calls[1 + i - 1]
  BY <1>4, <1>5, Zenon
<1>7. Len(calls') = Len(calls) - 1
  <2>1. Len(calls') = IF 1 <= Len(calls) - 1 THEN Len(calls) - 1 - 1 + 1 ELSE 0
    BY <1>6
  <2>2. Len(calls) \in Nat \ {0}
    BY <1>1
  <2> QED
    BY <2>1, <2>2
<1>8. DOMAIN calls' = 1 .. Len(calls) - 1
  BY <1>6, <1>7, LenProperties
<1>9. \A i \in 1 .. Len(calls) - 1 : calls'[i] = calls[i]
  BY <1>1, <1>6
<1> QED
  BY <1>6, <1>7, <1>8, <1>9

\* A new call is the innermost one.
LEMMA InvokeFits ==
  ASSUME SessionTypeOK, NEW call \in CallsOf(Ops), Invoke(call)
  PROVE  /\ calls' \in Seq(CallsOf(Ops))
         /\ Len(calls') = Len(calls) + 1
         /\ Len(calls) \in Nat
         /\ DOMAIN calls = 1 .. Len(calls) /\ DOMAIN calls' = 1 .. Len(calls) + 1
         /\ \A i \in 1 .. Len(calls) : calls'[i] = calls[i]
         /\ calls'[Len(calls) + 1] = call
BY AppendProperties, LenProperties DEF SessionTypeOK, Invoke

\* A request joins the ones under way as the last.
LEMMA SendFits ==
  ASSUME SessionTypeOK, NEW type \in {"SUBSCRIBE", "UNSUBSCRIBE"}, NEW topic \in Names,
         toBroker' = Append(toBroker, [type |-> type, topic |-> topic])
  PROVE  /\ toBroker' \in Seq(RequestsOf({"SUBSCRIBE", "UNSUBSCRIBE"}))
         /\ Len(toBroker) \in Nat
         /\ DOMAIN toBroker = 1 .. Len(toBroker)
         /\ DOMAIN toBroker' = 1 .. Len(toBroker) + 1
         /\ \A i \in 1 .. Len(toBroker) : toBroker'[i] = toBroker[i]
         /\ toBroker'[Len(toBroker) + 1] = [type |-> type, topic |-> topic]
<1>1. [type |-> type, topic |-> topic] \in RequestsOf({"SUBSCRIBE", "UNSUBSCRIBE"})
  BY DEF RequestsOf
<1> QED
  BY <1>1, AppendProperties, LenProperties DEF SessionTypeOK

\* An acknowledgement that is read leaves acknowledgements.
LEMMA ReadFits ==
  ASSUME SessionTypeOK, NEW ack, Read(ack)
  PROVE  toClient' \in Seq({"SUBACK", "UNSUBACK"})
BY HeadTailProperties DEF SessionTypeOK, Read

\* The broker takes the first request; the others move up.
LEMMA BrokerFits ==
  ASSUME SessionTypeOK, Broker
  PROVE  /\ toBroker' \in Seq(RequestsOf({"SUBSCRIBE", "UNSUBSCRIBE"}))
         /\ Len(toBroker) \in Nat \ {0}
         /\ DOMAIN toBroker = 1 .. Len(toBroker)
         /\ DOMAIN toBroker' = 1 .. Len(toBroker) - 1
         /\ \A i \in 1 .. Len(toBroker) - 1 : toBroker'[i] = toBroker[i + 1]
         /\ Head(toBroker) = toBroker[1]
         /\ Head(toBroker) \in RequestsOf({"SUBSCRIBE", "UNSUBSCRIBE"})
BY HeadTailProperties, LenProperties, EmptySeq DEF SessionTypeOK, Broker

\* A resubscription that goes on is alone, and has a next handler to come to.
LEMMA ResubscribedFits ==
  ASSUME SessionTypeOK, CallsFit, Resubscribed
  PROVE  /\ Len(calls) = 1 /\ DOMAIN calls = {1} /\ Innermost = calls[1]
         /\ calls[1] \in CallsOf(Ops) /\ calls[1].op = "resubscribe"
         /\ calls[1].at + 1 <= calls[1].upto
         /\ calls[1].at + 1 # calls[1].upto =>
              /\ calls[1].at + 1 \in HandlerIndex
              /\ messageHandlers[calls[1].at + 1] \in Names
              /\ calls' \in Seq(CallsOf(Ops))
              /\ Len(calls') = 1 /\ DOMAIN calls' = {1}
              /\ calls'[1].op = "resubscribe"
              /\ calls'[1].upto = calls[1].upto
              /\ calls'[1].at = calls[1].at + 1
<1>1. calls # <<>> /\ Innermost.op = "resubscribe"
  BY DEF Resubscribed, Waits
<1>2. Len(calls) \in Nat \ {0} /\ DOMAIN calls = 1 .. Len(calls) /\ Innermost \in CallsOf(Ops)
  BY <1>1, InnermostFits
<1>3. Len(calls) = 1 /\ Innermost.at < Innermost.upto
  BY <1>1, <1>2 DEF CallsFit, Innermost
<1>4. DOMAIN calls = {1} /\ Innermost = calls[1]
  BY <1>2, <1>3 DEF Innermost
<1>5. /\ NumHandlers \in Nat \ {0}
      /\ calls[1].at \in 0 .. NumHandlers /\ calls[1].upto \in 0 .. NumHandlers
  BY <1>2, <1>4, SessionAssumption DEF CallsOf
<1>6. calls[1].at + 1 <= calls[1].upto
  BY <1>3, <1>4, <1>5
<1>7. ASSUME calls[1].at + 1 # calls[1].upto
      PROVE  /\ calls[1].at + 1 \in HandlerIndex
             /\ messageHandlers[calls[1].at + 1] \in Names
             /\ calls' \in Seq(CallsOf(Ops))
             /\ Len(calls') = 1 /\ DOMAIN calls' = {1}
             /\ calls'[1].op = "resubscribe"
             /\ calls'[1].upto = calls[1].upto
             /\ calls'[1].at = calls[1].at + 1
  <2> DEFINE next == calls[1].at + 1
             going == [calls[1] EXCEPT !.at = next, !.topic = messageHandlers[next]]
  <2>1. next \in HandlerIndex /\ next \in 0 .. NumHandlers
    BY <1>5, <1>6, <1>7 DEF HandlerIndex
  <2>2. messageHandlers[next] \in Names
    BY <2>1 DEF SessionTypeOK
  <2>3. calls' = [calls EXCEPT ![1] = going]
    BY <1>3, <1>4, <1>7 DEF Resubscribed
  <2>4. going \in CallsOf(Ops) /\ going.op = calls[1].op /\ going.at = next
        /\ going.upto = calls[1].upto
    BY <1>2, <1>4, <2>1, <2>2 DEF CallsOf
  <2> HIDE DEF going
  <2>5. calls' \in Seq(CallsOf(Ops)) /\ Len(calls') = 1 /\ calls'[1] = going
    <3>1. calls \in Seq(CallsOf(Ops)) /\ 1 \in 1 .. Len(calls)
      BY <1>3 DEF SessionTypeOK
    <3>2. /\ [calls EXCEPT ![1] = going] \in Seq(CallsOf(Ops))
          /\ Len([calls EXCEPT ![1] = going]) = Len(calls)
          /\ [calls EXCEPT ![1] = going][1] = going
      BY <2>4, <3>1, ExceptSeq
    <3> QED
      BY <1>3, <2>3, <3>2
  <2>6. DOMAIN calls' = {1}
    BY <2>5, LenProperties
  <2> QED
    BY <1>1, <1>4, <2>1, <2>2, <2>4, <2>5, <2>6
<1> QED
  BY <1>1, <1>2, <1>3, <1>4, <1>6, <1>7

-----------------------------------------------------------------------------
(* Types. *)

\* The types hold initially.
LEMMA SessionTypeInit == SessionInit => SessionTypeOK
<1> SUFFICES ASSUME SessionInit PROVE SessionTypeOK
  OBVIOUS
<1>1. messageHandlers \in [HandlerIndex -> Names]
  BY DEF SessionInit, Names
<1> QED
  BY <1>1, EmptySeq DEF SessionInit, SessionTypeOK

\* Every step keeps the types.
LEMMA SessionTypeStep ==
  ASSUME SessionTypeOK, CallsFit, [SessionNext]_sessionVars
  PROVE  SessionTypeOK'
<1> USE DEF SessionTypeOK
<1>1. NumHandlers \in Nat \ {0}
  BY SessionAssumption
<1>2. ASSUME NEW t \in TopicNames, Subscribe(t) PROVE SessionTypeOK'
  <2>1. ActiveCall("subscribe", t, FreeIndex, 0) \in CallsOf(Ops)
    BY <1>1, FreeIndexIsFirst DEF ActiveCall, CallsOf, Ops, Names
  <2>2. calls' \in Seq(CallsOf(Ops))
    BY <1>2, <2>1, InvokeFits DEF Subscribe
  <2>3. toBroker' \in Seq(RequestsOf({"SUBSCRIBE", "UNSUBSCRIBE"}))
    BY <1>2, SendFits DEF Subscribe, SendPacket, Names
  <2>4. disturbed' \in BOOLEAN
    BY <1>2 DEF Subscribe
  <2> QED
    BY <1>2, <2>2, <2>3, <2>4 DEF Subscribe
<1>3. ASSUME NEW t \in TopicNames, Unsubscribe(t) PROVE SessionTypeOK'
  <2>1. ActiveCall("unsubscribe", t, 0, 0) \in CallsOf(Ops)
    BY <1>1 DEF ActiveCall, CallsOf, Ops, Names
  <2>2. calls' \in Seq(CallsOf(Ops))
    BY <1>3, <2>1, InvokeFits DEF Unsubscribe
  <2>3. toBroker' \in Seq(RequestsOf({"SUBSCRIBE", "UNSUBSCRIBE"}))
    BY <1>3, SendFits DEF Unsubscribe, SendPacket, Names
  <2>4. disturbed' \in BOOLEAN
    BY <1>3 DEF Unsubscribe
  <2> QED
    BY <1>3, <2>2, <2>3, <2>4 DEF Unsubscribe
<1>4. CASE Subscribed
  <2>1. calls # <<>> /\ Innermost.topic \in Names
    BY <1>4, InnermostFits DEF Subscribed, Waits, CallsOf
  <2>2. messageHandlers' \in [HandlerIndex -> Names]
    BY <1>4, <2>1 DEF Subscribed
  <2>3. calls' \in Seq(CallsOf(Ops)) /\ toClient' \in Seq({"SUBACK", "UNSUBACK"})
    BY <1>4, <2>1, FrontFits, ReadFits DEF Subscribed
  <2>4. disturbed' \in BOOLEAN
    BY <1>4 DEF Subscribed
  <2> QED
    BY <1>4, <2>2, <2>3, <2>4 DEF Subscribed
<1>5. CASE Unsubscribed
  <2>1. calls # <<>>
    BY <1>5 DEF Unsubscribed, Waits
  <2>2. messageHandlers' \in [HandlerIndex -> Names]
    BY <1>5 DEF Unsubscribed, Names
  <2>3. calls' \in Seq(CallsOf(Ops)) /\ toClient' \in Seq({"SUBACK", "UNSUBACK"})
    BY <1>5, <2>1, FrontFits, ReadFits DEF Unsubscribed
  <2> QED
    BY <1>5, <2>2, <2>3 DEF Unsubscribed
<1>6. CASE Reconnected
  <2>1. disturbed' \in BOOLEAN
    BY <1>6 DEF Reconnected
  <2>2. CASE FreeIndex = 0
    BY <1>6, <2>1, <2>2 DEF Reconnected
  <2>3. CASE FreeIndex # 0
    <3>1. messageHandlers[0] \in Names
      BY <1>1 DEF HandlerIndex
    <3>2. ActiveCall("resubscribe", messageHandlers[0], 0, FreeIndex) \in CallsOf(Ops)
      BY <1>1, <3>1, FreeIndexIsFirst DEF ActiveCall, CallsOf, Ops
    <3>3. calls' \in Seq(CallsOf(Ops))
      BY <1>6, <2>3, <3>2, InvokeFits DEF Reconnected
    <3>4. [type |-> "SUBSCRIBE", topic |-> messageHandlers[0]]
            \in RequestsOf({"SUBSCRIBE", "UNSUBSCRIBE"})
      BY <3>1 DEF RequestsOf
    <3>5. toBroker' = <<[type |-> "SUBSCRIBE", topic |-> messageHandlers[0]]>>
      BY <1>6, <2>3 DEF Reconnected
    <3>6. toBroker' \in Seq(RequestsOf({"SUBSCRIBE", "UNSUBSCRIBE"}))
      BY <3>4, <3>5
    <3> QED
      BY <1>6, <2>1, <3>3, <3>6 DEF Reconnected
  <2> QED
    BY <2>2, <2>3
<1>7. CASE Resubscribed
  <2> DEFINE next == Innermost.at + 1
  <2>1. calls # <<>> /\ toClient' \in Seq({"SUBACK", "UNSUBACK"})
    BY <1>7, ReadFits DEF Resubscribed, Waits
  <2>2. CASE next = Innermost.upto
    <3>1. calls' \in Seq(CallsOf(Ops))
      BY <1>7, <2>1, <2>2, FrontFits DEF Resubscribed
    <3> QED
      BY <1>7, <2>1, <2>2, <3>1 DEF Resubscribed
  <2>3. CASE next # Innermost.upto
    <3>1. calls' \in Seq(CallsOf(Ops)) /\ messageHandlers[next] \in Names
      BY <1>7, <2>3, ResubscribedFits
    <3>2. toBroker' \in Seq(RequestsOf({"SUBSCRIBE", "UNSUBSCRIBE"}))
      BY <1>7, <2>3, <3>1, SendFits DEF Resubscribed, SendPacket
    <3>3. disturbed' \in BOOLEAN
      BY <1>7, <2>3 DEF Resubscribed
    <3> QED
      BY <1>7, <2>1, <2>3, <3>1, <3>2, <3>3 DEF Resubscribed
  <2> QED
    BY <2>2, <2>3
<1>8. CASE DropAck
  <2>1. toClient' \in Seq({"SUBACK", "UNSUBACK"})
    BY <1>8, ReadFits DEF DropAck
  <2> QED
    BY <1>8, <2>1 DEF DropAck
<1>9. CASE Callback
  <2>1. ActiveCall("callback", NoTopic, 0, 0) \in CallsOf(Ops)
    BY <1>1 DEF ActiveCall, CallsOf, Ops, Names
  <2>2. calls' \in Seq(CallsOf(Ops))
    BY <1>9, <2>1, InvokeFits DEF Callback
  <2> QED
    BY <1>9, <2>2 DEF Callback
<1>10. CASE CallbackReturns
  <2>1. calls' \in Seq(CallsOf(Ops))
    BY <1>10, FrontFits DEF CallbackReturns, Waits
  <2> QED
    BY <1>10, <2>1 DEF CallbackReturns
<1>11. CASE RequestFails
  <2>1. calls' \in Seq(CallsOf(Ops))
    BY <1>11, FrontFits DEF RequestFails
  <2> QED
    BY <1>11, <2>1 DEF RequestFails
<1>12. CASE Broker
  <2>1. toBroker' \in Seq(RequestsOf({"SUBSCRIBE", "UNSUBSCRIBE"}))
        /\ Head(toBroker).topic \in Names
    BY <1>12, BrokerFits DEF RequestsOf
  <2>2. toClient' \in Seq({"SUBACK", "UNSUBACK"})
    BY <1>12, AppendProperties DEF Broker
  <2>3. broker' \subseteq TopicNames /\ disturbed' \in BOOLEAN
    BY <1>12, <2>1 DEF Broker, Names
  <2> QED
    BY <1>12, <2>1, <2>2, <2>3 DEF Broker
<1>13. CASE ConnectionLost
  BY <1>13, EmptySeq DEF ConnectionLost
<1>14. CASE UNCHANGED sessionVars
  BY <1>14 DEF sessionVars
<1> QED
  BY <1>2, <1>3, <1>4, <1>5, <1>6, <1>7, <1>8, <1>9, <1>10, <1>11, <1>12, <1>13,
     <1>14 DEF SessionNext

-----------------------------------------------------------------------------
(* The calls in progress, and the connection. *)

\* A call that returns leaves the others as they were, and so does a new one.
LEMMA ReturnKeepsFit ==
  ASSUME SessionTypeOK, CallsFit, calls # <<>>, Return
  PROVE  CallsFit'
<1>1. /\ Len(calls) \in Nat \ {0} /\ DOMAIN calls = 1 .. Len(calls)
      /\ DOMAIN calls' = 1 .. Len(calls) - 1
      /\ \A i \in 1 .. Len(calls) - 1 : calls'[i] = calls[i]
  BY InnermostFits, FrontFits
<1>2. ASSUME NEW i \in DOMAIN calls' PROVE i \in DOMAIN calls /\ calls'[i] = calls[i]
  BY <1>1
<1> QED
  BY <1>2 DEF CallsFit, HandlerIndex

\* A new call of the right shape keeps the calls in order.
LEMMA InvokeKeepsFit ==
  ASSUME SessionTypeOK, CallsFit, NEW call \in CallsOf(Ops), Invoke(call),
         call.op \in {"subscribe", "unsubscribe"} => call.topic \in TopicNames,
         call.op = "subscribe" => call.at \in HandlerIndex,
         call.op = "resubscribe" => calls = <<>> /\ call.at < call.upto
  PROVE  CallsFit'
<1>1. /\ Len(calls) \in Nat
      /\ DOMAIN calls = 1 .. Len(calls) /\ DOMAIN calls' = 1 .. Len(calls) + 1
      /\ \A i \in 1 .. Len(calls) : calls'[i] = calls[i]
      /\ calls'[Len(calls) + 1] = call
  BY InvokeFits
<1>2. ASSUME NEW i \in DOMAIN calls'
      PROVE  (i \in DOMAIN calls /\ calls'[i] = calls[i]) \/ (i = Len(calls) + 1 /\ calls'[i] = call)
  BY <1>1
<1>3. call.op = "resubscribe" => Len(calls) + 1 = 1
  BY EmptySeq
<1> QED
  BY <1>2, <1>3 DEF CallsFit, HandlerIndex

\* Every step keeps the calls in order.
LEMMA CallsFitStep ==
  ASSUME SessionTypeOK, CallsFit, [SessionNext]_sessionVars
  PROVE  CallsFit'
<1>1. NumHandlers \in Nat \ {0}
  BY SessionAssumption
<1>2. ASSUME NEW t \in TopicNames, Subscribe(t) PROVE CallsFit'
  <2>1. FreeIndex \in HandlerIndex
    BY <1>1, <1>2, FreeIndexIsFirst DEF Subscribe, HandlerIndex
  <2>2. ActiveCall("subscribe", t, FreeIndex, 0) \in CallsOf(Ops)
    BY <1>1, FreeIndexIsFirst DEF ActiveCall, CallsOf, Ops, Names
  <2> QED
    BY <1>2, <2>1, <2>2, InvokeKeepsFit DEF Subscribe, ActiveCall
<1>3. ASSUME NEW t \in TopicNames, Unsubscribe(t) PROVE CallsFit'
  <2>1. ActiveCall("unsubscribe", t, 0, 0) \in CallsOf(Ops)
    BY <1>1 DEF ActiveCall, CallsOf, Ops, Names
  <2> QED
    BY <1>3, <2>1, InvokeKeepsFit DEF Unsubscribe, ActiveCall
<1>4. CASE Callback
  <2>1. ActiveCall("callback", NoTopic, 0, 0) \in CallsOf(Ops)
    BY <1>1 DEF ActiveCall, CallsOf, Ops, Names
  <2> QED
    BY <1>4, <2>1, InvokeKeepsFit DEF Callback, ActiveCall
<1>5. CASE Reconnected
  <2>1. CASE FreeIndex = 0
    BY <1>5, <2>1 DEF Reconnected, CallsFit
  <2>2. CASE FreeIndex # 0
    <3>1. messageHandlers[0] \in Names
      BY <1>1 DEF HandlerIndex, SessionTypeOK
    <3>2. ActiveCall("resubscribe", messageHandlers[0], 0, FreeIndex) \in CallsOf(Ops)
          /\ 0 < FreeIndex
      BY <1>1, <2>2, <3>1, FreeIndexIsFirst DEF ActiveCall, CallsOf, Ops
    <3> QED
      BY <1>5, <2>2, <3>2, InvokeKeepsFit DEF Reconnected, ActiveCall
  <2> QED
    BY <2>1, <2>2
<1>6. CASE Resubscribed
  <2>1. CASE Innermost.at + 1 = Innermost.upto
    BY <1>6, <2>1, ReturnKeepsFit DEF Resubscribed, Waits
  <2>2. CASE Innermost.at + 1 # Innermost.upto
    <3>1. /\ calls[1].at \in 0 .. NumHandlers /\ calls[1].upto \in 0 .. NumHandlers
          /\ calls[1].at + 1 <= calls[1].upto /\ calls[1].at + 1 # calls[1].upto
      BY <1>6, <2>2, ResubscribedFits DEF CallsOf
    <3>2. /\ DOMAIN calls' = {1} /\ calls'[1].op = "resubscribe"
          /\ calls'[1].at = calls[1].at + 1 /\ calls'[1].upto = calls[1].upto
      BY <1>6, <2>2, ResubscribedFits
    <3>3. calls'[1].at < calls'[1].upto
      BY <1>1, <3>1, <3>2
    <3> QED
      BY <3>2, <3>3 DEF CallsFit
  <2> QED
    BY <2>1, <2>2
<1>7. CASE Subscribed
  BY <1>7, ReturnKeepsFit DEF Subscribed, Waits
<1>8. CASE Unsubscribed
  BY <1>8, ReturnKeepsFit DEF Unsubscribed, Waits
<1>9. CASE CallbackReturns
  BY <1>9, ReturnKeepsFit DEF CallbackReturns, Waits
<1>10. CASE RequestFails
  BY <1>10, ReturnKeepsFit DEF RequestFails
<1>11. CASE UNCHANGED calls
  BY <1>11 DEF CallsFit, HandlerIndex
<1> QED
  BY <1>2, <1>3, <1>4, <1>5, <1>6, <1>7, <1>8, <1>9, <1>10, <1>11
     DEF SessionNext, sessionVars, DropAck, Broker, ConnectionLost

\* Packets are under way, and the broker has subscriptions, on a connection only.
LEMMA OfflineStep ==
  ASSUME SessionTypeOK, OfflineIsEmpty, [SessionNext]_sessionVars
  PROVE  OfflineIsEmpty'
<1>1. ASSUME NEW t \in TopicNames, Subscribe(t) \/ Unsubscribe(t) PROVE OfflineIsEmpty'
  BY <1>1 DEF OfflineIsEmpty, Subscribe, Unsubscribe, SendPacket
<1>2. CASE Subscribed \/ Unsubscribed \/ Resubscribed \/ DropAck
  BY <1>2 DEF OfflineIsEmpty, Subscribed, Unsubscribed, Resubscribed, DropAck, Read
<1>3. CASE Broker
  BY <1>3 DEF OfflineIsEmpty, Broker
<1>4. CASE Reconnected \/ ConnectionLost
  BY <1>4 DEF OfflineIsEmpty, Reconnected, ConnectionLost
<1>5. CASE Callback \/ CallbackReturns \/ RequestFails \/ UNCHANGED sessionVars
  BY <1>5 DEF OfflineIsEmpty, Callback, CallbackReturns, RequestFails, sessionVars
<1> QED
  BY <1>1, <1>2, <1>3, <1>4, <1>5 DEF SessionNext

-----------------------------------------------------------------------------
(* The answers that are due, and the calls that wait for one. *)

\* A new call waits, if it is one that waits.
LEMMA InvokeCounts ==
  ASSUME SessionTypeOK, NEW call \in CallsOf(Ops), Invoke(call), NEW ops
  PROVE  Waiters(ops)' = Waiters(ops) + (IF call.op \in ops THEN 1 ELSE 0)
<1>1. call \in CallsOf(ops) <=> call.op \in ops
  BY DEF CallsOf
<1> QED
  BY <1>1, NumberAppend DEF SessionTypeOK, Invoke, Waiters

\* A call that returns waits no longer.
LEMMA ReturnCounts ==
  ASSUME SessionTypeOK, calls # <<>>, Return, NEW ops
  PROVE  Waiters(ops) = Waiters(ops)' + (IF Innermost.op \in ops THEN 1 ELSE 0)
<1>1. Innermost \in CallsOf(ops) <=> Innermost.op \in ops
  BY InnermostFits DEF CallsOf
<1> QED
  BY <1>1, NumberFront DEF SessionTypeOK, Return, Waiters, Innermost

\* A request that is sent is one more of its type.
LEMMA SendCounts ==
  ASSUME SessionTypeOK, NEW type \in {"SUBSCRIBE", "UNSUBSCRIBE"}, NEW topic \in Names,
         toBroker' = Append(toBroker, [type |-> type, topic |-> topic]), NEW one
  PROVE  Requests(one)' = Requests(one) + (IF type = one THEN 1 ELSE 0)
<1> DEFINE request == [type |-> type, topic |-> topic]
<1>1. request \in RequestsOf({"SUBSCRIBE", "UNSUBSCRIBE"})
      /\ (request \in RequestsOf({one}) <=> type = one)
  BY DEF RequestsOf
<1> QED
  BY <1>1, NumberAppend DEF SessionTypeOK, Requests

\* An acknowledgement that is read is one less of its type.
LEMMA ReadCounts ==
  ASSUME SessionTypeOK, NEW ack, Read(ack), NEW one
  PROVE  Answers(one) = Answers(one)' + (IF ack = one THEN 1 ELSE 0)
<1>1. Head(toClient) \in {one} <=> ack = one
  BY DEF Read
<1> QED
  BY <1>1, NumberTail DEF SessionTypeOK, Read, Answers

\* The broker turns a request into an answer of its type.
LEMMA BrokerCounts ==
  ASSUME SessionTypeOK, Broker
  PROVE  /\ Requests("SUBSCRIBE")' + Answers("SUBACK")'
              = Requests("SUBSCRIBE") + Answers("SUBACK")
         /\ Requests("UNSUBSCRIBE")' + Answers("UNSUBACK")'
              = Requests("UNSUBSCRIBE") + Answers("UNSUBACK")
<1> DEFINE type == Head(toBroker).type
<1>1. toBroker # <<>> /\ toBroker' = Tail(toBroker)
  BY DEF Broker
<1>2. ASSUME NEW one \in {"SUBSCRIBE", "UNSUBSCRIBE"}
      PROVE  Requests(one) = Requests(one)' + (IF type = one THEN 1 ELSE 0)
  <2>1. Head(toBroker) \in RequestsOf({one}) <=> type = one
    BY BrokerFits DEF RequestsOf
  <2> QED
    BY <1>1, <2>1, NumberTail DEF SessionTypeOK, Requests
<1>3. ASSUME NEW ack \in {"SUBACK", "UNSUBACK"}, toClient' = Append(toClient, ack), NEW one
      PROVE  Answers(one)' = Answers(one) + (IF ack = one THEN 1 ELSE 0)
  <2>1. ack \in {one} <=> ack = one
    OBVIOUS
  <2> QED
    BY <1>3, <2>1, NumberAppend DEF SessionTypeOK, Answers
<1>4. /\ \A one : Requests(one) \in Nat /\ Answers(one) \in Nat
      /\ \A one : Requests(one)' \in Nat /\ Answers(one)' \in Nat
  <2>1. toClient' \in Seq({"SUBACK", "UNSUBACK"})
    BY AppendProperties DEF Broker, SessionTypeOK
  <2> QED
    BY <2>1, BrokerFits, NumberIsNat DEF SessionTypeOK, Requests, Answers
<1>5. CASE type = "SUBSCRIBE"
  <2>1. toClient' = Append(toClient, "SUBACK")
    BY <1>5 DEF Broker
  <2>2. Answers("SUBACK")' = Answers("SUBACK") + 1 /\ Answers("UNSUBACK")' = Answers("UNSUBACK")
    BY <1>3, <1>4, <2>1
  <2>3. Requests("SUBSCRIBE") = Requests("SUBSCRIBE")' + 1
        /\ Requests("UNSUBSCRIBE") = Requests("UNSUBSCRIBE")'
    BY <1>2, <1>4, <1>5
  <2> QED
    BY <1>4, <2>2, <2>3
<1>6. CASE type = "UNSUBSCRIBE"
  <2>1. toClient' = Append(toClient, "UNSUBACK")
    BY <1>6 DEF Broker
  <2>2. Answers("UNSUBACK")' = Answers("UNSUBACK") + 1 /\ Answers("SUBACK")' = Answers("SUBACK")
    BY <1>3, <1>4, <2>1
  <2>3. Requests("UNSUBSCRIBE") = Requests("UNSUBSCRIBE")' + 1
        /\ Requests("SUBSCRIBE") = Requests("SUBSCRIBE")'
    BY <1>2, <1>4, <1>6
  <2> QED
    BY <1>4, <2>2, <2>3
<1> QED
  BY <1>5, <1>6 DEF Broker

\* No step leaves more answers due than calls wait for.
LEMMA AwaitedStep ==
  ASSUME SessionTypeOK, SessionTypeOK', CallsFit, OfflineIsEmpty, [SessionNext]_sessionVars,
         ~disturbed => AnswersAreAwaited, ~disturbed'
  PROVE  AnswersAreAwaited'
<1> DEFINE subscribers == {"subscribe", "resubscribe"}
<1>1. /\ \A ops : Waiters(ops) \in Nat
      /\ \A type : Requests(type) \in Nat /\ Answers(type) \in Nat
      /\ \A ops : Waiters(ops)' \in Nat
      /\ \A type : Requests(type)' \in Nat /\ Answers(type)' \in Nat
  BY NumberIsNat DEF SessionTypeOK, Waiters, Requests, Answers
<1>2. NumHandlers \in Nat \ {0}
  BY SessionAssumption
<1>3. ASSUME NEW t \in TopicNames, Subscribe(t) PROVE AnswersAreAwaited'
  <2> DEFINE call == ActiveCall("subscribe", t, FreeIndex, 0)
  <2>1. call \in CallsOf(Ops) /\ call.op = "subscribe"
    BY <1>2, FreeIndexIsFirst DEF ActiveCall, CallsOf, Ops, Names
  <2> HIDE DEF call
  <2>2. Waiters(subscribers)' = Waiters(subscribers) + 1
        /\ Waiters({"unsubscribe"})' = Waiters({"unsubscribe"})
    BY <1>1, <1>3, <2>1, InvokeCounts DEF Subscribe, call
  <2>3. Requests("SUBSCRIBE")' = Requests("SUBSCRIBE") + 1
        /\ Requests("UNSUBSCRIBE")' = Requests("UNSUBSCRIBE")
    BY <1>1, <1>3, SendCounts DEF Subscribe, SendPacket, Names
  <2>4. ~disturbed /\ \A ack : Answers(ack)' = Answers(ack)
    BY <1>3 DEF Subscribe, SessionTypeOK, Answers
  <2> QED
    BY <1>1, <2>2, <2>3, <2>4 DEF AnswersAreAwaited
<1>4. ASSUME NEW t \in TopicNames, Unsubscribe(t) PROVE AnswersAreAwaited'
  <2> DEFINE call == ActiveCall("unsubscribe", t, 0, 0)
  <2>1. call \in CallsOf(Ops) /\ call.op = "unsubscribe"
    BY <1>2 DEF ActiveCall, CallsOf, Ops, Names
  <2> HIDE DEF call
  <2>2. Waiters(subscribers)' = Waiters(subscribers)
        /\ Waiters({"unsubscribe"})' = Waiters({"unsubscribe"}) + 1
    BY <1>1, <1>4, <2>1, InvokeCounts DEF Unsubscribe, call
  <2>3. Requests("SUBSCRIBE")' = Requests("SUBSCRIBE")
        /\ Requests("UNSUBSCRIBE")' = Requests("UNSUBSCRIBE") + 1
    BY <1>1, <1>4, SendCounts DEF Unsubscribe, SendPacket, Names
  <2>4. ~disturbed /\ \A ack : Answers(ack)' = Answers(ack)
    BY <1>4 DEF Unsubscribe, SessionTypeOK, Answers
  <2> QED
    BY <1>1, <2>2, <2>3, <2>4 DEF AnswersAreAwaited
<1>5. CASE Subscribed
  <2>1. calls # <<>> /\ Innermost.op = "subscribe" /\ ~disturbed
        /\ \A type : Requests(type)' = Requests(type)
    BY <1>5 DEF Subscribed, Waits, SessionTypeOK, Requests
  <2>2. Waiters(subscribers) = Waiters(subscribers)' + 1
        /\ Waiters({"unsubscribe"}) = Waiters({"unsubscribe"})'
    BY <1>1, <1>5, <2>1, ReturnCounts DEF Subscribed
  <2>3. Answers("SUBACK") = Answers("SUBACK")' + 1 /\ Answers("UNSUBACK") = Answers("UNSUBACK")'
    BY <1>1, <1>5, ReadCounts DEF Subscribed
  <2> QED
    BY <1>1, <2>1, <2>2, <2>3 DEF AnswersAreAwaited
<1>6. CASE Unsubscribed
  <2>1. calls # <<>> /\ Innermost.op = "unsubscribe" /\ ~disturbed
        /\ \A type : Requests(type)' = Requests(type)
    BY <1>6 DEF Unsubscribed, Waits, SessionTypeOK, Requests
  <2>2. Waiters(subscribers) = Waiters(subscribers)'
        /\ Waiters({"unsubscribe"}) = Waiters({"unsubscribe"})' + 1
    BY <1>1, <1>6, <2>1, ReturnCounts DEF Unsubscribed
  <2>3. Answers("SUBACK") = Answers("SUBACK")' /\ Answers("UNSUBACK") = Answers("UNSUBACK")' + 1
    BY <1>1, <1>6, ReadCounts DEF Unsubscribed
  <2> QED
    BY <1>1, <2>1, <2>2, <2>3 DEF AnswersAreAwaited
<1>7. CASE Reconnected
  <2>1. calls = <<>> /\ toBroker = <<>> /\ toClient = <<>> /\ UNCHANGED toClient
    BY <1>7 DEF Reconnected, OfflineIsEmpty
  <2>2. /\ \A ops : Waiters(ops) = 0
        /\ \A type : Requests(type) = 0 /\ Answers(type) = 0 /\ Answers(type)' = 0
    BY <2>1, NumberEmpty DEF Waiters, Requests, Answers
  <2>3. CASE FreeIndex = 0
    <3>1. UNCHANGED <<calls, toBroker>>
      BY <1>7, <2>3 DEF Reconnected
    <3>2. \A ops : Waiters(ops)' = 0 /\ Requests(ops)' = 0
      BY <2>2, <3>1 DEF Waiters, Requests
    <3> QED
      BY <2>2, <3>2 DEF AnswersAreAwaited
  <2>4. CASE FreeIndex # 0
    <3> DEFINE call == ActiveCall("resubscribe", messageHandlers[0], 0, FreeIndex)
    <3>1. messageHandlers[0] \in Names
      BY <1>2 DEF HandlerIndex, SessionTypeOK
    <3>2. call \in CallsOf(Ops) /\ call.op = "resubscribe"
      BY <1>2, <3>1, FreeIndexIsFirst DEF ActiveCall, CallsOf, Ops
    <3> HIDE DEF call
    <3>3. Waiters(subscribers)' = 1 /\ Waiters({"unsubscribe"})' = 0
      BY <1>7, <2>2, <2>4, <3>2, InvokeCounts DEF Reconnected, call
    <3>4. toBroker' = Append(toBroker, [type |-> "SUBSCRIBE", topic |-> messageHandlers[0]])
      BY <1>7, <2>1, <2>4 DEF Reconnected
    <3>5. Requests("SUBSCRIBE")' = 1 /\ Requests("UNSUBSCRIBE")' = 0
      BY <2>2, <3>1, <3>4, SendCounts
    <3> QED
      BY <2>2, <3>3, <3>5 DEF AnswersAreAwaited
  <2> QED
    BY <2>3, <2>4
<1>8. CASE Resubscribed
  <2>1. /\ calls # <<>> /\ Innermost.op = "resubscribe" /\ ~disturbed
        /\ Len(calls) = 1 /\ DOMAIN calls = {1} /\ Innermost = calls[1]
        /\ calls[1] \in CallsOf(Ops)
    BY <1>8, ResubscribedFits DEF Resubscribed, Waits, SessionTypeOK
  <2>2. Answers("SUBACK") = Answers("SUBACK")' + 1 /\ Answers("UNSUBACK") = Answers("UNSUBACK")'
    BY <1>1, <1>8, ReadCounts DEF Resubscribed
  <2>3. CASE Innermost.at + 1 = Innermost.upto
    <3>1. Return /\ \A type : Requests(type)' = Requests(type)
      BY <1>8, <2>3 DEF Resubscribed, Requests
    <3>2. Waiters(subscribers) = Waiters(subscribers)' + 1
          /\ Waiters({"unsubscribe"}) = Waiters({"unsubscribe"})'
      BY <1>1, <2>1, <3>1, ReturnCounts
    <3> QED
      BY <1>1, <2>1, <2>2, <3>1, <3>2 DEF AnswersAreAwaited
  <2>4. CASE Innermost.at + 1 # Innermost.upto
    <3>1. /\ messageHandlers[calls[1].at + 1] \in Names
          /\ calls' \in Seq(CallsOf(Ops)) /\ DOMAIN calls' = {1}
          /\ calls'[1].op = "resubscribe" /\ calls'[1] \in CallsOf(Ops)
      BY <1>8, <2>1, <2>4, ResubscribedFits, LenProperties
    <3>2. toBroker' = Append(toBroker, [type |-> "SUBSCRIBE",
                                        topic |-> messageHandlers[calls[1].at + 1]])
      BY <1>8, <2>1, <2>4 DEF Resubscribed, SendPacket
    <3>3. Requests("SUBSCRIBE")' = Requests("SUBSCRIBE") + 1
          /\ Requests("UNSUBSCRIBE")' = Requests("UNSUBSCRIBE")
      BY <1>1, <3>1, <3>2, SendCounts
    <3>4. \A ops : calls[1] \in CallsOf(ops) <=> calls'[1] \in CallsOf(ops)
      BY <2>1, <3>1 DEF CallsOf
    <3>5. \A ops : Places(calls, CallsOf(ops)) = Places(calls', CallsOf(ops))
      BY <2>1, <3>1, <3>4 DEF Places
    <3>6. \A ops : Waiters(ops)' = Waiters(ops)
      BY <3>5 DEF Waiters, Number
    <3> QED
      BY <1>1, <2>1, <2>2, <3>3, <3>6 DEF AnswersAreAwaited
  <2> QED
    BY <2>3, <2>4
<1>9. CASE DropAck
  <2>1. PICK ack \in {"SUBACK", "UNSUBACK"} : Read(ack)
    BY <1>9 DEF DropAck
  <2>2. Answers("SUBACK")' <= Answers("SUBACK") /\ Answers("UNSUBACK")' <= Answers("UNSUBACK")
    BY <1>1, <2>1, ReadCounts
  <2>3. ~disturbed /\ \A x : Waiters(x)' = Waiters(x) /\ Requests(x)' = Requests(x)
    BY <1>9 DEF DropAck, SessionTypeOK, Waiters, Requests
  <2> QED
    BY <1>1, <2>2, <2>3 DEF AnswersAreAwaited
<1>10. CASE Callback
  <2> DEFINE call == ActiveCall("callback", NoTopic, 0, 0)
  <2>1. call \in CallsOf(Ops) /\ call.op = "callback"
    BY <1>2 DEF ActiveCall, CallsOf, Ops, Names
  <2> HIDE DEF call
  <2>2. Waiters(subscribers)' = Waiters(subscribers)
        /\ Waiters({"unsubscribe"})' = Waiters({"unsubscribe"})
    BY <1>1, <1>10, <2>1, InvokeCounts DEF Callback, call
  <2>3. ~disturbed /\ \A x : Requests(x)' = Requests(x) /\ Answers(x)' = Answers(x)
    BY <1>10 DEF Callback, SessionTypeOK, Requests, Answers
  <2> QED
    BY <1>1, <2>2, <2>3 DEF AnswersAreAwaited
<1>11. CASE CallbackReturns
  <2>1. calls # <<>> /\ Innermost.op = "callback"
    BY <1>11 DEF CallbackReturns, Waits
  <2>2. Waiters(subscribers)' = Waiters(subscribers)
        /\ Waiters({"unsubscribe"})' = Waiters({"unsubscribe"})
    BY <1>1, <1>11, <2>1, ReturnCounts DEF CallbackReturns
  <2>3. ~disturbed /\ \A x : Requests(x)' = Requests(x) /\ Answers(x)' = Answers(x)
    BY <1>11 DEF CallbackReturns, SessionTypeOK, Requests, Answers
  <2> QED
    BY <1>1, <2>2, <2>3 DEF AnswersAreAwaited
<1>12. CASE RequestFails
  BY <1>12 DEF RequestFails
<1>13. CASE Broker
  <2>1. ~disturbed /\ \A ops : Waiters(ops)' = Waiters(ops)
    BY <1>13 DEF Broker, SessionTypeOK, Waiters
  <2> QED
    BY <1>1, <1>13, <2>1, BrokerCounts DEF AnswersAreAwaited
<1>14. CASE ConnectionLost
  <2>1. toBroker' = <<>> /\ toClient' = <<>> /\ UNCHANGED calls
    BY <1>14 DEF ConnectionLost
  <2>2. \A type : Requests(type)' = 0 /\ Answers(type)' = 0
    BY <2>1, NumberEmpty DEF Requests, Answers
  <2> QED
    BY <1>1, <2>1, <2>2 DEF AnswersAreAwaited
<1>15. CASE UNCHANGED sessionVars
  BY <1>15 DEF sessionVars, AnswersAreAwaited, Waiters, Requests, Answers
<1> QED
  BY <1>3, <1>4, <1>5, <1>6, <1>7, <1>8, <1>9, <1>10, <1>11, <1>12, <1>13, <1>14,
     <1>15 DEF SessionNext

-----------------------------------------------------------------------------
(* What the broker will have for a topic. *)

\* A request decides for its own topic and changes nothing for another.
LEMMA SendDecides ==
  ASSUME SessionTypeOK, NEW type \in {"SUBSCRIBE", "UNSUBSCRIBE"}, NEW topic \in Names,
         toBroker' = Append(toBroker, [type |-> type, topic |-> topic])
  PROVE  LastIs(type, topic)'
<1>1. /\ Len(toBroker) \in Nat
      /\ DOMAIN toBroker' = 1 .. Len(toBroker) + 1
      /\ toBroker'[Len(toBroker) + 1] = [type |-> type, topic |-> topic]
  BY SendFits
<1>2. Len(toBroker) + 1 \in DOMAIN toBroker' /\ \A j \in DOMAIN toBroker' : ~ (j > Len(toBroker) + 1)
  BY <1>1
<1> QED
  BY <1>1, <1>2 DEF LastIs, NoneAfter

\* A request about one topic leaves what another will come to.
LEMMA SendSparesOthers ==
  ASSUME SessionTypeOK, NEW type \in {"SUBSCRIBE", "UNSUBSCRIBE"}, NEW topic \in Names,
         toBroker' = Append(toBroker, [type |-> type, topic |-> topic]),
         UNCHANGED broker, NEW t, t # topic
  PROVE  (WillHave(t) => WillHave(t)') /\ (WillLack(t) => WillLack(t)')
<1>1. /\ Len(toBroker) \in Nat
      /\ DOMAIN toBroker = 1 .. Len(toBroker)
      /\ DOMAIN toBroker' = 1 .. Len(toBroker) + 1
      /\ \A i \in 1 .. Len(toBroker) : toBroker'[i] = toBroker[i]
      /\ toBroker'[Len(toBroker) + 1] = [type |-> type, topic |-> topic]
  BY SendFits
<1>2. \A j \in DOMAIN toBroker' :
        \/ j \in DOMAIN toBroker /\ toBroker'[j] = toBroker[j]
        \/ toBroker'[j].topic # t
  <2>1. \A j \in DOMAIN toBroker' : j \in 1 .. Len(toBroker) \/ j = Len(toBroker) + 1
    BY <1>1
  <2> QED
    BY <1>1, <2>1
<1>3. \A i : NoneAfter(i, t) => NoneAfter(i, t)'
  BY <1>2 DEF NoneAfter
<1>4. \A one : LastIs(one, t) => LastIs(one, t)'
  <2>1. \A i \in DOMAIN toBroker : i \in DOMAIN toBroker' /\ toBroker'[i] = toBroker[i]
    BY <1>1
  <2> QED
    BY <1>3, <2>1 DEF LastIs
<1> QED
  BY <1>3, <1>4 DEF WillHave, WillLack

\* What the broker carries out is what it was to come to.
LEMMA BrokerKeepsWord ==
  ASSUME SessionTypeOK, Broker, ~disturbed', NEW t \in TopicNames
  PROVE  (WillHave(t) => WillHave(t)') /\ (WillLack(t) => WillLack(t)')
<1>1. /\ Len(toBroker) \in Nat \ {0}
      /\ DOMAIN toBroker = 1 .. Len(toBroker)
      /\ DOMAIN toBroker' = 1 .. Len(toBroker) - 1
      /\ \A i \in 1 .. Len(toBroker) - 1 : toBroker'[i] = toBroker[i + 1]
      /\ Head(toBroker) = toBroker[1]
  BY BrokerFits
<1>2. ASSUME NEW i \in DOMAIN toBroker, i # 1, NoneAfter(i, t)
      PROVE  i - 1 \in DOMAIN toBroker' /\ toBroker'[i - 1] = toBroker[i] /\ NoneAfter(i - 1, t)'
  <2>1. i \in Nat /\ i - 1 \in 1 .. Len(toBroker) - 1 /\ toBroker'[i - 1] = toBroker[i]
    BY <1>1, <1>2
  <2>2. ASSUME NEW j \in DOMAIN toBroker', j > i - 1 PROVE toBroker'[j].topic # t
    <3>1. j + 1 \in DOMAIN toBroker /\ j + 1 > i /\ toBroker'[j] = toBroker[j + 1]
      BY <1>1, <2>1, <2>2
    <3> QED
      BY <1>2, <3>1 DEF NoneAfter
  <2> QED
    BY <1>1, <2>1, <2>2 DEF NoneAfter
<1>3. ASSUME NEW one, LastIs(one, t)
      PROVE  \/ LastIs(one, t)'
             \/ Head(toBroker).type = one /\ Head(toBroker).topic = t /\ NoneAfter(1, t)
  <2>1. PICK i \in DOMAIN toBroker :
          toBroker[i].type = one /\ toBroker[i].topic = t /\ NoneAfter(i, t)
    BY <1>3 DEF LastIs
  <2>2. CASE i = 1
    BY <1>1, <2>1, <2>2
  <2>3. CASE i # 1
    <3>1. i - 1 \in DOMAIN toBroker' /\ toBroker'[i - 1] = toBroker[i] /\ NoneAfter(i - 1, t)'
      BY <1>2, <2>1, <2>3
    <3> QED
      BY <2>1, <3>1 DEF LastIs
  <2> QED
    BY <2>2, <2>3
<1>4. NoneAfter(1, t) => NoneAfter(0, t)'
  <2>1. \A j \in DOMAIN toBroker' :
          j + 1 \in DOMAIN toBroker /\ j + 1 > 1 /\ toBroker'[j] = toBroker[j + 1]
    BY <1>1
  <2> QED
    BY <2>1 DEF NoneAfter
<1>5. NoneAfter(0, t) => NoneAfter(1, t) /\ Head(toBroker).topic # t
  <2>1. 1 \in DOMAIN toBroker /\ \A j \in DOMAIN toBroker : j > 0
    BY <1>1
  <2> QED
    BY <1>1, <2>1 DEF NoneAfter
<1>6. /\ Head(toBroker).topic # t => (t \in broker <=> t \in broker')
      /\ Head(toBroker).type = "SUBSCRIBE" /\ Head(toBroker).topic = t => t \in broker'
      /\ Head(toBroker).type = "UNSUBSCRIBE" /\ Head(toBroker).topic = t => t \notin broker'
  BY SessionAssumption DEF Broker
<1> QED
  BY <1>3, <1>4, <1>5, <1>6 DEF WillHave, WillLack

-----------------------------------------------------------------------------
(* What the calls in progress are about. *)

\* What is in progress once a call is made,
LEMMA InvokeProgress ==
  ASSUME SessionTypeOK, NEW call \in CallsOf(Ops), Invoke(call), NEW op, NEW t
  PROVE  InProgress(op, t)' <=> InProgress(op, t) \/ (call.op = op /\ call.topic = t)
<1>1. /\ Len(calls) \in Nat
      /\ DOMAIN calls = 1 .. Len(calls) /\ DOMAIN calls' = 1 .. Len(calls) + 1
      /\ \A i \in 1 .. Len(calls) : calls'[i] = calls[i]
      /\ calls'[Len(calls) + 1] = call
  BY InvokeFits
<1>2. /\ \A i \in DOMAIN calls : i \in DOMAIN calls' /\ calls'[i] = calls[i]
      /\ Len(calls) + 1 \in DOMAIN calls'
      /\ \A i \in DOMAIN calls' : i \in DOMAIN calls \/ i = Len(calls) + 1
  BY <1>1
<1> QED
  BY <1>1, <1>2 DEF InProgress

\* and before it returned.
LEMMA ReturnProgress ==
  ASSUME SessionTypeOK, calls # <<>>, Return, NEW op, NEW t
  PROVE  InProgress(op, t) <=> InProgress(op, t)' \/ (Innermost.op = op /\ Innermost.topic = t)
<1>1. /\ Len(calls) \in Nat \ {0} /\ DOMAIN calls = 1 .. Len(calls)
      /\ DOMAIN calls' = 1 .. Len(calls) - 1
      /\ \A i \in 1 .. Len(calls) - 1 : calls'[i] = calls[i]
  BY InnermostFits, FrontFits
<1>2. /\ \A i \in DOMAIN calls' : i \in DOMAIN calls /\ calls'[i] = calls[i]
      /\ Len(calls) \in DOMAIN calls
      /\ \A i \in DOMAIN calls : i \in DOMAIN calls' \/ i = Len(calls)
  BY <1>1
<1> QED
  BY <1>2 DEF InProgress, Innermost

\* A handler that is yet to be come to stays so while other calls come and go.
LEMMA InvokeUnreached ==
  ASSUME SessionTypeOK, NEW call \in CallsOf(Ops), Invoke(call), NEW t,
         UNCHANGED messageHandlers
  PROVE  Unreached(t) => Unreached(t)'
<1> SUFFICES ASSUME Unreached(t) PROVE Unreached(t)'
  OBVIOUS
<1>1. Len(calls) \in Nat \ {0}
  BY InnermostFits DEF Unreached
<1>2. calls' # <<>> /\ calls'[1] = calls[1]
  <2>1. calls' # <<>>
    BY AppendProperties DEF Invoke, SessionTypeOK
  <2>2. 1 \in 1 .. Len(calls)
    BY <1>1
  <2> QED
    BY <2>1, <2>2, InvokeFits
<1> QED
  BY <1>2 DEF Unreached, HandlerIndex

\* The same when a call inside the resubscription returns.
LEMMA ReturnUnreached ==
  ASSUME SessionTypeOK, CallsFit, calls # <<>>, Return, Innermost.op # "resubscribe", NEW t,
         \A i \in HandlerIndex : messageHandlers[i] = t => messageHandlers'[i] = t
  PROVE  Unreached(t) => Unreached(t)'
<1> SUFFICES ASSUME Unreached(t) PROVE Unreached(t)'
  OBVIOUS
<1>1. Len(calls) \in Nat \ {0} /\ Len(calls) # 1
  BY InnermostFits DEF Unreached, Innermost
<1>2. calls' # <<>> /\ calls'[1] = calls[1]
  <2>1. 1 \in 1 .. Len(calls) - 1 /\ Len(calls') # 0
    BY <1>1, FrontFits
  <2> QED
    BY <2>1, FrontFits, EmptySeq
<1> QED
  BY <1>2 DEF Unreached, HandlerIndex

-----------------------------------------------------------------------------
(* The broker agrees with the handlers. *)

\* Without a request, and without the broker, nothing is decided.
LEMMA WireStays ==
  ASSUME UNCHANGED <<toBroker, broker>>, NEW t
  PROVE  (WillHave(t) => WillHave(t)') /\ (WillLack(t) => WillLack(t)')
BY DEF WillHave, WillLack, LastIs, NoneAfter

\* A step that is not about a topic.
LEMMA AgreedStays ==
  ASSUME NEW t, Agreed(t),
         \A op \in {"subscribe", "unsubscribe"} : InProgress(op, t)' <=> InProgress(op, t),
         WillHave(t) => WillHave(t)', WillLack(t) => WillLack(t)',
         (t \in Handled)' <=> t \in Handled, Unreached(t) => Unreached(t)'
  PROVE  Agreed(t)'
BY DEF Agreed

\* Every step that leaves the connection undisturbed keeps the broker in
\* agreement with the handlers and the calls in progress.
LEMMA AgreedStep ==
  ASSUME SessionTypeOK, CallsFit, OfflineIsEmpty, [SessionNext]_sessionVars,
         ~disturbed', online', NEW t \in TopicNames,
         ~disturbed /\ online => Agreed(t)
  PROVE  Agreed(t)'
<1>1. NumHandlers \in Nat \ {0} /\ NoTopic \notin TopicNames
  BY SessionAssumption
<1>2. ASSUME NEW u \in TopicNames, Subscribe(u) PROVE Agreed(t)'
  <2> DEFINE call == ActiveCall("subscribe", u, FreeIndex, 0)
  <2>1. call \in CallsOf(Ops) /\ call.op = "subscribe" /\ call.topic = u
    BY <1>1, FreeIndexIsFirst DEF ActiveCall, CallsOf, Ops, Names
  <2>2. /\ Invoke(call) /\ UNCHANGED <<messageHandlers, broker>>
        /\ toBroker' = Append(toBroker, [type |-> "SUBSCRIBE", topic |-> u])
        /\ online /\ ~disturbed /\ ~InProgress("unsubscribe", u) /\ u \in Names
    BY <1>2 DEF Subscribe, SendPacket, Names, SessionTypeOK
  <2> HIDE DEF call
  <2>3. \A op : InProgress(op, t)' <=> InProgress(op, t) \/ (op = "subscribe" /\ u = t)
    BY <2>1, <2>2, InvokeProgress
  <2>4. CASE t = u
    <3>1. WillHave(t)'
      BY <2>2, <2>4, SendDecides DEF WillHave
    <3> QED
      BY <2>2, <2>3, <2>4, <3>1 DEF Agreed
  <2>5. CASE t # u
    <3>1. (WillHave(t) => WillHave(t)') /\ (WillLack(t) => WillLack(t)')
      BY <2>2, <2>5, SendSparesOthers
    <3>2. Unreached(t) => Unreached(t)'
      BY <2>1, <2>2, InvokeUnreached
    <3>3. (t \in Handled)' <=> t \in Handled
      BY <2>2 DEF Handled
    <3> QED
      BY <2>2, <2>3, <2>5, <3>1, <3>2, <3>3, AgreedStays
  <2> QED
    BY <2>4, <2>5
<1>3. ASSUME NEW u \in TopicNames, Unsubscribe(u) PROVE Agreed(t)'
  <2> DEFINE call == ActiveCall("unsubscribe", u, 0, 0)
  <2>1. call \in CallsOf(Ops) /\ call.op = "unsubscribe" /\ call.topic = u
    BY <1>1 DEF ActiveCall, CallsOf, Ops, Names
  <2>2. /\ Invoke(call) /\ UNCHANGED <<messageHandlers, broker>>
        /\ toBroker' = Append(toBroker, [type |-> "UNSUBSCRIBE", topic |-> u])
        /\ online /\ ~disturbed /\ ~InProgress("subscribe", u) /\ u \in Names
    BY <1>3 DEF Unsubscribe, SendPacket, Names, SessionTypeOK
  <2> HIDE DEF call
  <2>3. \A op : InProgress(op, t)' <=> InProgress(op, t) \/ (op = "unsubscribe" /\ u = t)
    BY <2>1, <2>2, InvokeProgress
  <2>4. CASE t = u
    <3>1. WillLack(t)'
      BY <2>2, <2>4, SendDecides DEF WillLack
    <3> QED
      BY <2>2, <2>3, <2>4, <3>1 DEF Agreed
  <2>5. CASE t # u
    <3>1. (WillHave(t) => WillHave(t)') /\ (WillLack(t) => WillLack(t)')
      BY <2>2, <2>5, SendSparesOthers
    <3>2. Unreached(t) => Unreached(t)'
      BY <2>1, <2>2, InvokeUnreached
    <3>3. (t \in Handled)' <=> t \in Handled
      BY <2>2 DEF Handled
    <3> QED
      BY <2>2, <2>3, <2>5, <3>1, <3>2, <3>3, AgreedStays
  <2> QED
    BY <2>4, <2>5
<1>4. CASE Subscribed
  <2> DEFINE at == Innermost.at
             u == Innermost.topic
  <2>1. /\ calls # <<>> /\ Innermost.op = "subscribe" /\ Return
        /\ messageHandlers' = [messageHandlers EXCEPT ![at] = u]
        /\ messageHandlers[at] \in {NoTopic, u}
        /\ toClient # <<>> /\ online' = online /\ UNCHANGED <<toBroker, broker>> /\ ~disturbed
    BY <1>4 DEF Subscribed, Waits, Read, SessionTypeOK
  <2>2. at \in HandlerIndex /\ u \in TopicNames /\ InProgress("subscribe", u)
    BY <2>1, InnermostFits DEF CallsFit, Innermost, InProgress
  <2>3. Agreed(t)
    BY <2>1
  <2>4. \A op : InProgress(op, t) <=> InProgress(op, t)' \/ (op = "subscribe" /\ u = t)
    BY <2>1, ReturnProgress
  <2>5. (WillHave(t) => WillHave(t)') /\ (WillLack(t) => WillLack(t)')
    BY <2>1, WireStays
  <2>6. /\ messageHandlers'[at] = u
        /\ \A i \in HandlerIndex : i # at => messageHandlers'[i] = messageHandlers[i]
    BY <2>1, <2>2 DEF SessionTypeOK
  <2> HIDE DEF at, u
  <2>7. CASE t = u
    <3>1. WillHave(t)' /\ ~InProgress("unsubscribe", t)'
      BY <2>2, <2>3, <2>4, <2>5, <2>7 DEF Agreed
    <3>2. (t \in Handled)'
      BY <1>1, <2>2, <2>6, <2>7 DEF Handled, HandlerIndex
    <3> QED
      BY <3>1, <3>2 DEF Agreed
  <2>8. CASE t # u
    <3>1. \A i \in HandlerIndex : messageHandlers'[i] = t <=> messageHandlers[i] = t
      BY <1>1, <2>1, <2>6, <2>8
    <3>2. (t \in Handled)' <=> t \in Handled
      BY <3>1 DEF Handled, HandlerIndex
    <3>3. Unreached(t) => Unreached(t)'
      BY <2>1, <3>1, ReturnUnreached
    <3> QED
      BY <2>3, <2>4, <2>5, <2>8, <3>2, <3>3, AgreedStays
  <2> QED
    BY <2>7, <2>8
<1>5. CASE Unsubscribed
  <2> DEFINE u == Innermost.topic
  <2>1. /\ calls # <<>> /\ Innermost.op = "unsubscribe" /\ Return
        /\ messageHandlers' = [i \in HandlerIndex |->
             IF messageHandlers[i] = u THEN NoTopic ELSE messageHandlers[i]]
        /\ online' = online /\ UNCHANGED <<toBroker, broker>> /\ ~disturbed
    BY <1>5 DEF Unsubscribed, Waits, SessionTypeOK
  <2>2. u \in TopicNames /\ InProgress("unsubscribe", u)
    BY <2>1, InnermostFits DEF CallsFit, Innermost, InProgress
  <2>3. Agreed(t)
    BY <2>1
  <2>4. \A op : InProgress(op, t) <=> InProgress(op, t)' \/ (op = "unsubscribe" /\ u = t)
    BY <2>1, ReturnProgress
  <2>5. (WillHave(t) => WillHave(t)') /\ (WillLack(t) => WillLack(t)')
    BY <2>1, WireStays
  <2> HIDE DEF u
  <2>7. CASE t = u
    <3>1. WillLack(t)' /\ ~InProgress("subscribe", t)'
      BY <2>2, <2>3, <2>4, <2>5, <2>7 DEF Agreed
    <3>2. ~(t \in Handled)'
      BY <1>1, <2>1, <2>7 DEF Handled, HandlerIndex
    <3> QED
      BY <3>1, <3>2 DEF Agreed
  <2>8. CASE t # u
    <3>1. \A i \in HandlerIndex : messageHandlers'[i] = t <=> messageHandlers[i] = t
      BY <1>1, <2>1, <2>8
    <3>2. (t \in Handled)' <=> t \in Handled
      BY <3>1 DEF Handled, HandlerIndex
    <3>3. Unreached(t) => Unreached(t)'
      BY <2>1, <3>1, ReturnUnreached
    <3> QED
      BY <2>3, <2>4, <2>5, <2>8, <3>2, <3>3, AgreedStays
  <2> QED
    BY <2>7, <2>8
<1>6. CASE Reconnected
  <2>1. /\ calls = <<>> /\ toBroker = <<>> /\ broker = {} /\ UNCHANGED <<messageHandlers, broker>>
        /\ \A i \in HandlerIndex : i > FreeIndex => messageHandlers[i] = NoTopic
    BY <1>6 DEF Reconnected, OfflineIsEmpty
  <2>2. ~InProgress("subscribe", t) /\ ~InProgress("unsubscribe", t)
    BY <2>1 DEF InProgress
  <2>3. ASSUME NEW i \in HandlerIndex, messageHandlers[i] = t PROVE i < FreeIndex
    BY <1>1, <2>1, <2>3, FreeIndexIsFirst DEF HandlerIndex
  <2>4. CASE FreeIndex = 0
    <3>1. UNCHANGED <<calls, toBroker, broker, messageHandlers>>
      BY <1>6, <2>4 DEF Reconnected
    <3>2. WillLack(t)'
      BY <2>1, <3>1 DEF WillLack, NoneAfter
    <3>3. ~(t \in Handled)'
      <4>1. \A i \in HandlerIndex : messageHandlers[i] # t
        BY <1>1, <2>3, <2>4 DEF HandlerIndex
      <4> QED
        BY <3>1, <4>1 DEF Handled, HandlerIndex
    <3>4. ~InProgress("subscribe", t)' /\ ~InProgress("unsubscribe", t)'
      BY <2>2, <3>1 DEF InProgress
    <3> QED
      BY <3>2, <3>3, <3>4 DEF Agreed
  <2>5. CASE FreeIndex # 0
    <3> DEFINE first == messageHandlers[0]
               call == ActiveCall("resubscribe", first, 0, FreeIndex)
    <3>1. first \in Names /\ 0 \in HandlerIndex /\ 0 < FreeIndex /\ first # NoTopic
      BY <1>1, <2>5, FreeIndexIsFirst DEF HandlerIndex, SessionTypeOK
    <3>2. call \in CallsOf(Ops) /\ call.op = "resubscribe" /\ call.at = 0
          /\ call.upto = FreeIndex
      BY <1>1, <3>1, FreeIndexIsFirst DEF ActiveCall, CallsOf, Ops
    <3>3. Invoke(call) /\ toBroker' = <<[type |-> "SUBSCRIBE", topic |-> first]>>
      BY <1>6, <2>5 DEF Reconnected
    <3>4. toBroker' = Append(toBroker, [type |-> "SUBSCRIBE", topic |-> first])
      BY <2>1, <3>3
    <3> HIDE DEF call
    <3>5. ~InProgress("subscribe", t)' /\ ~InProgress("unsubscribe", t)'
      BY <2>2, <3>2, <3>3, InvokeProgress
    <3>6. ASSUME (t \in Handled)' PROVE WillHave(t)' \/ Unreached(t)'
      <4>1. PICK i \in HandlerIndex : messageHandlers[i] = t
        BY <2>1, <3>6 DEF Handled, HandlerIndex
      <4>2. CASE i = 0
        BY <3>1, <3>4, <4>1, <4>2, SendDecides DEF WillHave
      <4>3. CASE i # 0
        <5>1. calls' # <<>> /\ calls'[1] = call
          <6>1. Len(calls) = 0
            BY <2>1
          <6>2. calls'[Len(calls) + 1] = call /\ Len(calls') = Len(calls) + 1
            BY <3>2, <3>3, InvokeFits
          <6> QED
            BY <6>1, <6>2
        <5>2. 0 < i /\ i < FreeIndex
          BY <1>1, <2>3, <4>1, <4>3 DEF HandlerIndex
        <5> QED
          BY <2>1, <3>2, <4>1, <5>1, <5>2 DEF Unreached, HandlerIndex
      <4> QED
        BY <4>2, <4>3
    <3>7. ASSUME ~(t \in Handled)' PROVE WillLack(t)'
      <4>1. t # first
        BY <1>1, <2>1, <3>1, <3>7 DEF Handled, HandlerIndex
      <4>2. WillLack(t)
        BY <2>1 DEF WillLack, NoneAfter
      <4> QED
        BY <2>1, <3>1, <3>4, <4>1, <4>2, SendSparesOthers
    <3> QED
      BY <3>5, <3>6, <3>7 DEF Agreed
  <2> QED
    BY <2>4, <2>5
<1>7. CASE Resubscribed
  <2> DEFINE next == calls[1].at + 1
  <2>1. /\ calls # <<>> /\ Len(calls) = 1 /\ DOMAIN calls = {1} /\ Innermost = calls[1]
        /\ calls[1] \in CallsOf(Ops) /\ calls[1].op = "resubscribe"
        /\ UNCHANGED <<messageHandlers, broker, online>> /\ ~disturbed
    BY <1>7, ResubscribedFits DEF Resubscribed, Waits, SessionTypeOK
  <2>2. calls[1].at \in Nat /\ calls[1].upto \in Nat
    BY <1>1, <2>1 DEF CallsOf
  <2>3. ~InProgress("subscribe", t) /\ ~InProgress("unsubscribe", t) /\ Agreed(t)
    BY <2>1 DEF InProgress
  <2>4. (t \in Handled)' <=> t \in Handled
    BY <2>1 DEF Handled
  <2>5. CASE next = calls[1].upto
    <3>1. Return /\ UNCHANGED <<toBroker, broker>>
      BY <1>7, <2>1, <2>5 DEF Resubscribed
    <3>2. ~Unreached(t)
      BY <2>2, <2>5 DEF Unreached, HandlerIndex
    <3>3. \A op \in {"subscribe", "unsubscribe"} : ~InProgress(op, t)'
      BY <2>1, <2>3, <3>1, ReturnProgress
    <3>4. (WillHave(t) => WillHave(t)') /\ (WillLack(t) => WillLack(t)')
      BY <3>1, WireStays
    <3> QED
      BY <2>3, <2>4, <3>2, <3>3, <3>4 DEF Agreed
  <2>6. CASE next # calls[1].upto
    <3>1. /\ next \in HandlerIndex /\ messageHandlers[next] \in Names
          /\ calls' \in Seq(CallsOf(Ops)) /\ Len(calls') = 1 /\ DOMAIN calls' = {1}
          /\ calls'[1].op = "resubscribe" /\ calls'[1].upto = calls[1].upto
          /\ calls'[1].at = next
      BY <1>7, <2>6, ResubscribedFits
    <3>2. toBroker' = Append(toBroker, [type |-> "SUBSCRIBE", topic |-> messageHandlers[next]])
      BY <1>7, <2>1, <2>6 DEF Resubscribed, SendPacket
    <3>3. \A op \in {"subscribe", "unsubscribe"} : ~InProgress(op, t)'
      BY <3>1 DEF InProgress
    <3>4. CASE t = messageHandlers[next]
      <4>1. WillHave(t)'
        BY <3>1, <3>2, <3>4, SendDecides DEF WillHave
      <4>2. t \in Handled
        BY <1>1, <3>1, <3>4 DEF Handled
      <4> QED
        BY <2>4, <3>3, <4>1, <4>2 DEF Agreed
    <3>5. CASE t # messageHandlers[next]
      <4>1. (WillHave(t) => WillHave(t)') /\ (WillLack(t) => WillLack(t)')
        BY <2>1, <3>1, <3>2, <3>5, SendSparesOthers
      <4>2. ASSUME Unreached(t) PROVE Unreached(t)'
        <5>1. PICK i \in HandlerIndex :
                calls[1].at < i /\ i < calls[1].upto /\ messageHandlers[i] = t
          BY <4>2 DEF Unreached
        <5>2. i # next /\ next < i
          BY <2>2, <3>5, <5>1 DEF HandlerIndex
        <5>3. calls' # <<>>
          <6>1. Len(calls') = 1
            BY <3>1
          <6> QED
            BY <6>1
        <5> QED
          BY <2>1, <3>1, <5>1, <5>2, <5>3 DEF Unreached, HandlerIndex
      <4> QED
        BY <2>3, <2>4, <3>3, <4>1, <4>2 DEF Agreed
    <3> QED
      BY <3>4, <3>5
  <2> QED
    BY <2>5, <2>6
<1>8. CASE DropAck
  <2>1. /\ UNCHANGED <<messageHandlers, calls, toBroker, broker>>
        /\ ~disturbed /\ online
    BY <1>8 DEF DropAck
  <2>2. /\ \A op : InProgress(op, t)' <=> InProgress(op, t)
        /\ (t \in Handled)' <=> t \in Handled
        /\ Unreached(t) => Unreached(t)'
    BY <2>1 DEF InProgress, Handled, Unreached, HandlerIndex
  <2> QED
    BY <2>1, <2>2, WireStays, AgreedStays
<1>9. CASE Callback
  <2> DEFINE call == ActiveCall("callback", NoTopic, 0, 0)
  <2>1. call \in CallsOf(Ops) /\ call.op = "callback"
    BY <1>1 DEF ActiveCall, CallsOf, Ops, Names
  <2>2. Invoke(call) /\ UNCHANGED <<messageHandlers, toBroker, broker>> /\ ~disturbed /\ online
    BY <1>9 DEF Callback
  <2> HIDE DEF call
  <2>3. \A op \in {"subscribe", "unsubscribe"} : InProgress(op, t)' <=> InProgress(op, t)
    BY <2>1, <2>2, InvokeProgress
  <2>4. (t \in Handled)' <=> t \in Handled
    BY <2>2 DEF Handled
  <2>5. Unreached(t) => Unreached(t)'
    BY <2>1, <2>2, InvokeUnreached
  <2> QED
    BY <2>2, <2>3, <2>4, <2>5, WireStays, AgreedStays
<1>10. CASE CallbackReturns
  <2>1. /\ calls # <<>> /\ Innermost.op = "callback" /\ Return
        /\ UNCHANGED <<messageHandlers, toBroker, broker>> /\ ~disturbed /\ online
    BY <1>10 DEF CallbackReturns, Waits
  <2>2. \A op \in {"subscribe", "unsubscribe"} : InProgress(op, t)' <=> InProgress(op, t)
    BY <2>1, ReturnProgress
  <2>3. (t \in Handled)' <=> t \in Handled
    BY <2>1 DEF Handled
  <2>4. Unreached(t) => Unreached(t)'
    BY <2>1, ReturnUnreached
  <2> QED
    BY <2>1, <2>2, <2>3, <2>4, WireStays, AgreedStays
<1>11. CASE RequestFails
  BY <1>11 DEF RequestFails
<1>12. CASE Broker
  <2>1. UNCHANGED <<messageHandlers, calls, online>> /\ ~disturbed
    <3>1. UNCHANGED <<messageHandlers, calls, online>>
      BY <1>12 DEF Broker
    <3>2. ~disturbed
      BY <1>12 DEF Broker
    <3> QED
      BY <3>1, <3>2
  <2>2. /\ \A op : InProgress(op, t)' <=> InProgress(op, t)
        /\ (t \in Handled)' <=> t \in Handled
        /\ Unreached(t) => Unreached(t)'
    BY <2>1 DEF InProgress, Handled, Unreached, HandlerIndex
  <2> QED
    BY <1>12, <2>1, <2>2, BrokerKeepsWord, AgreedStays
<1>13. CASE ConnectionLost
  BY <1>13 DEF ConnectionLost
<1>14. CASE UNCHANGED sessionVars
  <2>1. UNCHANGED <<messageHandlers, calls, toBroker, broker>> /\ ~disturbed /\ online
    BY <1>14 DEF sessionVars
  <2>2. /\ \A op : InProgress(op, t)' <=> InProgress(op, t)
        /\ (t \in Handled)' <=> t \in Handled
        /\ Unreached(t) => Unreached(t)'
    BY <2>1 DEF InProgress, Handled, Unreached, HandlerIndex
  <2> QED
    BY <2>1, <2>2, WireStays, AgreedStays
<1> QED
  BY <1>2, <1>3, <1>4, <1>5, <1>6, <1>7, <1>8, <1>9, <1>10, <1>11, <1>12, <1>13,
     <1>14 DEF SessionNext

-----------------------------------------------------------------------------
(* The theorems. *)

\* The invariant holds initially.
LEMMA SessionInvInit == SessionInit => SessionInv
<1> SUFFICES ASSUME SessionInit PROVE SessionInv
  OBVIOUS
<1>1. SessionTypeOK
  BY SessionTypeInit
<1>2. /\ calls = <<>> /\ toBroker = <<>> /\ toClient = <<>> /\ broker = {} /\ online
      /\ messageHandlers = [i \in HandlerIndex |-> NoTopic]
  BY DEF SessionInit
<1>3. CallsFit
  BY <1>2 DEF CallsFit
<1>4. AnswersAreAwaited
  <2>1. \A x : Waiters(x) = 0 /\ Requests(x) = 0 /\ Answers(x) = 0
    BY <1>2, NumberEmpty DEF Waiters, Requests, Answers
  <2> QED
    BY <2>1 DEF AnswersAreAwaited
<1>5. ASSUME NEW t \in TopicNames PROVE Agreed(t)
  <2>1. ~InProgress("subscribe", t) /\ ~InProgress("unsubscribe", t)
    BY <1>2 DEF InProgress
  <2>2. t \notin Handled /\ WillLack(t)
    BY <1>2 DEF Handled, WillLack, NoneAfter
  <2> QED
    BY <2>1, <2>2 DEF Agreed
<1> QED
  BY <1>1, <1>2, <1>3, <1>4, <1>5 DEF SessionInv, OfflineIsEmpty

\* Every step keeps the invariant.
LEMMA SessionInvStep == SessionInv /\ [SessionNext]_sessionVars => SessionInv'
<1> SUFFICES ASSUME SessionInv, [SessionNext]_sessionVars PROVE SessionInv'
  OBVIOUS
<1> USE DEF SessionInv
<1>1. SessionTypeOK'
  BY SessionTypeStep
<1>2. CallsFit'
  BY CallsFitStep
<1>3. OfflineIsEmpty'
  BY OfflineStep
<1>4. ~disturbed' => AnswersAreAwaited'
  BY <1>1, AwaitedStep
<1>5. ~disturbed' /\ online' => \A t \in TopicNames : Agreed(t)'
  BY AgreedStep
<1> QED
  BY <1>1, <1>2, <1>3, <1>4, <1>5

\* No call is in progress, so no answer is due: the broker has carried out all
\* requests, and has what the handlers say.
LEMMA SessionInvExact == SessionInv => SessionIsExact
<1> SUFFICES ASSUME SessionInv, calls = <<>>, online, ~disturbed
             PROVE  broker = Handled /\ toBroker = <<>> /\ toClient = <<>>
  BY DEF SessionIsExact
<1> USE DEF SessionInv
<1>1. /\ \A x : Waiters(x) = 0
      /\ \A x : Requests(x) \in Nat /\ Answers(x) \in Nat
  BY NumberEmpty, NumberIsNat DEF Waiters, Requests, Answers, SessionTypeOK
<1>2. /\ Requests("SUBSCRIBE") = 0 /\ Answers("SUBACK") = 0
      /\ Requests("UNSUBSCRIBE") = 0 /\ Answers("UNSUBACK") = 0
  BY <1>1 DEF AnswersAreAwaited
<1>3. toBroker = <<>>
  <2>1. \A i \in DOMAIN toBroker :
          toBroker[i] \notin RequestsOf({"SUBSCRIBE"}) /\ toBroker[i] \notin RequestsOf({"UNSUBSCRIBE"})
    BY <1>2, NumberIsNat DEF Requests, SessionTypeOK
  <2>2. ASSUME toBroker # <<>> PROVE FALSE
    <3>1. 1 \in DOMAIN toBroker /\ toBroker[1] \in RequestsOf({"SUBSCRIBE", "UNSUBSCRIBE"})
      BY <2>2, EmptySeq, LenProperties DEF SessionTypeOK
    <3> QED
      BY <2>1, <3>1 DEF RequestsOf
  <2> QED
    BY <2>2
<1>4. toClient = <<>>
  <2>1. \A i \in DOMAIN toClient : toClient[i] \notin {"SUBACK"} /\ toClient[i] \notin {"UNSUBACK"}
    BY <1>2, NumberIsNat DEF Answers, SessionTypeOK
  <2>2. ASSUME toClient # <<>> PROVE FALSE
    <3>1. 1 \in DOMAIN toClient /\ toClient[1] \in {"SUBACK", "UNSUBACK"}
      BY <2>2, EmptySeq, LenProperties DEF SessionTypeOK
    <3> QED
      BY <2>1, <3>1
  <2> QED
    BY <2>2
<1>5. ASSUME NEW t \in TopicNames PROVE t \in broker <=> t \in Handled
  <2>1. ~InProgress("subscribe", t) /\ ~InProgress("unsubscribe", t) /\ ~Unreached(t)
    BY DEF InProgress, Unreached
  <2>2. (WillHave(t) => t \in broker) /\ (WillLack(t) => t \notin broker)
    BY <1>3 DEF WillHave, WillLack, LastIs
  <2> QED
    BY <2>1, <2>2 DEF Agreed
<1>6. Handled \subseteq TopicNames /\ broker \subseteq TopicNames
  BY DEF SessionTypeOK, Handled, Names
<1> QED
  BY <1>3, <1>4, <1>5, <1>6

\* On a connection on which no request failed or was refused, none was made while
\* the opposite one for its topic waited, and no handler was overwritten or left
\* out, an idle client has handlers for exactly the topics the broker sends it,
\* and nothing is under way that a later request could take for its answer,
\* although acknowledgements are matched by their type alone.
THEOREM SessionIsExactCorrect == SessionSpec => []SessionIsExact
<1>1. SessionSpec => []SessionInv
  BY SessionInvInit, SessionInvStep, PTL DEF SessionSpec
<1> QED
  BY <1>1, SessionInvExact, PTL

-----------------------------------------------------------------------------
(* Packet lengths: powers of the radix and the worth of digits. *)

\* Division by the radix: the quotient and the digit are worth the dividend.
LEMMA DivMod ==
  ASSUME NEW a \in Nat
  PROVE  /\ a \div Radix \in Nat /\ (a % Radix) \in 0 .. Radix - 1
         /\ a = Radix * (a \div Radix) + (a % Radix)
<1>1. Radix \in Nat /\ Radix > 1
  BY LengthAssumption
<1>2. a % Radix \in 0 .. Radix - 1
  BY <1>1
<1>3. a \div Radix \in Int
  BY <1>1
<1>4. a = Radix * (a \div Radix) + (a % Radix)
  BY <1>1
<1>5. a \div Radix \in Nat
  BY <1>1, <1>2, <1>3, <1>4
<1> QED
  BY <1>2, <1>4, <1>5

\* Each power is the radix times the one before.
LEMMA Pow ==
  /\ \A k \in 0 .. 4 : Power(k) \in Nat /\ Power(k) > 0
  /\ \A k \in 0 .. 3 : Power(k + 1) = Radix * Power(k)
<1>1. Radix \in Nat /\ Radix > 1
  BY LengthAssumption
<1>2. /\ Power(0) = 1 /\ Power(1) = Radix /\ Power(2) = Radix * Power(1)
      /\ Power(3) = Radix * Power(2) /\ Power(4) = Radix * Power(3)
  BY <1>1 DEF Power
<1>3. \A n \in Nat \ {0} : Radix * n \in Nat \ {0}
  BY <1>1
<1> HIDE DEF Power
<1>4. /\ Power(1) \in Nat \ {0} /\ Power(2) \in Nat \ {0}
      /\ Power(3) \in Nat \ {0} /\ Power(4) \in Nat \ {0}
  BY <1>1, <1>2, <1>3
<1>5. \A k \in 0 .. 4 : k = 0 \/ k = 1 \/ k = 2 \/ k = 3 \/ k = 4
  OBVIOUS
<1>6. \A k \in 0 .. 4 : Power(k) \in Nat \ {0}
  BY <1>2, <1>4, <1>5
<1> QED
  BY <1>1, <1>2, <1>6

\* Division takes a digit's place off a bound.
LEMMA DivLess ==
  ASSUME NEW a \in Nat, NEW b \in Nat, a < Radix * b
  PROVE  a \div Radix < b
<1> DEFINE q == a \div Radix
<1>1. Radix \in Nat /\ Radix > 1
  BY LengthAssumption
<1>2. q \in Nat /\ Radix * q <= a
  BY <1>1, DivMod
<1> HIDE DEF q
<1>3. ASSUME q >= b PROVE FALSE
  <2>1. Radix * q >= Radix * b
    BY <1>1, <1>2, <1>3
  <2> QED
    BY <1>1, <1>2, <2>1
<1>4. q < b
  BY <1>2, <1>3
<1> QED
  BY <1>4 DEF q

\* A digit in front of a number adds a place to its bound.
LEMMA Grow ==
  ASSUME NEW a \in Nat, NEW b \in Nat, a < b, NEW d \in 0 .. Radix - 1
  PROVE  a + d * b \in Nat /\ a + d * b < Radix * b
<1>1. Radix \in Nat /\ Radix > 1
  BY LengthAssumption
<1>2. d * b <= (Radix - 1) * b
  BY <1>1
<1>3. (Radix - 1) * b = Radix * b - b
  BY <1>1
<1>4. d * b \in Nat /\ Radix * b \in Nat
  BY <1>1
<1> QED
  BY <1>2, <1>3, <1>4

-----------------------------------------------------------------------------
(* The inductive invariant of the encoder and the decoders. *)

Bytes == [digit : 0 .. Radix - 1, more : BOOLEAN]

\* The worth of the first k of at most four digits.
Worth(s, k) ==
  (IF k >= 1 THEN s[1].digit ELSE 0)
  + (IF k >= 2 THEN s[2].digit * Power(1) ELSE 0)
  + (IF k >= 3 THEN s[3].digit * Power(2) ELSE 0)
  + (IF k >= 4 THEN s[4].digit * Power(3) ELSE 0)

LengthTypeOK ==
  /\ sent \in Lengths
  /\ {rest, len, multiplier, rem_len, received} \subseteq Nat
  /\ encoded \in Seq(Bytes)
  /\ Len(encoded) <= 4
  /\ lengthPc \in {"encode", "network", "buffer", "decoded"}

\* While it is encoded, the digits written and the rest are worth the length, and
\* the rest is such that four digits will do.
Encoding ==
  /\ Len(encoded) <= 3
  /\ \A i \in 1 .. Len(encoded) : encoded[i].more
  /\ sent = Worth(encoded, Len(encoded)) + Power(Len(encoded)) * rest
  /\ rest < Power(4 - Len(encoded))
  /\ Len(encoded) > 0 => rest > 0
  /\ len = 0 /\ multiplier = 1 /\ rem_len = 0

\* Afterwards the digits are worth the length, only the last says that none
\* follows, and a length of more than one digit has no leading zero.
Encoded ==
  /\ Len(encoded) > 0
  /\ \A i \in 1 .. Len(encoded) : encoded[i].more <=> i < Len(encoded)
  /\ sent = Worth(encoded, Len(encoded))
  /\ Len(encoded) > 1 => sent >= Power(Len(encoded) - 1)

Decoding ==
  /\ len < Len(encoded)
  /\ rem_len = Worth(encoded, len)
  /\ multiplier = Power(len)

LengthInv ==
  /\ LengthTypeOK
  /\ lengthPc = "encode" => Encoding
  /\ lengthPc # "encode" => Encoded
  /\ lengthPc \in {"network", "buffer"} => Decoding
  /\ lengthPc \in {"buffer", "decoded"} => received = sent
  /\ lengthPc = "decoded" => rem_len = sent /\ len = Len(encoded)

\* One digit more adds the digit at its place.
LEMMA WorthStep ==
  ASSUME NEW s \in Seq(Bytes), Len(s) <= 4, NEW k \in 0 .. 3, k < Len(s)
  PROVE  /\ s[k + 1].digit \in 0 .. Radix - 1
         /\ Worth(s, k + 1) = Worth(s, k) + s[k + 1].digit * Power(k)
<1>1. \A i \in 1 .. k + 1 : s[i] \in Bytes
  BY ElementOfSeq, LenProperties
<1>2. \A i \in 1 .. k + 1 : s[i].digit \in 0 .. Radix - 1
  BY <1>1 DEF Bytes
<1>3. Radix \in Nat /\ Power(0) = 1
  BY LengthAssumption DEF Power
<1>4. \A d, n \in Nat : d * n \in Nat
  OBVIOUS
<1>5. Power(1) \in Nat /\ Power(2) \in Nat /\ Power(3) \in Nat
  BY Pow
<1>6. CASE k = 0
  BY <1>2, <1>3, <1>6 DEF Worth
<1>7. CASE k = 1
  <2>1. s[1].digit \in Nat /\ s[2].digit \in Nat
    BY <1>2, <1>3, <1>7
  <2> QED
    BY <1>2, <1>4, <1>5, <1>7, <2>1 DEF Worth
<1>8. CASE k = 2
  <2>1. s[1].digit \in Nat /\ s[2].digit \in Nat /\ s[3].digit \in Nat
    BY <1>2, <1>3, <1>8
  <2> QED
    BY <1>2, <1>4, <1>5, <1>8, <2>1 DEF Worth
<1>9. CASE k = 3
  <2>1. s[1].digit \in Nat /\ s[2].digit \in Nat /\ s[3].digit \in Nat /\ s[4].digit \in Nat
    BY <1>2, <1>3, <1>9
  <2> QED
    BY <1>2, <1>4, <1>5, <1>9, <2>1 DEF Worth
<1> QED
  BY <1>6, <1>7, <1>8, <1>9

\* k digits are worth less than the k-th power of the radix.
LEMMA WorthBound ==
  ASSUME NEW s \in Seq(Bytes), Len(s) <= 4, NEW k \in 0 .. 4, k <= Len(s)
  PROVE  Worth(s, k) \in Nat /\ Worth(s, k) < Power(k)
<1> DEFINE Bounded(n) == Worth(s, n) \in Nat /\ Worth(s, n) < Power(n)
<1>1. Bounded(0)
  BY DEF Worth, Power
<1>2. ASSUME NEW n \in 0 .. 3, n < Len(s), Bounded(n) PROVE Bounded(n + 1)
  <2>1. /\ Power(n) \in Nat /\ Power(n + 1) = Radix * Power(n)
        /\ s[n + 1].digit \in 0 .. Radix - 1
        /\ Worth(s, n + 1) = Worth(s, n) + s[n + 1].digit * Power(n)
    BY <1>2, Pow, WorthStep
  <2> QED
    BY <1>2, <2>1, Grow
<1> HIDE DEF Bounded
<1>3. Len(s) \in Nat
  BY LenProperties
<1>4. /\ 1 <= Len(s) => Bounded(1)
      /\ 2 <= Len(s) => Bounded(2)
      /\ 3 <= Len(s) => Bounded(3)
      /\ 4 <= Len(s) => Bounded(4)
  <2>1. 1 <= Len(s) => Bounded(0 + 1)
    BY <1>1, <1>2, <1>3
  <2>2. 2 <= Len(s) => Bounded(1 + 1)
    BY <2>1, <1>2, <1>3
  <2>3. 3 <= Len(s) => Bounded(2 + 1)
    BY <2>2, <1>2, <1>3
  <2>4. 4 <= Len(s) => Bounded(3 + 1)
    BY <2>3, <1>2, <1>3
  <2> QED
    BY <2>1, <2>2, <2>3, <2>4
<1>5. k = 0 \/ k = 1 \/ k = 2 \/ k = 3 \/ k = 4
  OBVIOUS
<1>6. Bounded(k)
  BY <1>1, <1>4, <1>5
<1> QED
  BY <1>6 DEF Bounded

\* What follows the first k digits does not change their worth.
LEMMA WorthOfPrefix ==
  ASSUME NEW s, NEW t, NEW k \in 0 .. 4, \A i \in 1 .. k : t[i] = s[i]
  PROVE  Worth(t, k) = Worth(s, k)
<1>1. /\ k >= 1 => t[1] = s[1]
      /\ k >= 2 => t[2] = s[2]
      /\ k >= 3 => t[3] = s[3]
      /\ k >= 4 => t[4] = s[4]
  OBVIOUS
<1> QED
  BY <1>1 DEF Worth

\* Larger powers are larger, and none is wider than the decoders' integers.
LEMMA PowOrder ==
  /\ Power(0) = 1 /\ Power(1) = Radix /\ Radix \in Nat /\ Radix > 1
  /\ Power(0) < Power(1) /\ Power(1) < Power(2)
  /\ Power(2) < Power(3) /\ Power(3) < Power(4)
  /\ Power(4) <= Word /\ Word \in Nat
<1>1. Radix \in Nat /\ Radix > 1 /\ Power(0) = 1 /\ Power(1) = Radix
      /\ Power(4) <= Word /\ Word \in Nat
  BY LengthAssumption DEF Power, MAX_NO_OF_REMAINING_LENGTH_BYTES
<1>2. ASSUME NEW n \in Nat, n > 0 PROVE n < Radix * n
  <2>1. 2 * n <= Radix * n
    BY <1>1, <1>2
  <2> QED
    BY <1>1, <1>2, <2>1
<1>3. \A k \in 0 .. 3 : Power(k) < Power(k + 1)
  BY <1>2, Pow
<1>4. Power(0) < Power(0 + 1) /\ Power(1) < Power(1 + 1)
      /\ Power(2) < Power(2 + 1) /\ Power(3) < Power(3 + 1)
  BY <1>3
<1> QED
  BY <1>1, <1>4

\* The invariant holds before the first digit.
LEMMA LengthInvInit == LengthInit => LengthInv
<1> SUFFICES ASSUME LengthInit PROVE LengthInv
  OBVIOUS
<1>1. sent \in Nat /\ sent < Power(4) /\ sent \in Lengths
  BY Pow DEF LengthInit, Lengths, MAX_NO_OF_REMAINING_LENGTH_BYTES
<1>2. /\ rest = sent /\ encoded = <<>> /\ lengthPc = "encode"
      /\ len = 0 /\ multiplier = 1 /\ rem_len = 0 /\ received = 0
  BY DEF LengthInit
<1>3. Len(encoded) = 0 /\ encoded \in Seq(Bytes)
  BY <1>2, EmptySeq
<1>4. Worth(encoded, 0) = 0 /\ Power(0) = 1
  BY DEF Worth, Power
<1>5. Encoding
  BY <1>1, <1>2, <1>3, <1>4 DEF Encoding
<1> QED
  BY <1>1, <1>2, <1>3, <1>5 DEF LengthInv, LengthTypeOK

\* aws_iot_mqtt_internal_write_len_to_buffer writes the next digit, or the last.
LEMMA EncodeStep ==
  ASSUME LengthInv, Encode
  PROVE  LengthInv'
<1> DEFINE k == Len(encoded)
           q == rest \div Radix
           d == rest % Radix
           byte == [digit |-> d, more |-> q > 0]
<1>1. /\ lengthPc = "encode" /\ Encoding /\ LengthTypeOK
      /\ rest \in Nat /\ encoded \in Seq(Bytes)
  BY DEF LengthInv, Encode, LengthTypeOK
<1>2. k \in 0 .. 3
  <2>1. k \in Nat
    BY <1>1, LenProperties
  <2>2. k <= 3
    BY <1>1 DEF Encoding
  <2> HIDE DEF k
  <2> QED
    BY <2>1, <2>2
<1>3. q \in Nat /\ d \in 0 .. Radix - 1 /\ rest = Radix * q + d /\ Radix \in Nat
  BY <1>1, DivMod, PowOrder
<1>4. byte \in Bytes
  BY <1>3 DEF Bytes
<1>5. /\ encoded' = Append(encoded, byte) /\ rest' = q
      /\ lengthPc' = IF q > 0 THEN "encode" ELSE "network"
      /\ UNCHANGED <<sent, len, multiplier, rem_len, received>>
  BY DEF Encode
<1>6. byte.digit = d /\ (byte.more <=> q > 0)
  OBVIOUS
<1> HIDE DEF byte, q, d
<1>7. /\ encoded' \in Seq(Bytes) /\ Len(encoded') = k + 1
      /\ \A i \in 1 .. k : encoded'[i] = encoded[i]
      /\ encoded'[k + 1] = byte
  BY <1>1, <1>4, <1>5, AppendProperties
<1> HIDE DEF k
<1>8. Worth(encoded, k) \in Nat
  <2>1. Len(encoded) <= 4 /\ k <= Len(encoded) /\ k \in 0 .. 4
    BY <1>1, <1>2 DEF LengthTypeOK, k
  <2> QED
    BY <1>1, <2>1, WorthBound
<1>9. Worth(encoded', k + 1) = Worth(encoded, k) + d * Power(k)
  <2>1. Worth(encoded', k) = Worth(encoded, k)
    BY <1>2, <1>7, WorthOfPrefix
  <2>2. k < Len(encoded') /\ Len(encoded') <= 4
    BY <1>2, <1>7
  <2>3. Worth(encoded', k + 1) = Worth(encoded', k) + encoded'[k + 1].digit * Power(k)
    BY <1>2, <1>7, <2>2, WorthStep
  <2> QED
    BY <1>6, <1>7, <2>1, <2>3
<1>10. sent = Worth(encoded', k + 1) + Power(k + 1) * q
  <2>1. sent = Worth(encoded, k) + Power(k) * (Radix * q + d)
    BY <1>1, <1>3 DEF Encoding, k
  <2>2. Power(k) \in Nat /\ Power(k + 1) = Radix * Power(k)
    BY <1>2, Pow
  <2>3. Worth(encoded, k) \in Nat
    BY <1>8
  <2>4. Power(k) * (Radix * q + d) = d * Power(k) + (Radix * Power(k)) * q
    BY <1>3, <2>2
  <2> QED
    BY <1>3, <1>9, <2>1, <2>2, <2>3, <2>4
<1>11. q < Power(3 - k)
  <2>1. rest < Power((3 - k) + 1)
    BY <1>1, <1>2 DEF Encoding, k
  <2>2. 3 - k \in 0 .. 3
    BY <1>2
  <2>3. Power((3 - k) + 1) = Radix * Power(3 - k) /\ Power(3 - k) \in Nat
    BY <2>2, Pow
  <2> QED
    BY <1>1, <2>1, <2>3, DivLess DEF q
<1>12. k > 0 => rest > 0
  BY <1>1 DEF Encoding, k
<1>13. LengthTypeOK'
  BY <1>1, <1>2, <1>3, <1>5, <1>7 DEF LengthTypeOK
<1>14. CASE q > 0
  <2>1. k + 1 <= 3
    BY <1>2, <1>3, <1>11, <1>14, PowOrder
  <2>2. \A i \in 1 .. k + 1 : encoded'[i].more
    <3>1. \A i \in 1 .. k : encoded[i].more
      BY <1>1 DEF Encoding, k
    <3>2. \A i \in 1 .. k + 1 : i \in 1 .. k \/ i = k + 1
      BY <1>2
    <3> QED
      BY <1>6, <1>7, <1>14, <3>1, <3>2
  <2>3. 4 - (k + 1) = 3 - k
    BY <1>2
  <2>4. Encoding'
    BY <1>1, <1>5, <1>7, <1>10, <1>11, <1>14, <2>1, <2>2, <2>3 DEF Encoding
  <2> QED
    BY <1>5, <1>13, <1>14, <2>4 DEF LengthInv
<1>15. CASE q = 0
  <2>1. sent = Worth(encoded', k + 1)
    <3>1. Power(k + 1) \in Nat /\ Worth(encoded', k + 1) \in Nat
      BY <1>2, <1>7, Pow, WorthBound
    <3> QED
      BY <1>10, <1>15, <3>1
  <2>2. \A i \in 1 .. k + 1 : encoded'[i].more <=> i < k + 1
    <3>1. \A i \in 1 .. k : encoded[i].more
      BY <1>1 DEF Encoding, k
    <3>2. \A i \in 1 .. k + 1 : (i \in 1 .. k /\ i < k + 1) \/ (i = k + 1 /\ ~ (i < k + 1))
      BY <1>2
    <3> QED
      BY <1>6, <1>7, <1>15, <3>1, <3>2
  <2>3. k > 0 => sent >= Power(k)
    <3>1. Power(k) \in Nat /\ Worth(encoded, k) \in Nat
      BY <1>2, <1>8, Pow
    <3>2. rest > 0 => Power(k) * rest >= Power(k)
      BY <1>1, <3>1
    <3>3. sent = Worth(encoded, k) + Power(k) * rest /\ Power(k) * rest \in Nat
      BY <1>1, <3>1 DEF Encoding, k
    <3> QED
      BY <1>12, <3>1, <3>2, <3>3
  <2>4. Encoded'
    <3>1. k + 1 > 0 /\ (k + 1) - 1 = k /\ (k + 1 > 1 => k > 0)
      BY <1>2
    <3> QED
      BY <1>5, <1>7, <2>1, <2>2, <2>3, <3>1 DEF Encoded
  <2>5. Decoding'
    <3>1. len' = 0 /\ multiplier' = 1 /\ rem_len' = 0
      BY <1>1, <1>5 DEF Encoding
    <3>2. Worth(encoded', 0) = 0 /\ Power(0) = 1
      BY DEF Worth, Power
    <3>3. len' < Len(encoded')
      BY <1>2, <1>7, <3>1
    <3> QED
      BY <3>1, <3>2, <3>3 DEF Decoding
  <2> QED
    BY <1>5, <1>13, <1>15, <2>4, <2>5 DEF LengthInv
<1> QED
  BY <1>3, <1>14, <1>15

\* The next digit is added to the worth of the ones before, and the sum and the
\* multiplier are no wider than the decoders' integers.
LEMMA DigitAdds ==
  ASSUME LengthTypeOK, Encoded, Decoding
  PROVE  /\ len \in 0 .. 3 /\ len + 1 <= Len(encoded) /\ Len(encoded) \in Nat
         /\ (encoded[len + 1].more <=> len + 1 < Len(encoded))
         /\ (rem_len + encoded[len + 1].digit * multiplier) % Word = Worth(encoded, len + 1)
         /\ Worth(encoded, len + 1) \in Nat
         /\ len + 1 < Len(encoded) => (multiplier * Radix) % Word = Power(len + 1)
         /\ (multiplier * Radix) % Word \in Nat
<1>1. /\ len \in 0 .. 3 /\ len < Len(encoded) /\ Len(encoded) \in Nat
      /\ encoded \in Seq(Bytes) /\ Len(encoded) <= 4
  BY LenProperties DEF LengthTypeOK, Decoding
<1>2. len + 1 \in 1 .. Len(encoded) /\ len + 1 \in 0 .. 4
  BY <1>1
<1>3. encoded[len + 1].more <=> len + 1 < Len(encoded)
  BY <1>2 DEF Encoded
<1>4. rem_len + encoded[len + 1].digit * multiplier = Worth(encoded, len + 1)
  BY <1>1, WorthStep DEF Decoding
<1>5. Worth(encoded, len + 1) \in Nat /\ Worth(encoded, len + 1) < Power(len + 1)
  BY <1>1, <1>2, WorthBound
<1>6. Power(len + 1) <= Word /\ (len + 1 < 4 => Power(len + 1) < Word) /\ Power(len + 1) \in Nat
  <2>1. len + 1 = 1 \/ len + 1 = 2 \/ len + 1 = 3 \/ len + 1 = 4
    BY <1>1
  <2>2. Power(1) \in Nat /\ Power(2) \in Nat /\ Power(3) \in Nat /\ Power(4) \in Nat
    BY Pow
  <2> QED
    BY <2>1, <2>2, PowOrder
<1>7. \A n \in Nat : n < Word => n % Word = n
  BY PowOrder
<1>8. (rem_len + encoded[len + 1].digit * multiplier) % Word = Worth(encoded, len + 1)
  <2>1. Worth(encoded, len + 1) < Word
    BY <1>5, <1>6, PowOrder
  <2> QED
    BY <1>4, <1>5, <1>7, <2>1
<1>9. multiplier * Radix = Power(len + 1)
  <2>1. Power(len + 1) = Radix * Power(len) /\ Power(len) \in Nat
    BY <1>1, Pow
  <2>2. Radix \in Nat
    BY PowOrder
  <2> QED
    BY <2>1, <2>2 DEF Decoding
<1>10. len + 1 < Len(encoded) => (multiplier * Radix) % Word = Power(len + 1)
  BY <1>1, <1>6, <1>7, <1>9
<1>11. (multiplier * Radix) % Word \in Nat
  BY <1>6, <1>9, PowOrder, Pow
<1> QED
  BY <1>1, <1>2, <1>3, <1>5, <1>8, <1>10, <1>11

\* The decoder that reads from the network takes a digit.
LEMMA NetworkStep ==
  ASSUME LengthInv, DecodeFromNetwork
  PROVE  LengthInv'
<1>1. /\ lengthPc = "network" /\ LengthTypeOK /\ Encoded /\ Decoding
      /\ UNCHANGED <<sent, rest, encoded>>
  BY DEF LengthInv, DecodeFromNetwork
<1>2. Encoded'
  BY <1>1 DEF Encoded
<1>3. len \in Nat /\ received \in Nat
  BY <1>1 DEF LengthTypeOK
<1>4. CASE encoded[len + 1].more
  <2>1. /\ rem_len' = (rem_len + encoded[len + 1].digit * multiplier) % Word
        /\ multiplier' = (multiplier * Radix) % Word
        /\ len' = len + 1 /\ UNCHANGED <<lengthPc, received>>
    BY <1>4 DEF DecodeFromNetwork, AddDigit
  <2>2. Decoding'
    BY <1>1, <1>4, <2>1, DigitAdds DEF Decoding
  <2>3. LengthTypeOK'
    BY <1>1, <1>3, <2>1, DigitAdds DEF LengthTypeOK
  <2> QED
    BY <1>1, <1>2, <2>1, <2>2, <2>3 DEF LengthInv
<1>5. CASE ~encoded[len + 1].more
  <2>1. /\ received' = (rem_len + encoded[len + 1].digit * multiplier) % Word
        /\ len' = 0 /\ multiplier' = 1 /\ rem_len' = 0 /\ lengthPc' = "buffer"
    BY <1>5 DEF DecodeFromNetwork
  <2>2. len + 1 = Len(encoded)
    BY <1>1, <1>3, <1>5, DigitAdds
  <2>3. received' = sent' /\ received' \in Nat
    BY <1>1, <2>1, <2>2, DigitAdds DEF Encoded
  <2>4. Decoding'
    <3>1. Worth(encoded', 0) = 0 /\ Power(0) = 1
      BY DEF Worth, Power
    <3>2. len' < Len(encoded')
      BY <1>1, <2>1 DEF Encoded
    <3> QED
      BY <2>1, <3>1, <3>2 DEF Decoding
  <2>5. LengthTypeOK'
    BY <1>1, <2>1, <2>3 DEF LengthTypeOK
  <2> QED
    BY <1>2, <2>1, <2>3, <2>4, <2>5 DEF LengthInv
<1> QED
  BY <1>4, <1>5

\* The decoder that reads from the buffer takes a digit.
LEMMA BufferStep ==
  ASSUME LengthInv, DecodeFromBuffer
  PROVE  LengthInv'
<1>1. /\ lengthPc = "buffer" /\ LengthTypeOK /\ Encoded /\ Decoding /\ received = sent
      /\ UNCHANGED <<sent, rest, encoded, received>>
  BY DEF LengthInv, DecodeFromBuffer
<1>2. Encoded'
  BY <1>1 DEF Encoded
<1>3. ~ (len + 1 > MAX_NO_OF_REMAINING_LENGTH_BYTES)
  BY <1>1, DigitAdds DEF MAX_NO_OF_REMAINING_LENGTH_BYTES
<1>4. /\ rem_len' = (rem_len + encoded[len + 1].digit * multiplier) % Word
      /\ multiplier' = (multiplier * Radix) % Word
      /\ len' = len + 1
      /\ lengthPc' = IF encoded[len + 1].more THEN "buffer" ELSE "decoded"
  BY <1>3 DEF DecodeFromBuffer, AddDigit
<1>5. LengthTypeOK'
  BY <1>1, <1>4, DigitAdds DEF LengthTypeOK
<1>6. CASE encoded[len + 1].more
  <2>1. Decoding'
    BY <1>1, <1>4, <1>6, DigitAdds DEF Decoding
  <2> QED
    BY <1>1, <1>2, <1>4, <1>5, <1>6, <2>1 DEF LengthInv
<1>7. CASE ~encoded[len + 1].more
  <2>1. len + 1 = Len(encoded)
    BY <1>1, <1>7, DigitAdds
  <2>2. rem_len' = sent'
    BY <1>1, <1>4, <2>1, DigitAdds DEF Encoded
  <2> QED
    BY <1>1, <1>2, <1>4, <1>5, <1>7, <2>1, <2>2 DEF LengthInv
<1> QED
  BY <1>6, <1>7

\* Every step keeps the invariant.
LEMMA LengthInvStep == LengthInv /\ [LengthNext]_lengthVars => LengthInv'
<1> SUFFICES ASSUME LengthInv, [LengthNext]_lengthVars PROVE LengthInv'
  OBVIOUS
<1>1. CASE UNCHANGED lengthVars
  BY <1>1 DEF lengthVars, LengthInv, LengthTypeOK, Encoding, Encoded, Decoding
<1> QED
  BY <1>1, EncodeStep, NetworkStep, BufferStep DEF LengthNext

\* The invariant says what is to hold; a length with k digits is at least the
\* smallest such, by which the sum takes it to have as many.
LEMMA LengthInvSurvives == LengthInv => LengthSurvives
<1> SUFFICES ASSUME LengthInv PROVE LengthSurvives
  OBVIOUS
<1>1. ASSUME lengthPc # "encode"
      PROVE  1 + Len(encoded) + sent <= FinalLength(sent)
  <2> DEFINE k == Len(encoded)
  <2>1. Encoded /\ LengthTypeOK
    BY <1>1 DEF LengthInv
  <2>2. k \in Nat /\ k > 0 /\ k <= 4
    BY <2>1, LenProperties DEF LengthTypeOK, Encoded
  <2>3. sent \in Nat
    BY <2>1, Pow DEF LengthTypeOK, Lengths, MAX_NO_OF_REMAINING_LENGTH_BYTES
  <2>4. k > 1 => sent >= Power(k - 1)
    BY <2>1 DEF Encoded
  <2> HIDE DEF k
  <2>5. k = 1 \/ k = 2 \/ k = 3 \/ k = 4
    BY <2>2
  <2>6. /\ k = 2 => sent >= Power(1)
        /\ k = 3 => sent >= Power(2)
        /\ k = 4 => sent >= Power(3)
    <3>1. 2 - 1 = 1 /\ 3 - 1 = 2 /\ 4 - 1 = 3
      OBVIOUS
    <3> QED
      BY <2>4, <3>1
  <2>7. Power(1) \in Nat /\ Power(2) \in Nat /\ Power(3) \in Nat
    BY Pow
  <2>8. Power(1) < Power(2) /\ Power(2) < Power(3)
    BY PowOrder
  <2>9. 1 + k + sent <= FinalLength(sent)
    BY <2>3, <2>5, <2>6, <2>7, <2>8 DEF FinalLength
  <2> QED
    BY <2>9 DEF k
<1> QED
  BY <1>1 DEF LengthInv, LengthTypeOK, LengthSurvives

\* A packet's length of up to four digits is decoded to what was encoded, by both
\* decoders, none of which refuses it or overflows, and its bytes are counted by
\* the sum that a request checks its buffer against: for 128 and 2^32, and for any
\* radix and any integers that four of its digits fit.
THEOREM LengthSurvivesCorrect == LengthSpec => []LengthSurvives
<1>1. LengthSpec => []LengthInv
  BY LengthInvInit, LengthInvStep, PTL DEF LengthSpec
<1> QED
  BY <1>1, LengthInvSurvives, PTL
=============================================================================
