------------------------- MODULE ShadowRecordsProofs -------------------------
(* Proofs about ShadowRecords, for every size of the lists, any set of        *)
(* actions and whatever MQTT calls fail.                                      *)
EXTENDS ShadowRecords, SequenceTheorems, TLAPS

-----------------------------------------------------------------------------
(* The stack of calls. *)

\* The innermost call is a frame, and its point tells what it is.
LEMMA TopType ==
  ASSUME TypeOK, stack # <<>>
  PROVE  /\ Top \in Frame /\ Top.slot \in Slots /\ Len(stack) \in Nat \ {0}
         /\ Top.op = "request" => Top.pc \in RequestPoints
         /\ Top.op # "request" => Top.pc \in EndingPoints
<1>1. stack \in Seq(Frame) BY DEF TypeOK
<1>2. Len(stack) \in Nat \ {0} BY <1>1
<1>3. Top \in Frame BY <1>1, <1>2 DEF Top
<1>. QED BY <1>2, <1>3 DEF Frame

\* What replacing the top does to a stack, frame by frame.
LEMMA ReplaceShape ==
  ASSUME TypeOK, stack # <<>>, NEW f \in Frame, Replace(f)
  PROVE  /\ stack' \in Seq(Frame) /\ Len(stack') = Len(stack)
         /\ stack'[Len(stack)] = f
         /\ \A k \in 1 .. Len(stack) - 1 : stack'[k] = stack[k]
<1>1. stack \in Seq(Frame) /\ Len(stack) \in Nat \ {0}
  BY TopType DEF TypeOK
<1>. QED BY <1>1 DEF Replace

\* What leaving the innermost call does.
LEMMA LeaveShape ==
  ASSUME TypeOK, stack # <<>>, Leave
  PROVE  /\ stack' \in Seq(Frame) /\ Len(stack') = Len(stack) - 1
         /\ \A k \in 1 .. Len(stack) - 1 : stack'[k] = stack[k]
<1>. DEFINE n == Len(stack) - 1
<1>1. stack \in Seq(Frame) /\ Len(stack) \in Nat \ {0}
      /\ n \in Nat /\ n <= Len(stack)
  BY TopType DEF TypeOK
<1>2. \A i \in 1 .. n : stack[i] \in Frame BY <1>1
<1>3. /\ stack' \in Seq(Frame)
      /\ Len(stack') = IF 1 <= n THEN n - 1 + 1 ELSE 0
      /\ \A i \in 1 .. n - 1 + 1 : stack'[i] = stack[1 + i - 1]
  BY <1>1, <1>2, SubSeqProperties DEF Leave
<1>. HIDE DEF n
<1>4. n - 1 + 1 = n /\ \A i \in 1 .. n : 1 + i - 1 = i BY <1>1
<1>5. (IF 1 <= n THEN n - 1 + 1 ELSE 0) = n BY <1>1, <1>4
<1>6. \A i \in 1 .. n : stack'[i] = stack[i]
  <2>1. \A i \in 1 .. n : stack'[i] = stack[1 + i - 1] BY <1>3, <1>4
  <2>. QED BY <1>4, <2>1
<1>7. Len(stack') = n BY <1>3, <1>5
<1>. QED BY <1>3, <1>6, <1>7 DEF n

\* What entering a call does.
LEMMA EnterShape ==
  ASSUME TypeOK, NEW f \in Frame, stack' = Append(stack, f)
  PROVE  /\ stack' \in Seq(Frame) /\ Len(stack') = Len(stack) + 1
         /\ stack'[Len(stack) + 1] = f
         /\ \A k \in 1 .. Len(stack) : stack'[k] = stack[k]
BY DEF TypeOK

\* The frame that ends a record, and the frame of a new request.
LEMMA EndingType ==
  ASSUME TypeOK, NEW op \in {"deliver", "expire"}, NEW slot \in Slots
  PROVE  Ending(op, slot) \in Frame
BY DEF TypeOK, Record, Ending, Frame, EndingPoints, Kinds

LEMMA NewRequestType ==
  ASSUME TypeOK, NEW action \in Actions, NEW sticky \in BOOLEAN,
         NEW slot \in Slots, seq < MaxRequests
  PROVE  NewRequest(action, sticky, slot) \in Frame
<1>1. seq + 1 \in Tokens BY ConstantsAssumption DEF TypeOK, Tokens
<1>. QED BY <1>1 DEF NewRequest, Frame, RequestPoints, Kinds

-----------------------------------------------------------------------------
(* Type correctness. *)

\* The moves of a frame.
LEMMA GotoType ==
  ASSUME TypeOK, stack # <<>>, NEW pc, Goto(pc),
         Top.op = "request" => pc \in RequestPoints,
         Top.op # "request" => pc \in EndingPoints
  PROVE  stack' \in Seq(Frame)
<1>1. [Top EXCEPT !.pc = pc] \in Frame BY TopType DEF Frame
<1>. QED BY <1>1, ReplaceShape DEF Goto

LEMMA ClearedType ==
  ASSUME TypeOK, At("clear") \/ At("waitClear"), Cleared
  PROVE  stack' \in Seq(Frame)
<1>1. stack # <<>> /\ Top.op = "request"
  BY TopType DEF At, EndingPoints
<1>. QED BY <1>1, GotoType, LeaveShape DEF Cleared, RequestPoints

LEMMA TellType ==
  ASSUME TypeOK, NEW slot \in Slots, Tell(slot)
  PROVE  told' \in [Tokens -> Nat]
<1>1. told \in [Tokens -> Nat] BY DEF TypeOK
<1>2. CASE acks[slot].token \in Tokens
  <2>1. told[acks[slot].token] + 1 \in Nat BY <1>1, <1>2
  <2>. QED BY <1>1, <1>2, <2>1 DEF Tell
<1>3. CASE acks[slot].token \notin Tokens
  BY <1>1, <1>3 DEF Tell
<1>. QED BY <1>2, <1>3

\* Entries of SubscriptionList whose count is written, or that are reset.
LEMMA CountedEntry ==
  ASSUME NEW s \in Entry, NEW c \in 0 .. 255, NEW k \in BOOLEAN
  PROVE  [s EXCEPT !.count = c, !.sticky = k] \in Entry
BY DEF Entry

LEMMA ResetEntry ==
  ASSUME NEW s \in Entry
  PROVE  [s EXCEPT !.inUse = FALSE, !.count = 0, !.sticky = FALSE] \in Entry
<1>. DEFINE no == FALSE
            none == 0
<1>1. no \in BOOLEAN /\ none \in 0 .. 255 OBVIOUS
<1>2. [s EXCEPT !.inUse = no, !.count = none, !.sticky = no] \in Entry
  <2>. HIDE DEF no, none
  <2>. QED BY <1>1 DEF Entry
<1>. QED BY <1>2

\* A handler's slot that is emptied.
LEMMA UnhandleType ==
  ASSUME TypeOK, NEW topic, Unhandle(topic)
  PROVE  handlers' \in [Handlers -> Entries \cup {0}]
BY DEF TypeOK, Unhandle

\* A record keeps its type when it is given back.
LEMMA GiveBackType ==
  ASSUME TypeOK, NEW slot \in Slots, acks' = [acks EXCEPT ![slot].inUse = FALSE]
  PROVE  acks' \in [Slots -> Record]
<1>1. [acks[slot] EXCEPT !.inUse = FALSE] \in Record BY DEF TypeOK, Record
<1>. QED BY <1>1 DEF TypeOK

LEMMA ProceedType ==
  ASSUME TypeOK, At("unsubscribe") \/ At("waitUnsubscribe"), Proceed
  PROVE  /\ stack' \in Seq(Frame) /\ told' \in [Tokens -> Nat]
         /\ acks' \in [Slots -> Record]
<1>1. stack # <<>> /\ Top \in Frame /\ Top.op \in {"deliver", "expire"}
      /\ Top.slot \in Slots /\ Top.kind \in Kinds
  BY TopType DEF At, RequestPoints, Frame
<1>2. CASE Top.kind = "accepted"
  <2>1. [Top EXCEPT !.pc = "unsubscribe", !.kind = "rejected"] \in Frame
    BY <1>1 DEF Frame, EndingPoints, Kinds, RequestPoints
  <2>. QED BY <1>1, <1>2, <2>1, ReplaceShape DEF Proceed, TypeOK
<1>3. CASE Top.kind = "rejected" /\ Top.op = "deliver"
  BY <1>1, <1>3, LeaveShape, GiveBackType DEF Proceed, TypeOK
<1>4. CASE Top.kind # "accepted" /\ Top.op # "deliver"
  <2>1. UNCHANGED acks BY <1>4 DEF Proceed
  <2>2. CASE Leave /\ UNCHANGED told
    BY <1>1, <2>1, <2>2, LeaveShape DEF TypeOK
  <2>3. CASE \E slot \in Slots : Replace(Ending("expire", slot)) /\ Tell(slot)
    BY <1>1, <2>1, <2>3, EndingType, ReplaceShape, TellType DEF TypeOK
  <2>. QED BY <1>4, <2>2, <2>3 DEF Proceed
<1>. QED BY <1>1, <1>2, <1>3, <1>4 DEF Kinds
\* Requests and their subscriptions.
LEMMA RequestType ==
  ASSUME TypeOK, NEW action \in Actions, NEW sticky \in BOOLEAN,
         Request(action, sticky)
  PROVE  TypeOK'
<1>1. seq < MaxRequests /\ seq' = seq + 1 BY DEF Request
<1>2. seq' \in 0 .. MaxRequests
  BY <1>1, ConstantsAssumption DEF TypeOK
<1>3. CASE UNCHANGED <<stack, subs>>
  BY <1>2, <1>3 DEF Request, TypeOK
<1>4. ASSUME NEW slot \in Slots,
             subs' = [e \in Entries |->
                        IF \E kind \in Kinds : e \in EntriesOf(<<action, kind>>)
                        THEN [subs[e] EXCEPT !.count = (@ + 1) % 256,
                                             !.sticky = sticky]
                        ELSE subs[e]],
             stack' = Append(stack, NewRequest(action, sticky, slot))
      PROVE  TypeOK'
  <2>1. stack' \in Seq(Frame) BY <1>1, <1>4, NewRequestType, EnterShape
  <2>2. \A c \in 0 .. 255 : (c + 1) % 256 \in 0 .. 255 OBVIOUS
  <2>3. subs' \in [Entries -> Entry]
    <3>1. \A e \in Entries :
            /\ subs[e] \in Entry /\ (subs[e].count + 1) % 256 \in 0 .. 255
      BY <2>2 DEF TypeOK, Entry
    <3>2. ASSUME NEW e \in Entries
          PROVE  [subs[e] EXCEPT !.count = (@ + 1) % 256, !.sticky = sticky]
                   \in Entry
      BY <3>1, CountedEntry
    <3>. QED BY <1>4, <3>1, <3>2
  <2>. QED BY <1>2, <2>1, <2>3 DEF Request, TypeOK
<1>5. ASSUME NEW slot \in Slots,
             NEW a \in Entries \cup {0}, NEW r \in Entries \cup {0},
             subs' = [e \in Entries |->
                        [subs[e] EXCEPT
                          !.inUse = @ \/ e \in {a, r},
                          !.topic = IF e = a /\ r # 0
                                    THEN <<action, "accepted">> ELSE @]],
             stack' = Append(stack,
                        [NewRequest(action, sticky, slot) EXCEPT
                          !.pc = IF r # 0 THEN "subscribe" ELSE "clear",
                          !.accepted = a, !.rejected = r])
      PROVE  TypeOK'
  <2>1. stack' \in Seq(Frame)
    <3>1. [NewRequest(action, sticky, slot) EXCEPT
            !.pc = IF r # 0 THEN "subscribe" ELSE "clear",
            !.accepted = a, !.rejected = r] \in Frame
      BY <1>1, NewRequestType DEF NewRequest, Frame, RequestPoints
    <3>. QED BY <1>5, <3>1, EnterShape
  <2>2. subs' \in [Entries -> Entry]
    <3>1. ASSUME NEW e \in Entries
          PROVE  [subs[e] EXCEPT !.inUse = @ \/ e \in {a, r},
                                 !.topic = IF e = a /\ r # 0
                                           THEN <<action, "accepted">> ELSE @]
                   \in Entry
      <4>1. subs[e] \in Entry /\ subs[e].topic \in Topics
        BY DEF TypeOK, Entry
      <4>2. (subs[e].inUse \/ e \in {a, r}) \in BOOLEAN BY <4>1 DEF Entry
      <4>3. (IF e = a /\ r # 0 THEN <<action, "accepted">>
                               ELSE subs[e].topic) \in Topics
        BY <4>1 DEF Topics, Kinds
      <4>. QED BY <4>1, <4>2, <4>3 DEF Entry
    <3>. QED BY <1>5, <3>1
  <2>. QED BY <1>2, <2>1, <2>2 DEF Request, TypeOK
<1>6. CASE \E slot \in Slots :
             /\ SubscriptionPresent(action)
             /\ subs' = [e \in Entries |->
                  IF \E kind \in Kinds : e \in EntriesOf(<<action, kind>>)
                  THEN [subs[e] EXCEPT !.count = (@ + 1) % 256,
                                       !.sticky = sticky]
                  ELSE subs[e]]
             /\ stack' = Append(stack, NewRequest(action, sticky, slot))
  BY <1>4, <1>6
<1>7. CASE \E slot \in Slots : \E a, r \in Entries \cup {0} :
             /\ subs' = [e \in Entries |->
                  [subs[e] EXCEPT
                    !.inUse = @ \/ e \in {a, r},
                    !.topic = IF e = a /\ r # 0
                              THEN <<action, "accepted">> ELSE @]]
             /\ stack' = Append(stack,
                  [NewRequest(action, sticky, slot) EXCEPT
                    !.pc = IF r # 0 THEN "subscribe" ELSE "clear",
                    !.accepted = a, !.rejected = r])
  <2>1. PICK slot \in Slots, a \in Entries \cup {0}, r \in Entries \cup {0} :
          /\ subs' = [e \in Entries |->
               [subs[e] EXCEPT
                 !.inUse = @ \/ e \in {a, r},
                 !.topic = IF e = a /\ r # 0
                           THEN <<action, "accepted">> ELSE @]]
          /\ stack' = Append(stack,
               [NewRequest(action, sticky, slot) EXCEPT
                 !.pc = IF r # 0 THEN "subscribe" ELSE "clear",
                 !.accepted = a, !.rejected = r])
    BY <1>7, Zenon
  <2>. QED BY <1>5, <2>1, Zenon
<1>. QED BY <1>3, <1>6, <1>7 DEF Request

LEMMA SubscribeType ==
  ASSUME TypeOK, Subscribe \/ SubscribeFails
  PROVE  TypeOK'
<1>1. stack # <<>> /\ Top.op = "request"
  BY TopType DEF Subscribe, SubscribeFails, At, EndingPoints
<1>2. ASSUME NEW h \in Handlers, NEW pc \in RequestPoints
      PROVE  [Top EXCEPT !.handler = h, !.pc = pc] \in Frame
  BY <1>1, TopType DEF Frame
<1>3. [Top EXCEPT !.pc = "clear", !.ok = FALSE] \in Frame
  BY <1>1, TopType DEF Frame, RequestPoints
<1>4. stack' \in Seq(Frame)
  BY <1>1, <1>2, <1>3, ReplaceShape
     DEF Subscribe, SubscribeFails, RequestPoints
<1>. QED BY <1>4 DEF Subscribe, SubscribeFails, TypeOK

LEMMA SubscribedType ==
  ASSUME TypeOK, SubscribedAccepted \/ SubscribedRejected
  PROVE  TypeOK'
<1>1. stack # <<>> /\ Top.op = "request" /\ Top \in Frame
  BY TopType DEF SubscribedAccepted, SubscribedRejected, At, EndingPoints
<1>2. /\ Top.accepted \in Entries \cup {0} /\ Top.rejected \in Entries \cup {0}
      /\ Top.sticky \in BOOLEAN /\ <<Top.action, "rejected">> \in Topics
  BY <1>1 DEF Frame, Topics, Kinds
<1>3. stack' \in Seq(Frame)
  BY <1>1, GotoType DEF SubscribedAccepted, SubscribedRejected, RequestPoints
<1>4. handlers' \in [Handlers -> Entries \cup {0}]
  BY <1>2 DEF SubscribedAccepted, SubscribedRejected, TypeOK
<1>5. subs' \in [Entries -> Entry]
  <2>1. ASSUME NEW e \in Entries, SubscribedAccepted
        PROVE  subs'[e] \in Entry /\ subs' = [i \in Entries |-> subs'[i]]
    <3>1. subs[e] \in Entry BY DEF TypeOK
    <3>. DEFINE count == IF e = Top.accepted THEN 1 ELSE subs[e].count
                sticky == IF e = Top.accepted THEN Top.sticky
                                              ELSE subs[e].sticky
                topic == IF e = Top.rejected THEN <<Top.action, "rejected">>
                                             ELSE subs[e].topic
    <3>2. count \in 0 .. 255 /\ sticky \in BOOLEAN /\ topic \in Topics
      BY <1>2, <3>1 DEF Entry
    <3>3. subs'[e] = [subs[e] EXCEPT !.count = count, !.sticky = sticky,
                                     !.topic = topic]
      BY <2>1 DEF SubscribedAccepted
    <3>4. subs' = [i \in Entries |-> subs'[i]]
      BY <2>1 DEF SubscribedAccepted
    <3>. HIDE DEF count, sticky, topic
    <3>. QED BY <3>1, <3>2, <3>3, <3>4 DEF Entry
  <2>2. CASE SubscribedAccepted
    <3>1. subs' = [i \in Entries |-> subs'[i]]
      BY <2>2 DEF SubscribedAccepted
    <3>. QED BY <2>1, <2>2, <3>1
  <2>3. CASE SubscribedRejected
    <3>1. ASSUME NEW e \in Entries
          PROVE  [subs[e] EXCEPT !.count = 1, !.sticky = Top.sticky] \in Entry
      <4>1. subs[e] \in Entry BY DEF TypeOK
      <4>2. 1 \in 0 .. 255 OBVIOUS
      <4>. QED BY <1>2, <4>1, <4>2, CountedEntry, Zenon
    <3>. QED BY <2>3, <3>1 DEF SubscribedRejected, TypeOK
  <2>. QED BY <2>2, <2>3
<1>. QED BY <1>3, <1>4, <1>5 DEF SubscribedAccepted, SubscribedRejected, TypeOK

LEMMA ClearType ==
  ASSUME TypeOK, Clear \/ EndClear
  PROVE  TypeOK'
<1>1. stack # <<>> /\ Top.op = "request"
  BY TopType DEF Clear, EndClear, At, EndingPoints
<1>2. stack' \in Seq(Frame)
  BY <1>1, ClearedType, GotoType DEF Clear, EndClear, RequestPoints
<1>3. subs' \in [Entries -> Entry]
  <2>1. ASSUME NEW e \in Entries, NEW a
        PROVE  [subs[e] EXCEPT !.inUse = @ /\ e # a] \in Entry
    <3>1. subs[e] \in Entry BY DEF TypeOK
    <3>2. (subs[e].inUse /\ e # a) \in BOOLEAN BY <3>1 DEF Entry
    <3>. QED BY <3>1, <3>2 DEF Entry
  <2>2. CASE Clear BY <2>1, <2>2 DEF Clear
  <2>3. CASE EndClear BY <2>3 DEF EndClear, TypeOK
  <2>. QED BY <2>2, <2>3
<1>4. handlers' \in [Handlers -> Entries \cup {0}]
  BY UnhandleType DEF Clear, EndClear, TypeOK
<1>. QED BY <1>2, <1>3, <1>4 DEF Clear, EndClear, TypeOK

LEMMA PublishType ==
  ASSUME TypeOK, Publish
  PROVE  TypeOK'
<1>1. /\ stack # <<>> /\ Top.op = "request"
      /\ Top.token \in Tokens /\ Top.action \in Actions
  BY TopType DEF Publish, At, EndingPoints, Frame
<1>2. stack' \in Seq(Frame) BY <1>1, LeaveShape DEF Publish
<1>3. [inUse |-> TRUE, token |-> Top.token, action |-> Top.action] \in Record
  BY <1>1 DEF Record
<1>4. acks' \in [Slots -> Record] BY <1>3 DEF Publish, TypeOK
<1>. QED BY <1>1, <1>2, <1>4 DEF Publish, TypeOK

\* Answers and timeouts.
LEMMA DeliverType ==
  ASSUME TypeOK, NEW answer \in sent, NEW kind \in Kinds, Deliver(answer, kind)
  PROVE  TypeOK'
<1>1. CASE UNCHANGED <<stack, told>>
  BY <1>1 DEF Deliver, TypeOK
<1>2. ASSUME NEW slot \in Slots,
             stack' = Append(stack, Ending("deliver", slot)), Tell(slot)
      PROVE  TypeOK'
  <2>1. stack' \in Seq(Frame) BY <1>2, EndingType, EnterShape
  <2>. QED BY <1>2, <2>1, TellType DEF Deliver, TypeOK
<1>. QED BY <1>1, <1>2 DEF Deliver

LEMMA YieldType ==
  ASSUME TypeOK, Yield
  PROVE  TypeOK'
<1>1. CASE UNCHANGED <<stack, told>>
  BY <1>1 DEF Yield, TypeOK
<1>2. ASSUME NEW slot \in Slots, stack' = <<Ending("expire", slot)>>, Tell(slot)
      PROVE  TypeOK'
  <2>1. stack' \in Seq(Frame) BY <1>2, EndingType
  <2>. QED BY <1>2, <2>1, TellType DEF Yield, TypeOK
<1>. QED BY <1>1, <1>2 DEF Yield

LEMMA EndCallbackType ==
  ASSUME TypeOK, EndCallback
  PROVE  TypeOK'
<1>1. stack # <<>> /\ Top.op # "request" /\ Top.slot \in Slots
  BY TopType DEF EndCallback, At, RequestPoints
<1>2. [Top EXCEPT !.pc = "unsubscribe", !.action = acks[Top.slot].action]
        \in Frame
  BY <1>1, TopType DEF Frame, EndingPoints, TypeOK, Record
<1>3. acks' \in [Slots -> Record]
  BY <1>1, GiveBackType DEF EndCallback, TypeOK
<1>4. stack' \in Seq(Frame) BY <1>1, <1>2, ReplaceShape DEF EndCallback
<1>. QED BY <1>3, <1>4 DEF EndCallback, TypeOK

LEMMA UnsubscribeType ==
  ASSUME TypeOK, Unsubscribe
  PROVE  TypeOK'
<1>1. stack # <<>> /\ Top.op # "request"
  BY TopType DEF Unsubscribe, At, RequestPoints
<1>2. CASE Proceed /\ UNCHANGED subs
  BY <1>2, ProceedType DEF Unsubscribe, TypeOK
<1>3. ASSUME NEW e \in Entries, subs[e].count > 1,
             subs' = [subs EXCEPT ![e].count = @ - 1], Proceed
      PROVE  TypeOK'
  <2>1. subs[e] \in Entry /\ subs[e].count - 1 \in 0 .. 255
    BY <1>3 DEF TypeOK, Entry
  <2>2. [subs[e] EXCEPT !.count = @ - 1] \in Entry BY <2>1 DEF Entry
  <2>3. subs' \in [Entries -> Entry]
    BY <1>3, <2>2 DEF TypeOK
  <2>. QED BY <1>3, <2>3, ProceedType DEF Unsubscribe, TypeOK
<1>4. ASSUME NEW e \in Entries, UNCHANGED <<acks, told, subs>>,
             Replace([Top EXCEPT !.pc = "waitUnsubscribe", !.accepted = e])
      PROVE  TypeOK'
  <2>1. [Top EXCEPT !.pc = "waitUnsubscribe", !.accepted = e] \in Frame
    BY <1>1, TopType DEF Frame, EndingPoints
  <2>2. stack' \in Seq(Frame) BY <1>1, <1>4, <2>1, ReplaceShape
  <2>. QED BY <1>4, <2>2 DEF Unsubscribe, TypeOK
<1>. QED BY <1>2, <1>3, <1>4 DEF Unsubscribe

LEMMA EndUnsubscribeType ==
  ASSUME TypeOK, EndUnsubscribe
  PROVE  TypeOK'
<1>1. handlers' \in [Handlers -> Entries \cup {0}]
  BY UnhandleType DEF EndUnsubscribe, TypeOK
<1>2. subs' \in [Entries -> Entry]
  <2>1. \A e : subs[e] \in Entry => [subs[e] EXCEPT !.inUse = FALSE] \in Entry
    BY DEF Entry
  <2>. QED BY <2>1 DEF EndUnsubscribe, TypeOK
<1>. QED BY <1>1, <1>2, ProceedType DEF EndUnsubscribe, TypeOK

LEMMA InitType == Init => TypeOK
<1>1. AnyAction \in Actions BY ConstantsAssumption DEF AnyAction
<1>2. 0 \in 0 .. MaxRequests BY ConstantsAssumption
<1>. QED BY <1>1, <1>2 DEF Init, TypeOK, Topics, Record, Entry

LEMMA StepType ==
  ASSUME TypeOK, [Next]_vars
  PROVE  TypeOK'
<1>1. CASE \E action \in Actions, sticky \in BOOLEAN : Request(action, sticky)
  BY <1>1, RequestType
<1>2. CASE Continue
  BY <1>2, SubscribeType, SubscribedType, ClearType, PublishType,
     EndCallbackType, UnsubscribeType, EndUnsubscribeType DEF Continue
<1>3. CASE \E answer \in sent, kind \in Kinds : Deliver(answer, kind)
  BY <1>3, DeliverType
<1>4. CASE Yield BY <1>4, YieldType
<1>5. CASE \E slot \in Slots : TimeOut(slot)
  BY <1>5 DEF TimeOut, TypeOK
<1>6. CASE Reconnect
  <2>1. \A i \in Slots : [acks[i] EXCEPT !.inUse = FALSE] \in Record
    BY DEF TypeOK, Record
  <2>2. ASSUME NEW e \in Entries
        PROVE  [subs[e] EXCEPT !.inUse = FALSE, !.count = 0,
                               !.sticky = FALSE] \in Entry
    <3>1. subs[e] \in Entry BY DEF TypeOK
    <3>. QED BY <3>1, ResetEntry
  <2>. QED BY <1>6, <2>1, <2>2 DEF Reconnect, TypeOK
<1>7. CASE UNCHANGED vars
  BY <1>7 DEF vars, TypeOK
<1>. QED BY <1>1, <1>2, <1>3, <1>4, <1>5, <1>6, <1>7 DEF Next

\* The shadow's state keeps its type, for every size of its lists, however
\* deep the calls nest and whatever the callbacks ask for.
THEOREM TypeCorrect == Spec => []TypeOK
BY InitType, StepType, PTL DEF Spec

-----------------------------------------------------------------------------
(* Only accepted requests are answered. *)

\* Every record in use is of a request whose call succeeded.
Backed == \A i \in Slots : acks[i].inUse => acks[i].token \in accepted

AnswerInv == TypeOK /\ Backed /\ OnlyAcceptedAnswered

\* What most steps do to the records and to the callbacks called: at most give
\* one record back, and at most tell the request of one record in use.
GivesBack == acks' = acks \/ \E i \in Slots :
                               acks' = [acks EXCEPT ![i].inUse = FALSE]
Tells == told' = told \/ \E i \in Slots : acks[i].inUse /\ Tell(i)

LEMMA TellsExpired ==
  ASSUME NEW n, NEW slot \in Slots, Finds(slot, Expired(n)), Tell(slot),
         ConstantsAssumption
  PROVE  Tells
BY DEF Finds, Expired, Tells, Slots

LEMMA ProceedAnswers ==
  ASSUME TypeOK, At("unsubscribe") \/ At("waitUnsubscribe"), Proceed
  PROVE  GivesBack /\ Tells
<1>1. stack # <<>> /\ Top.slot \in Slots BY TopType DEF At
<1>2. CASE UNCHANGED <<acks, told>> BY <1>2 DEF GivesBack, Tells
<1>3. CASE acks' = [acks EXCEPT ![Top.slot].inUse = FALSE] /\ UNCHANGED told
  BY <1>1, <1>3 DEF GivesBack, Tells
<1>4. CASE /\ UNCHANGED acks
           /\ \E slot \in Slots : Finds(slot, Expired(Top.slot)) /\ Tell(slot)
  BY <1>4, TellsExpired, ConstantsAssumption DEF GivesBack
<1>. QED BY <1>2, <1>3, <1>4 DEF Proceed

LEMMA AnswersKeep ==
  ASSUME AnswerInv, UNCHANGED accepted, GivesBack, Tells
  PROVE  Backed' /\ OnlyAcceptedAnswered'
<1>1. /\ acks \in [Slots -> Record] /\ told \in [Tokens -> Nat]
      /\ accepted \subseteq Tokens
  BY DEF AnswerInv, TypeOK
<1>2. Backed'
  BY <1>1 DEF AnswerInv, Backed, GivesBack, Record
<1>3. ASSUME NEW r \in Tokens, told'[r] > 0 PROVE r \in accepted'
  <2>1. CASE told' = told
    BY <1>3, <2>1 DEF AnswerInv, OnlyAcceptedAnswered
  <2>2. ASSUME NEW i \in Slots, acks[i].inUse, Tell(i) PROVE r \in accepted'
    <3>1. CASE acks[i].token = r BY <2>2, <3>1 DEF AnswerInv, Backed
    <3>2. CASE acks[i].token # r
      <4>1. told'[r] = told[r] BY <1>1, <2>2, <3>2 DEF Tell
      <4>. QED BY <1>3, <4>1 DEF AnswerInv, OnlyAcceptedAnswered
    <3>. QED BY <3>1, <3>2
  <2>. QED BY <2>1, <2>2 DEF Tells
<1>. QED BY <1>2, <1>3 DEF OnlyAcceptedAnswered

LEMMA InitAnswers == Init => AnswerInv
<1>. SUFFICES ASSUME Init PROVE AnswerInv OBVIOUS
<1>1. TypeOK BY InitType
<1>. QED BY <1>1 DEF Init, AnswerInv, Backed, OnlyAcceptedAnswered

LEMMA StepAnswers ==
  ASSUME AnswerInv, [Next]_vars
  PROVE  AnswerInv'
<1>0. TypeOK /\ TypeOK' BY StepType DEF AnswerInv
<1>1. CASE UNCHANGED accepted /\ GivesBack /\ Tells
  BY <1>0, <1>1, AnswersKeep DEF AnswerInv
<1>2. CASE \E action \in Actions, sticky \in BOOLEAN : Request(action, sticky)
  BY <1>1, <1>2 DEF Request, GivesBack, Tells
<1>3. CASE Subscribe \/ SubscribeFails \/ SubscribedAccepted
           \/ SubscribedRejected \/ Clear \/ EndClear
  BY <1>1, <1>3 DEF Subscribe, SubscribeFails, SubscribedAccepted,
     SubscribedRejected, Clear, EndClear, GivesBack, Tells
<1>4. CASE Publish
  <2>1. CASE UNCHANGED <<acks, accepted>>
    BY <1>1, <1>4, <2>1 DEF Publish, GivesBack, Tells
  <2>2. CASE /\ acks' = [acks EXCEPT ![Top.slot] =
                  [inUse |-> TRUE, token |-> Top.token, action |-> Top.action]]
             /\ accepted' = accepted \cup {Top.token}
    <3>1. Backed'
      BY <1>0, <2>2 DEF Backed, AnswerInv, TypeOK
    <3>2. OnlyAcceptedAnswered'
      BY <1>4, <2>2 DEF Publish, OnlyAcceptedAnswered, AnswerInv
    <3>. QED BY <1>0, <3>1, <3>2 DEF AnswerInv
  <2>. QED BY <1>4, <2>1, <2>2 DEF Publish
<1>5. CASE EndCallback
  <2>1. Top.slot \in Slots BY <1>0, <1>5, TopType DEF EndCallback, At
  <2>. QED BY <1>1, <1>5, <2>1 DEF EndCallback, GivesBack, Tells
<1>6. CASE Unsubscribe \/ EndUnsubscribe
  <2>1. CASE Proceed
    BY <1>0, <1>1, <1>6, <2>1, ProceedAnswers DEF Unsubscribe, EndUnsubscribe
  <2>2. CASE UNCHANGED <<acks, told>>
    BY <1>1, <1>6, <2>2 DEF Unsubscribe, EndUnsubscribe, GivesBack, Tells
  <2>. QED BY <1>6, <2>1, <2>2 DEF Unsubscribe, EndUnsubscribe
<1>7. CASE \E answer \in sent, kind \in Kinds : Deliver(answer, kind)
  <2>1. PICK answer \in sent, kind \in Kinds : Deliver(answer, kind) BY <1>7
  <2>2. Tells BY <2>1 DEF Deliver, Finds, Tells, Slots
  <2>. QED BY <1>1, <2>1, <2>2 DEF Deliver, GivesBack
<1>8. CASE Yield
  <2>1. Tells BY <1>8, TellsExpired, ConstantsAssumption DEF Yield, Tells
  <2>. QED BY <1>1, <1>8, <2>1 DEF Yield, GivesBack
<1>9. CASE \E slot \in Slots : TimeOut(slot)
  BY <1>1, <1>9 DEF TimeOut, GivesBack, Tells
<1>10. CASE Reconnect
  <2>1. \A i \in Slots : ~acks'[i].inUse
    BY <1>0, <1>10 DEF Reconnect, TypeOK, Record
  <2>2. OnlyAcceptedAnswered'
    BY <1>10 DEF Reconnect, OnlyAcceptedAnswered, AnswerInv
  <2>. QED BY <1>0, <2>1, <2>2 DEF AnswerInv, Backed
<1>11. CASE UNCHANGED vars
  BY <1>1, <1>11 DEF vars, GivesBack, Tells
<1>. QED BY <1>2, <1>3, <1>4, <1>5, <1>6, <1>7, <1>8, <1>9, <1>10, <1>11
     DEF Next, Continue

\* A callback runs only for a request whose call returned success, whatever
\* fails, however the calls nest and whenever the application reconnects.
THEOREM OnlyAcceptedCorrect == Spec => []OnlyAcceptedAnswered
<1>1. AnswerInv => OnlyAcceptedAnswered BY DEF AnswerInv
<1>. QED BY InitAnswers, StepAnswers, <1>1, PTL DEF Spec

-----------------------------------------------------------------------------
(* Every accepted request is answered at most once and its record is not lost *)
(* before, when no callback makes requests and the application does not       *)
(* connect again.                                                             *)

\* What a call in progress knows of its record.  A request's is free and its
\* token unused; an answered one is in use until its topics are unsubscribed,
\* so that nobody else is given it; an expired one only during the callback.
FrameFits(f) ==
  /\ f.op = "request" => /\ ~acks[f.slot].inUse
                         /\ f.token \notin accepted /\ f.token <= seq
  /\ f.op = "deliver" => /\ acks[f.slot].inUse
                         /\ acks[f.slot].token = f.token /\ told[f.token] = 1
                         /\ \A answer \in sent : answer[1] # f.token
  /\ f.op = "expire" => /\ acks[f.slot].inUse <=> f.pc = "callback"
                        /\ acks[f.slot].inUse => told[acks[f.slot].token] = 1

Depths == 1 .. Len(stack)

\* Only answers interrupt, and only waits are interrupted.
StackFits ==
  \A k \in Depths :
    /\ FrameFits(stack[k])
    /\ k > 1 => stack[k].op = "deliver"
    /\ k < Len(stack) => stack[k].pc \in Waits

SlotsApart ==
  \A k, l \in Depths :
    k # l /\ stack[k].op = "deliver" /\ stack[l].op = "deliver" =>
      stack[k].slot # stack[l].slot

\* No two records have one token, and a record whose request was answered is
\* in the hands of the call that ends it.
RecordsFit ==
  \A i \in Slots :
    acks[i].inUse =>
      /\ \A j \in Slots :
           acks[j].inUse /\ acks[j].token = acks[i].token => j = i
      /\ \/ told[acks[i].token] = 0
         \/ \E k \in Depths : stack[k].op # "request" /\ stack[k].slot = i

HistoryFits == /\ accepted \subseteq 1 .. seq
               /\ \A answer \in sent : answer[1] \in accepted
               /\ \A a, b \in sent : a[1] = b[1] => a = b

Exact == /\ StackFits /\ SlotsApart /\ RecordsFit /\ HistoryFits
         /\ AnsweredOnce /\ NothingLost

ExactInv == AnswerInv /\ Exact

\* What the invariant says of the innermost call.
LEMMA TopFits ==
  ASSUME ExactInv, stack # <<>>
  PROVE  /\ TypeOK /\ FrameFits(Top) /\ Top \in Frame /\ Top.slot \in Slots
         /\ Len(stack) \in Nat \ {0} /\ Top = stack[Len(stack)]
         /\ Top.op # "deliver" => Len(stack) = 1
<1>1. TypeOK BY DEF ExactInv, AnswerInv
<1>2. Len(stack) \in Nat \ {0} BY <1>1, TopType
<1>3. Len(stack) \in Depths BY <1>2 DEF Depths
<1>4. Top = stack[Len(stack)] BY DEF Top
<1>5. FrameFits(Top) BY <1>3, <1>4 DEF ExactInv, Exact, StackFits
<1>6. Len(stack) > 1 => Top.op = "deliver"
  BY <1>3, <1>4 DEF ExactInv, Exact, StackFits
<1>7. Len(stack) > 1 \/ Len(stack) = 1
  <2>1. \A n \in Nat \ {0} : n > 1 \/ n = 1 OBVIOUS
  <2>. QED BY <1>2, <2>1, Zenon
<1>8. Top.op # "deliver" => Len(stack) = 1 BY <1>6, <1>7
<1>9. Top \in Frame /\ Top.slot \in Slots BY <1>1, TopType
<1>. QED BY <1>1, <1>2, <1>4, <1>5, <1>8, <1>9

\* A call moves on to its next point.
LEMMA MoveKeeps ==
  ASSUME ExactInv, stack # <<>>, NEW f \in Frame, Replace(f),
         f.op = Top.op, f.slot = Top.slot, f.token = Top.token,
         f.op = "expire" => (f.pc = "callback" <=> Top.pc = "callback"),
         UNCHANGED <<acks, told, sent, accepted, seq>>
  PROVE  Exact'
<1>1. /\ TypeOK /\ FrameFits(Top) /\ Len(stack) \in Nat \ {0}
      /\ Top = stack[Len(stack)]
  BY TopFits
<1>2. /\ Len(stack') = Len(stack) /\ stack'[Len(stack)] = f
      /\ \A k \in 1 .. Len(stack) - 1 : stack'[k] = stack[k]
  BY <1>1, ReplaceShape
<1>3. Depths' = Depths BY <1>2 DEF Depths
<1>4. \A k \in Depths : \/ k < Len(stack) /\ stack'[k] = stack[k]
                        \/ k = Len(stack) /\ stack'[k] = f
  BY <1>1, <1>2 DEF Depths
<1>5. FrameFits(f)' BY <1>1 DEF FrameFits
<1>6. \A k \in Depths : /\ stack'[k].op = stack[k].op
                        /\ stack'[k].slot = stack[k].slot
  BY <1>1, <1>4
<1>7. StackFits'
  <2>. SUFFICES ASSUME NEW k \in Depths
                PROVE  /\ FrameFits(stack[k])'
                       /\ k > 1 => stack'[k].op = "deliver"
                       /\ k < Len(stack) => stack'[k].pc \in Waits
    BY <1>2, <1>3 DEF StackFits
  <2>1. FrameFits(stack[k]) /\ (k > 1 => stack[k].op = "deliver")
        /\ (k < Len(stack) => stack[k].pc \in Waits)
    BY DEF ExactInv, Exact, StackFits
  <2>2. CASE k < Len(stack) /\ stack'[k] = stack[k]
    BY <2>1, <2>2 DEF FrameFits
  <2>3. CASE k = Len(stack) /\ stack'[k] = f
    BY <1>1, <1>5, <1>6, <2>1, <2>3 DEF FrameFits
  <2>. QED BY <1>4, <2>2, <2>3
<1>8. SlotsApart' BY <1>3, <1>6 DEF ExactInv, Exact, SlotsApart
<1>9. RecordsFit' BY <1>3, <1>6 DEF ExactInv, Exact, RecordsFit
<1>. QED BY <1>7, <1>8, <1>9
         DEF ExactInv, Exact, HistoryFits, AnsweredOnce, NothingLost

\* A call that holds no record in use is left; it is the only one.
LEMMA LeaveKeeps ==
  ASSUME ExactInv, stack # <<>>, Top.op # "deliver", Leave,
         ~acks[Top.slot].inUse, UNCHANGED <<acks, told, sent, accepted, seq>>
  PROVE  Exact'
<1>1. TypeOK /\ Len(stack) = 1 /\ Top = stack[1] BY TopFits
<1>2. Depths' = {} BY <1>1, LeaveShape DEF Depths
<1>3. Depths = {1} BY <1>1 DEF Depths
<1>4. RecordsFit' BY <1>1, <1>3 DEF ExactInv, Exact, RecordsFit
<1>. QED BY <1>2, <1>4 DEF ExactInv, Exact, StackFits, SlotsApart,
         HistoryFits, AnsweredOnce, NothingLost

\* What happens without a call entering or leaving, or a record changing.
LEMMA QuietKeeps ==
  ASSUME ExactInv, UNCHANGED <<acks, told, accepted, stack>>,
         sent' \subseteq sent, seq' = seq \/ seq' = seq + 1
  PROVE  Exact'
<1>1. TypeOK /\ seq \in Nat /\ accepted \subseteq Tokens
  BY DEF ExactInv, AnswerInv, TypeOK, Tokens
<1>2. Depths' = Depths BY DEF Depths
<1>3. ASSUME NEW k \in Depths PROVE FrameFits(stack[k])'
  <2>1. FrameFits(stack[k]) BY DEF ExactInv, Exact, StackFits
  <2>2. stack[k] \in Frame BY <1>1 DEF TypeOK, Depths
  <2>3. stack[k].token \in Nat
    BY <2>2 DEF Frame, Tokens
  <2>. QED BY <1>1, <2>1, <2>3 DEF FrameFits
<1>4. StackFits' BY <1>2, <1>3 DEF ExactInv, Exact, StackFits
<1>5. HistoryFits'
  <2>1. 1 .. seq \subseteq 1 .. seq' BY <1>1
  <2>. QED BY <2>1 DEF ExactInv, Exact, HistoryFits
<1>. QED BY <1>2, <1>4, <1>5 DEF ExactInv, Exact, SlotsApart, RecordsFit,
         AnsweredOnce, NothingLost

\* A request's document is published and its record filled in.
LEMMA PublishKeeps ==
  ASSUME ExactInv, Publish
  PROVE  Exact'
<1>1. /\ TypeOK /\ stack # <<>> /\ Top.op = "request" /\ Top.slot \in Slots
      /\ Len(stack) = 1 /\ Top = stack[1] /\ FrameFits(Top)
  BY TopFits, TopType DEF Publish, At, EndingPoints, ExactInv, AnswerInv
<1>2. Top.token \in Tokens BY <1>1, TopFits DEF Frame
<1>3. ~acks[Top.slot].inUse /\ Top.token \notin accepted /\ Top.token <= seq
  BY <1>1 DEF FrameFits
<1>4. CASE UNCHANGED <<acks, sent, accepted>>
  BY <1>1, <1>3, <1>4, LeaveKeeps DEF Publish
<1>5. CASE /\ acks' = [acks EXCEPT ![Top.slot] =
                [inUse |-> TRUE, token |-> Top.token, action |-> Top.action]]
           /\ sent' = sent \cup {<<Top.token, Top.action>>}
           /\ accepted' = accepted \cup {Top.token}
  <2>1. Depths' = {} /\ Depths = {1}
    BY <1>1, LeaveShape DEF Depths, Publish
  <2>2. told' = told /\ seq' = seq /\ told[Top.token] = 0
    <3>1. ~(told[Top.token] > 0) /\ told[Top.token] \in Nat
      BY <1>1, <1>2, <1>3
         DEF ExactInv, AnswerInv, OnlyAcceptedAnswered, TypeOK
    <3>. QED BY <3>1 DEF Publish
  <2>3. /\ acks'[Top.slot].inUse /\ acks'[Top.slot].token = Top.token
        /\ \A i \in Slots \ {Top.slot} : acks'[i] = acks[i]
    BY <1>1, <1>5 DEF TypeOK
  <2>4. \A i \in Slots : acks[i].inUse =>
          /\ acks[i].token # Top.token /\ told[acks[i].token] = 0
          /\ \A j \in Slots :
               acks[j].inUse /\ acks[j].token = acks[i].token => j = i
    BY <1>1, <1>3, <2>1
       DEF ExactInv, AnswerInv, Backed, Exact, RecordsFit
  <2>5. RecordsFit' BY <2>2, <2>3, <2>4 DEF RecordsFit
  <2>6. HistoryFits'
    <3>1. Top.token \in 1 .. seq' BY <1>2, <1>3, <2>2 DEF Tokens
    <3>2. accepted' \subseteq 1 .. seq'
      BY <1>5, <2>2, <3>1 DEF ExactInv, Exact, HistoryFits
    <3>3. \A answer \in sent' : answer[1] \in accepted'
      BY <1>5 DEF ExactInv, Exact, HistoryFits
    <3>4. \A answer \in sent : answer[1] # Top.token
      BY <1>3 DEF ExactInv, Exact, HistoryFits
    <3>5. \A a, b \in sent' : a[1] = b[1] => a = b
      BY <1>5, <3>4 DEF ExactInv, Exact, HistoryFits
    <3>. QED BY <3>2, <3>3, <3>5 DEF HistoryFits
  <2>7. NothingLost'
    <3>. SUFFICES ASSUME NEW r \in accepted', told'[r] = 0
                  PROVE  \E i \in Slots : acks'[i].inUse /\ acks'[i].token = r
      BY DEF NothingLost
    <3>1. CASE r = Top.token BY <1>1, <2>3, <3>1
    <3>2. CASE r \in accepted
      <4>1. PICK i \in Slots : acks[i].inUse /\ acks[i].token = r
        BY <2>2, <3>2 DEF ExactInv, Exact, NothingLost
      <4>. QED BY <1>3, <2>3, <4>1
    <3>. QED BY <1>5, <3>1, <3>2
  <2>8. StackFits' /\ SlotsApart' BY <2>1 DEF StackFits, SlotsApart
  <2>9. AnsweredOnce' BY <2>2 DEF ExactInv, Exact, AnsweredOnce
  <2>. QED BY <2>5, <2>6, <2>7, <2>8, <2>9 DEF Exact
<1>. QED BY <1>4, <1>5 DEF Publish

\* A new request takes a free record and a token of its own.
LEMMA RequestKeeps ==
  ASSUME ExactInv, ~CallbackRequests, NEW action \in Actions,
         NEW sticky \in BOOLEAN, Request(action, sticky)
  PROVE  Exact'
<1>1. TypeOK BY DEF ExactInv, AnswerInv
<1>2. seq \in Nat BY <1>1 DEF TypeOK
<1>3. stack = <<>> BY Zenon DEF Request
<1>4. /\ seq < MaxRequests /\ seq' = seq + 1
      /\ UNCHANGED <<acks, sent, accepted, told>>
  BY DEF Request
<1>5. CASE UNCHANGED stack BY <1>4, <1>5, QuietKeeps
<1>6. ASSUME NEW slot \in FreeSlots, NEW f \in Frame,
             f.op = "request", f.slot = slot, f.token = seq + 1,
             stack' = Append(stack, f)
      PROVE  Exact'
  <2>1. Depths = {} /\ Depths' = {1} /\ stack' = <<f>>
    BY <1>3, <1>6 DEF Depths
  <2>2. FrameFits(f)'
    <3>1. seq + 1 \notin accepted
      BY <1>2 DEF ExactInv, Exact, HistoryFits
    <3>. QED BY <1>2, <1>4, <1>6, <3>1 DEF FrameFits, FreeSlots
  <2>3. StackFits' BY <2>1, <2>2 DEF StackFits
  <2>4. SlotsApart' BY <2>1 DEF SlotsApart
  <2>5. RecordsFit' BY <1>4, <2>1 DEF ExactInv, Exact, RecordsFit
  <2>6. HistoryFits'
    <3>1. 1 .. seq \subseteq 1 .. seq' BY <1>2, <1>4
    <3>. QED BY <1>4, <3>1 DEF ExactInv, Exact, HistoryFits
  <2>. QED BY <1>4, <2>3, <2>4, <2>5, <2>6
           DEF ExactInv, Exact, AnsweredOnce, NothingLost
<1>7. ASSUME NEW slot \in Slots, Finds(slot, FreeSlots)
      PROVE  slot \in FreeSlots
  BY <1>7 DEF Finds, Slots
<1>8. ASSUME NEW slot \in Slots,
             stack' = Append(stack, NewRequest(action, sticky, slot)),
             slot \in FreeSlots
      PROVE  Exact'
  <2>1. NewRequest(action, sticky, slot) \in Frame
    BY <1>1, <1>4, NewRequestType
  <2>. QED BY <1>6, <1>8, <2>1 DEF NewRequest
<1>9. ASSUME NEW slot \in FreeSlots, NEW a \in Entries \cup {0},
             NEW r \in Entries \cup {0},
             stack' = Append(stack,
                        [NewRequest(action, sticky, slot) EXCEPT
                          !.pc = IF r # 0 THEN "subscribe" ELSE "clear",
                          !.accepted = a, !.rejected = r])
      PROVE  Exact'
  <2>. DEFINE f == [NewRequest(action, sticky, slot) EXCEPT
                     !.pc = IF r # 0 THEN "subscribe" ELSE "clear",
                     !.accepted = a, !.rejected = r]
  <2>1. NewRequest(action, sticky, slot) \in Frame
    BY <1>1, <1>4, NewRequestType DEF FreeSlots
  <2>2. f \in Frame BY <2>1 DEF NewRequest, Frame, RequestPoints
  <2>3. f.op = "request" /\ f.slot = slot /\ f.token = seq + 1
    BY DEF NewRequest
  <2>. QED BY <1>6, <1>9, <2>2, <2>3
<1>10. CASE \E slot \in Slots :
             /\ Finds(slot, FreeSlots)
             /\ stack' = Append(stack, NewRequest(action, sticky, slot))
  BY <1>7, <1>8, <1>10
<1>11. CASE \E slot \in Slots :
             /\ Finds(slot, FreeSlots)
             /\ \E a, r \in Entries \cup {0} :
                  stack' = Append(stack,
                    [NewRequest(action, sticky, slot) EXCEPT
                      !.pc = IF r # 0 THEN "subscribe" ELSE "clear",
                      !.accepted = a, !.rejected = r])
  <2>1. PICK slot \in Slots, a \in Entries \cup {0}, r \in Entries \cup {0} :
          /\ Finds(slot, FreeSlots)
          /\ stack' = Append(stack,
               [NewRequest(action, sticky, slot) EXCEPT
                 !.pc = IF r # 0 THEN "subscribe" ELSE "clear",
                 !.accepted = a, !.rejected = r])
    BY <1>11, Zenon
  <2>. QED BY <1>7, <1>9, <2>1, Zenon
<1>. QED BY <1>5, <1>10, <1>11 DEF Request

\* Telling the request of a record in use that was not told before.
LEMMA TellOnce ==
  ASSUME ExactInv, NEW slot \in Slots, acks[slot].inUse,
         told[acks[slot].token] = 0, Tell(slot), UNCHANGED <<acks, accepted>>
  PROVE  /\ told'[acks[slot].token] = 1
         /\ \A r \in Tokens : r # acks[slot].token => told'[r] = told[r]
         /\ \A i \in Slots \ {slot} :
              acks[i].inUse => told'[acks[i].token] = told[acks[i].token]
         /\ AnsweredOnce' /\ NothingLost'
<1>1. /\ TypeOK /\ acks[slot].token \in Tokens
      /\ \A i \in Slots : acks[i].inUse => acks[i].token \in Tokens
  BY DEF ExactInv, AnswerInv, Backed, TypeOK
<1>2. told'[acks[slot].token] = 1 BY <1>1 DEF Tell, TypeOK
<1>3. \A r \in Tokens : r # acks[slot].token => told'[r] = told[r]
  BY <1>1 DEF Tell, TypeOK
<1>4. \A i \in Slots \ {slot} :
        acks[i].inUse => acks[i].token # acks[slot].token
  BY DEF ExactInv, Exact, RecordsFit
<1>5. AnsweredOnce' BY <1>2, <1>3 DEF ExactInv, Exact, AnsweredOnce
<1>6. NothingLost'
  <2>1. accepted \subseteq Tokens BY <1>1 DEF TypeOK
  <2>. QED BY <1>2, <1>3, <2>1 DEF ExactInv, Exact, NothingLost
<1>. QED BY <1>1, <1>2, <1>3, <1>4, <1>5, <1>6

\* An expired record's callback starts: no other call is in progress.
LEMMA ExpireKeeps ==
  ASSUME ExactInv, NEW slot \in Slots, acks[slot].inUse, Tell(slot),
         \A i \in Slots : acks[i].inUse => told[acks[i].token] = 0,
         Len(stack') = 1, stack'[1] = Ending("expire", slot),
         UNCHANGED <<acks, seq, sent, accepted>>
  PROVE  Exact'
<1>1. Depths' = {1} BY DEF Depths
<1>2. /\ told'[acks[slot].token] = 1
      /\ \A i \in Slots \ {slot} : acks[i].inUse => told'[acks[i].token] = 0
      /\ AnsweredOnce' /\ NothingLost'
  BY TellOnce
<1>3. StackFits' BY <1>1, <1>2 DEF StackFits, FrameFits, Ending
<1>4. SlotsApart' BY <1>1 DEF SlotsApart
<1>5. RecordsFit'
  <2>1. stack'[1].op # "request" /\ stack'[1].slot = slot BY DEF Ending
  <2>. QED BY <1>1, <1>2, <2>1 DEF ExactInv, Exact, RecordsFit
<1>6. HistoryFits' BY DEF ExactInv, Exact, HistoryFits
<1>. QED BY <1>2, <1>3, <1>4, <1>5, <1>6 DEF Exact

\* An answer is handed to the callback of the request it is for.
LEMMA DeliverKeeps ==
  ASSUME ExactInv, NEW answer \in sent, NEW kind \in Kinds,
         Deliver(answer, kind)
  PROVE  Exact'
<1>1. /\ TypeOK /\ stack \in Seq(Frame) /\ Len(stack) \in Nat
      /\ UNCHANGED <<acks, seq, accepted>> /\ sent' = sent \ {answer}
  BY DEF ExactInv, AnswerInv, TypeOK, Deliver
<1>2. CASE UNCHANGED <<stack, told>> BY <1>1, <1>2, QuietKeeps
<1>3. ASSUME NEW slot \in Slots,
             Finds(slot, {i \in Slots : acks[i].inUse
                                        /\ acks[i].token = answer[1]}),
             stack' = Append(stack, Ending("deliver", slot)), Tell(slot)
      PROVE  Exact'
  <2>. DEFINE f == Ending("deliver", slot)
  <2>1. acks[slot].inUse /\ acks[slot].token = answer[1]
    BY <1>3 DEF Finds, Slots
  <2>2. /\ f.op = "deliver" /\ f.slot = slot /\ f.token = acks[slot].token
    BY DEF Ending
  <2>3. /\ Len(stack') = Len(stack) + 1 /\ stack'[Len(stack) + 1] = f
        /\ \A k \in 1 .. Len(stack) : stack'[k] = stack[k]
    BY <1>1, <1>3, EndingType, EnterShape
  <2>4. \A k \in Depths : stack[k].pc \in Waits
    <3>1. CASE stack = <<>> BY <3>1 DEF Depths
    <3>2. CASE stack # <<>> /\ Top.pc \in Waits
      BY <1>1, <3>2 DEF ExactInv, Exact, StackFits, Depths, Top
    <3>. QED BY <3>1, <3>2 DEF Deliver, At
  <2>5. \A k \in Depths : ~(stack[k].op # "request" /\ stack[k].slot = slot)
    <3>. SUFFICES ASSUME NEW k \in Depths, stack[k].op # "request",
                         stack[k].slot = slot
                  PROVE  FALSE
      OBVIOUS
    <3>1. FrameFits(stack[k]) /\ stack[k].pc \in Waits /\ stack[k] \in Frame
      BY <1>1, <2>4 DEF ExactInv, Exact, StackFits, Depths
    <3>2. stack[k].op # "deliver" BY <2>1, <3>1 DEF FrameFits
    <3>3. stack[k].op # "expire" BY <2>1, <3>1 DEF FrameFits, Waits
    <3>. QED BY <3>1, <3>2, <3>3 DEF Frame
  <2>6. told[acks[slot].token] = 0
    BY <2>1, <2>5 DEF ExactInv, Exact, RecordsFit
  <2>7. /\ told'[acks[slot].token] = 1
        /\ \A r \in Tokens : r # acks[slot].token => told'[r] = told[r]
        /\ \A i \in Slots \ {slot} :
             acks[i].inUse => told'[acks[i].token] = told[acks[i].token]
        /\ AnsweredOnce' /\ NothingLost'
    BY <1>1, <1>3, <2>1, <2>6, TellOnce
  <2>8. \A x \in sent' : x[1] # acks[slot].token
    BY <1>1, <2>1 DEF ExactInv, Exact, HistoryFits
  <2>9. Depths' = Depths \cup {Len(stack) + 1} /\ Len(stack) + 1 \notin Depths
    BY <1>1, <2>3 DEF Depths
  <2>10. \A k \in Depths : stack'[k] = stack[k] /\ k <= Len(stack)
    BY <2>3 DEF Depths
  <2>11. ASSUME NEW k \in Depths PROVE FrameFits(stack[k])'
    <3>1. FrameFits(stack[k]) BY DEF ExactInv, Exact, StackFits
    <3>2. stack[k] \in Frame /\ stack[k].slot \in Slots
      BY <1>1 DEF Depths, Frame
    <3>3. stack'[k] = stack[k] BY <2>10
    <3>4. CASE stack[k].op = "request"
      BY <1>1, <3>1, <3>4, <3>3 DEF FrameFits
    <3>5. CASE stack[k].op = "deliver"
      <4>1. stack[k].slot # slot BY <2>5, <3>5
      <4>2. told'[stack[k].token] = 1
        BY <2>7, <3>1, <3>2, <3>5, <4>1 DEF FrameFits
      <4>. QED BY <1>1, <3>1, <3>5, <3>3, <4>2 DEF FrameFits
    <3>6. CASE stack[k].op = "expire"
      <4>1. ~acks[stack[k].slot].inUse /\ stack[k].pc # "callback"
        BY <2>4, <3>1, <3>6 DEF FrameFits, Waits
      <4>. QED BY <1>1, <3>6, <3>3, <4>1 DEF FrameFits
    <3>. QED BY <3>2, <3>4, <3>5, <3>6 DEF Frame
  <2>12. ASSUME NEW k, k = Len(stack) + 1 PROVE FrameFits(stack[k])'
    <3>1. stack'[k] = f BY <2>3, <2>12
    <3>. QED BY <1>1, <2>1, <2>2, <2>7, <2>8, <3>1 DEF FrameFits
  <2>13. StackFits'
    <3>. SUFFICES ASSUME NEW k \in Depths'
                  PROVE  /\ FrameFits(stack[k])'
                         /\ k > 1 => stack'[k].op = "deliver"
                         /\ k < Len(stack') => stack'[k].pc \in Waits
      BY DEF StackFits
    <3>1. CASE k \in Depths
      <4>1. FrameFits(stack[k])' BY <2>11, <3>1
      <4>2. k > 1 => stack[k].op = "deliver"
        BY <3>1 DEF ExactInv, Exact, StackFits
      <4>3. stack'[k] = stack[k] /\ stack[k].pc \in Waits
        BY <2>4, <2>10, <3>1
      <4>. QED BY <4>1, <4>2, <4>3
    <3>2. CASE k = Len(stack) + 1
      <4>1. stack'[k] = f BY <2>3, <3>2
      <4>2. FrameFits(stack[k])' BY <2>12, <3>2
      <4>3. ~(k < Len(stack')) BY <1>1, <2>3, <3>2
      <4>. QED BY <2>2, <4>1, <4>2, <4>3
    <3>. QED BY <2>9, <3>1, <3>2
  <2>14. SlotsApart'
    BY <2>2, <2>3, <2>5, <2>9, <2>10 DEF ExactInv, Exact, SlotsApart
  <2>15. RecordsFit'
    BY <1>1, <2>2, <2>3, <2>7, <2>9, <2>10 DEF ExactInv, Exact, RecordsFit
  <2>16. HistoryFits' BY <1>1 DEF ExactInv, Exact, HistoryFits
  <2>. QED BY <2>7, <2>13, <2>14, <2>15, <2>16 DEF Exact
<1>. QED BY <1>2, <1>3 DEF Deliver

\* A record that is given back was told; no other record changes.
LEMMA GiveBackKeeps ==
  ASSUME ExactInv, NEW slot \in Slots, acks[slot].inUse,
         told[acks[slot].token] = 1,
         acks' = [acks EXCEPT ![slot].inUse = FALSE],
         UNCHANGED <<told, accepted, sent, seq>>
  PROVE  /\ ~acks'[slot].inUse /\ \A i \in Slots \ {slot} : acks'[i] = acks[i]
         /\ HistoryFits' /\ AnsweredOnce' /\ NothingLost'
<1>1. TypeOK BY DEF ExactInv, AnswerInv
<1>2. ~acks'[slot].inUse /\ \A i \in Slots \ {slot} : acks'[i] = acks[i]
  BY <1>1 DEF TypeOK, Record
<1>3. NothingLost' BY <1>2 DEF ExactInv, Exact, NothingLost
<1>. QED BY <1>2, <1>3 DEF ExactInv, Exact, HistoryFits, AnsweredOnce

\* The end of an expired record's callback.
LEMMA EndExpiredKeeps ==
  ASSUME ExactInv, At("callback"), Top.op = "expire", EndCallback
  PROVE  Exact'
<1>1. /\ TypeOK /\ stack # <<>> /\ Top.slot \in Slots /\ Len(stack) = 1
      /\ Top = stack[1] /\ FrameFits(Top)
  BY TopFits DEF At
<1>2. acks[Top.slot].inUse /\ told[acks[Top.slot].token] = 1
  BY <1>1 DEF At, FrameFits
<1>3. /\ acks' = [acks EXCEPT ![Top.slot].inUse = FALSE]
      /\ UNCHANGED <<told, accepted, sent, seq>>
  BY DEF EndCallback
<1>4. /\ ~acks'[Top.slot].inUse
      /\ \A i \in Slots \ {Top.slot} : acks'[i] = acks[i]
      /\ HistoryFits' /\ AnsweredOnce' /\ NothingLost'
  BY <1>1, <1>2, <1>3, GiveBackKeeps
<1>. DEFINE f == [Top EXCEPT !.pc = "unsubscribe",
                             !.action = acks[Top.slot].action]
<1>5. f \in Frame /\ f.op = "expire" /\ f.slot = Top.slot
      /\ f.pc = "unsubscribe"
  BY <1>1, TopFits DEF Frame, EndingPoints, RequestPoints, TypeOK, Record
<1>6. Len(stack') = 1 /\ stack'[1] = f
  BY <1>1, <1>5, ReplaceShape DEF EndCallback
<1>7. Depths = {1} /\ Depths' = {1} BY <1>1, <1>6 DEF Depths
<1>8. StackFits'
  <2>. HIDE DEF f
  <2>1. FrameFits(stack[1])' BY <1>4, <1>5, <1>6 DEF FrameFits
  <2>. QED BY <1>6, <1>7, <2>1 DEF StackFits
<1>9. SlotsApart' BY <1>7 DEF SlotsApart
<1>10. RecordsFit'
  BY <1>1, <1>3, <1>4, <1>7 DEF ExactInv, Exact, RecordsFit
<1>. QED BY <1>4, <1>8, <1>9, <1>10 DEF Exact

\* The end of an answer: its record is free for the next request.
LEMMA EndDeliverKeeps ==
  ASSUME ExactInv, stack # <<>>, Top.op = "deliver", Leave,
         acks' = [acks EXCEPT ![Top.slot].inUse = FALSE],
         UNCHANGED <<told, accepted, sent, seq>>
  PROVE  Exact'
<1>. DEFINE n == Len(stack)
<1>1. /\ TypeOK /\ Top.slot \in Slots /\ n \in Nat \ {0}
      /\ Top = stack[n] /\ FrameFits(Top) /\ stack \in Seq(Frame)
  BY TopFits DEF TypeOK
<1>2. acks[Top.slot].inUse /\ told[acks[Top.slot].token] = 1
  BY <1>1 DEF FrameFits
<1>3. /\ ~acks'[Top.slot].inUse
      /\ \A i \in Slots \ {Top.slot} : acks'[i] = acks[i]
      /\ HistoryFits' /\ AnsweredOnce' /\ NothingLost'
  BY <1>1, <1>2, GiveBackKeeps
<1>4. /\ Len(stack') = n - 1
      /\ \A k \in 1 .. n - 1 : stack'[k] = stack[k]
  BY <1>1, LeaveShape
<1>5. /\ Depths' = 1 .. n - 1 /\ Depths = Depths' \cup {n}
      /\ \A k \in Depths' : stack'[k] = stack[k] /\ k < n
  BY <1>1, <1>4 DEF Depths
<1>6. ASSUME NEW k \in Depths' PROVE FrameFits(stack[k])'
  <2>1. /\ FrameFits(stack[k]) /\ stack'[k] = stack[k]
        /\ stack[k].pc \in Waits
    BY <1>5 DEF ExactInv, Exact, StackFits
  <2>2. stack[k] \in Frame /\ stack[k].slot \in Slots
    BY <1>1, <1>5 DEF Depths, Frame
  <2>3. CASE stack[k].op = "request"
    BY <1>3, <2>1, <2>2, <2>3 DEF FrameFits
  <2>4. CASE stack[k].op = "deliver"
    <3>1. stack[k].slot # Top.slot
      BY <1>1, <1>5, <2>4 DEF ExactInv, Exact, SlotsApart
    <3>. QED BY <1>3, <2>1, <2>2, <2>4, <3>1 DEF FrameFits
  <2>5. CASE stack[k].op = "expire"
    <3>1. ~acks[stack[k].slot].inUse /\ stack[k].pc # "callback"
      BY <2>1, <2>5 DEF FrameFits, Waits
    <3>. QED BY <1>3, <2>1, <2>2, <2>5, <3>1 DEF FrameFits
  <2>. QED BY <2>2, <2>3, <2>4, <2>5 DEF Frame
<1>7. StackFits'
  <2>. SUFFICES ASSUME NEW k \in Depths'
                PROVE  /\ FrameFits(stack[k])'
                       /\ k > 1 => stack'[k].op = "deliver"
                       /\ k < Len(stack') => stack'[k].pc \in Waits
    BY DEF StackFits
  <2>1. FrameFits(stack[k])' BY <1>6
  <2>2. stack'[k].pc \in Waits
    BY <1>5 DEF ExactInv, Exact, StackFits
  <2>3. k > 1 => stack'[k].op = "deliver"
    BY <1>5 DEF ExactInv, Exact, StackFits
  <2>. QED BY <2>1, <2>2, <2>3
<1>8. SlotsApart' BY <1>5 DEF ExactInv, Exact, SlotsApart
<1>9. RecordsFit'
  BY <1>1, <1>3, <1>5 DEF ExactInv, Exact, RecordsFit
<1>. QED BY <1>3, <1>7, <1>8, <1>9 DEF Exact

\* Where an answer's or a timeout's end goes after one of its topics.
LEMMA ProceedKeeps ==
  ASSUME ExactInv, At("unsubscribe") \/ At("waitUnsubscribe"), Proceed,
         UNCHANGED <<seq, sent, accepted>>
  PROVE  Exact'
<1>1. /\ TypeOK /\ stack # <<>> /\ Top \in Frame /\ Top.slot \in Slots
      /\ Top.op \in {"deliver", "expire"} /\ Top.pc # "callback"
  BY TopFits, TopType DEF At, RequestPoints, Frame
<1>2. CASE Top.kind = "accepted"
  <2>. DEFINE f == [Top EXCEPT !.pc = "unsubscribe", !.kind = "rejected"]
  <2>1. Replace(f) /\ UNCHANGED <<acks, told>> BY <1>2 DEF Proceed
  <2>2. /\ f \in Frame /\ f.op = Top.op /\ f.slot = Top.slot
        /\ f.token = Top.token /\ f.pc = "unsubscribe"
    BY <1>1 DEF Frame, EndingPoints, RequestPoints, Kinds
  <2>. HIDE DEF f
  <2>. QED BY <1>1, <2>1, <2>2, MoveKeeps
<1>3. CASE Top.kind # "accepted" /\ Top.op = "deliver"
  <2>1. Top.kind = "rejected" BY <1>1, <1>3 DEF Frame, Kinds
  <2>2. /\ Leave /\ acks' = [acks EXCEPT ![Top.slot].inUse = FALSE]
        /\ UNCHANGED told
    BY <1>3, <2>1 DEF Proceed
  <2>. QED BY <1>1, <1>3, <2>2, EndDeliverKeeps
<1>4. CASE Top.kind # "accepted" /\ Top.op = "expire"
  <2>1. Len(stack) = 1 /\ Top = stack[1] /\ ~acks[Top.slot].inUse
    BY <1>1, <1>4, TopFits DEF FrameFits
  <2>2. UNCHANGED acks BY <1>4 DEF Proceed
  <2>3. CASE Leave /\ UNCHANGED told
    BY <1>1, <1>4, <2>1, <2>2, <2>3, LeaveKeeps
  <2>4. CASE \E slot \in Slots : /\ Finds(slot, Expired(Top.slot))
                                 /\ Replace(Ending("expire", slot))
                                 /\ Tell(slot)
    <3>1. PICK slot \in Slots : /\ Finds(slot, Expired(Top.slot))
                                /\ Replace(Ending("expire", slot))
                                /\ Tell(slot)
      BY <2>4
    <3>2. acks[slot].inUse BY <3>1 DEF Finds, Expired, Slots
    <3>3. Len(stack') = 1 /\ stack'[1] = Ending("expire", slot)
      BY <1>1, <2>1, <3>1, EndingType, ReplaceShape
    <3>4. \A i \in Slots : acks[i].inUse => told[acks[i].token] = 0
      BY <1>1, <2>1 DEF ExactInv, Exact, RecordsFit, Depths
    <3>. QED BY <2>2, <3>1, <3>2, <3>3, <3>4, ExpireKeeps
  <2>. QED BY <1>4, <2>3, <2>4 DEF Proceed
<1>. QED BY <1>1, <1>2, <1>3, <1>4

\* The loop of aws_iot_shadow_yield finds its first expired record.
LEMMA YieldKeeps ==
  ASSUME ExactInv, Yield
  PROVE  Exact'
<1>1. stack = <<>> /\ UNCHANGED <<acks, seq, sent, accepted>> BY DEF Yield
<1>2. CASE UNCHANGED <<stack, told>> BY <1>1, <1>2, QuietKeeps
<1>3. ASSUME NEW slot \in Slots, Finds(slot, Expired(0)),
             stack' = <<Ending("expire", slot)>>, Tell(slot)
      PROVE  Exact'
  <2>1. acks[slot].inUse BY <1>3 DEF Finds, Expired, Slots
  <2>2. Len(stack') = 1 /\ stack'[1] = Ending("expire", slot) BY <1>3
  <2>3. \A i \in Slots : acks[i].inUse => told[acks[i].token] = 0
    BY <1>1 DEF ExactInv, Exact, RecordsFit, Depths
  <2>. QED BY <1>1, <1>3, <2>1, <2>2, <2>3, ExpireKeeps
<1>. QED BY <1>2, <1>3 DEF Yield

\* The points of a request before its publish.
LEMMA RequestMoves ==
  ASSUME ExactInv, \/ Subscribe \/ SubscribeFails \/ SubscribedAccepted
                   \/ SubscribedRejected \/ Clear \/ EndClear
  PROVE  Exact'
<1>1. /\ TypeOK /\ stack # <<>> /\ Top.op = "request" /\ Top \in Frame
      /\ ~acks[Top.slot].inUse
      /\ UNCHANGED <<acks, told, sent, accepted, seq>>
  <2>1. stack # <<>> BY DEF Subscribe, SubscribeFails, SubscribedAccepted,
         SubscribedRejected, Clear, EndClear, At
  <2>2. Top.op = "request"
    BY <2>1, TopFits, TopType DEF Subscribe, SubscribeFails,
       SubscribedAccepted, SubscribedRejected, Clear, EndClear, At, EndingPoints
  <2>3. UNCHANGED <<acks, told, sent, accepted, seq>>
    BY DEF Subscribe, SubscribeFails, SubscribedAccepted,
       SubscribedRejected, Clear, EndClear
  <2>. QED BY <2>1, <2>2, <2>3, TopFits DEF FrameFits
<1>2. ASSUME NEW f, Replace(f), f \in Frame, f.op = Top.op,
             f.slot = Top.slot, f.token = Top.token
      PROVE  Exact'
  BY <1>1, <1>2, MoveKeeps
<1>3. ASSUME NEW pc \in RequestPoints, Goto(pc) PROVE Exact'
  <2>. DEFINE f == [Top EXCEPT !.pc = pc]
  <2>1. /\ f \in Frame /\ f.op = Top.op /\ f.slot = Top.slot
        /\ f.token = Top.token
    BY <1>1 DEF Frame
  <2>2. Replace(f) BY <1>3 DEF Goto
  <2>. HIDE DEF f
  <2>. QED BY <1>2, <2>1, <2>2
<1>4. ASSUME NEW h \in Handlers, NEW pc \in RequestPoints,
             Replace([Top EXCEPT !.handler = h, !.pc = pc])
      PROVE  Exact'
  <2>. DEFINE f == [Top EXCEPT !.handler = h, !.pc = pc]
  <2>1. /\ f \in Frame /\ f.op = Top.op /\ f.slot = Top.slot
        /\ f.token = Top.token
    BY <1>1 DEF Frame
  <2>2. Replace(f) BY <1>4
  <2>. HIDE DEF f
  <2>. QED BY <1>2, <2>1, <2>2
<1>5. ASSUME Replace([Top EXCEPT !.pc = "clear", !.ok = FALSE])
      PROVE  Exact'
  <2>. DEFINE f == [Top EXCEPT !.pc = "clear", !.ok = FALSE]
  <2>1. /\ f \in Frame /\ f.op = Top.op /\ f.slot = Top.slot
        /\ f.token = Top.token
    BY <1>1 DEF Frame, RequestPoints
  <2>2. Replace(f) BY <1>5
  <2>. HIDE DEF f
  <2>. QED BY <1>2, <2>1, <2>2
<1>6. CASE Leave BY <1>1, <1>6, LeaveKeeps
<1>7. CASE Subscribe \/ SubscribeFails
  BY <1>4, <1>5, <1>7 DEF Subscribe, SubscribeFails, RequestPoints
<1>8. CASE SubscribedAccepted \/ SubscribedRejected
  BY <1>3, <1>8 DEF SubscribedAccepted, SubscribedRejected, RequestPoints
<1>9. CASE Clear \/ EndClear
  BY <1>3, <1>6, <1>9 DEF Clear, EndClear, Cleared, RequestPoints
<1>. QED BY <1>7, <1>8, <1>9

\* A callback that returns, and the points after it.
LEMMA EndingMoves ==
  ASSUME ExactInv, EndCallback \/ Unsubscribe \/ EndUnsubscribe
  PROVE  Exact'
<1>1. /\ TypeOK /\ stack # <<>> /\ Top.op # "request" /\ Top \in Frame
      /\ Top.slot \in Slots
      /\ UNCHANGED <<sent, accepted, seq>>
  <2>1. stack # <<>> BY DEF EndCallback, Unsubscribe, EndUnsubscribe, At
  <2>2. Top.op # "request"
    BY <2>1, TopFits, TopType
       DEF EndCallback, Unsubscribe, EndUnsubscribe, At, RequestPoints
  <2>3. UNCHANGED <<sent, accepted, seq>>
    BY DEF EndCallback, Unsubscribe, EndUnsubscribe
  <2>. QED BY <2>1, <2>2, <2>3, TopFits
<1>2. CASE EndCallback /\ Top.op = "expire"
  BY <1>2, EndExpiredKeeps DEF EndCallback
<1>3. CASE EndCallback /\ Top.op # "expire"
  <2>. DEFINE f == [Top EXCEPT !.pc = "unsubscribe",
                               !.action = acks[Top.slot].action]
  <2>1. /\ f \in Frame /\ f.op = Top.op /\ f.slot = Top.slot
        /\ f.token = Top.token
    BY <1>1 DEF Frame, EndingPoints, RequestPoints, TypeOK, Record
  <2>2. Replace(f) /\ UNCHANGED <<acks, told>> BY <1>3 DEF EndCallback
  <2>. HIDE DEF f
  <2>. QED BY <1>1, <1>3, <2>1, <2>2, MoveKeeps
<1>4. CASE (Unsubscribe \/ EndUnsubscribe) /\ Proceed
  BY <1>1, <1>4, ProceedKeeps DEF Unsubscribe, EndUnsubscribe
<1>5. ASSUME NEW e \in Entries, At("unsubscribe"), UNCHANGED <<acks, told>>,
             Replace([Top EXCEPT !.pc = "waitUnsubscribe", !.accepted = e])
      PROVE  Exact'
  <2>. DEFINE f == [Top EXCEPT !.pc = "waitUnsubscribe", !.accepted = e]
  <2>1. /\ f \in Frame /\ f.op = Top.op /\ f.slot = Top.slot
        /\ f.token = Top.token /\ f.pc # "callback" /\ Top.pc # "callback"
    BY <1>1, <1>5 DEF Frame, EndingPoints, RequestPoints, At
  <2>2. Replace(f) BY <1>5
  <2>. HIDE DEF f
  <2>. QED BY <1>1, <1>5, <2>1, <2>2, MoveKeeps
<1>6. CASE Unsubscribe /\ ~Proceed BY <1>5, <1>6 DEF Unsubscribe
<1>7. CASE EndUnsubscribe /\ ~Proceed BY <1>7 DEF EndUnsubscribe
<1>. QED BY <1>2, <1>3, <1>4, <1>6, <1>7

\* The invariant is inductive when no callback makes requests and the
\* application does not connect again.
LEMMA ExactInduction ==
  ASSUME ~CallbackRequests, ~Reconnects
  PROVE  /\ Init => ExactInv
         /\ ExactInv /\ [Next]_vars => ExactInv'
<1>1. Init => ExactInv
  <2>. SUFFICES ASSUME Init PROVE ExactInv OBVIOUS
  <2>1. AnswerInv BY InitAnswers
  <2>2. Depths = {} BY DEF Init, Depths
  <2>3. StackFits /\ SlotsApart BY <2>2 DEF StackFits, SlotsApart
  <2>4. RecordsFit /\ HistoryFits BY DEF Init, RecordsFit, HistoryFits
  <2>5. AnsweredOnce /\ NothingLost BY DEF Init, AnsweredOnce, NothingLost
  <2>. QED BY <2>1, <2>3, <2>4, <2>5 DEF ExactInv, Exact
<1>2. ASSUME ExactInv, [Next]_vars PROVE Exact'
  <2>1. CASE \E action \in Actions, sticky \in BOOLEAN : Request(action, sticky)
    BY <1>2, <2>1, RequestKeeps
  <2>2. CASE Continue
    BY <1>2, <2>2, RequestMoves, PublishKeeps, EndingMoves DEF Continue
  <2>3. CASE \E answer \in sent, kind \in Kinds : Deliver(answer, kind)
    BY <1>2, <2>3, DeliverKeeps
  <2>4. CASE Yield BY <1>2, <2>4, YieldKeeps
  <2>5. CASE \E slot \in Slots : TimeOut(slot)
    BY <1>2, <2>5, QuietKeeps DEF TimeOut
  <2>6. CASE UNCHANGED vars
    BY <1>2, <2>6, QuietKeeps DEF vars
  <2>7. CASE Reconnect BY <2>7 DEF Reconnect
  <2>. QED BY <1>2, <2>1, <2>2, <2>3, <2>4, <2>5, <2>6, <2>7 DEF Next
<1>3. ASSUME ExactInv, [Next]_vars PROVE ExactInv'
  BY <1>2, <1>3, StepAnswers DEF ExactInv
<1>. QED BY <1>1, <1>3

\* Each accepted request's callback runs at most once, though its answer and
\* its timeout race and calls nest.
THEOREM AnsweredOnceCorrect ==
  ASSUME ~CallbackRequests, ~Reconnects
  PROVE  Spec => []AnsweredOnce
<1>1. ExactInv => AnsweredOnce BY DEF ExactInv, Exact
<1>. QED BY ExactInduction, <1>1, PTL DEF Spec

\* An accepted request stays in AckWaitList until its callback was called.
THEOREM NothingLostCorrect ==
  ASSUME ~CallbackRequests, ~Reconnects
  PROVE  Spec => []NothingLost
<1>1. ExactInv => NothingLost BY DEF ExactInv, Exact
<1>. QED BY ExactInduction, <1>1, PTL DEF Spec
=============================================================================
