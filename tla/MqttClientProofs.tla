-------------------------- MODULE MqttClientProofs --------------------------
(***************************************************************************)
(* Proofs about MqttClient, for every value of its constants.              *)
(*                                                                         *)
(* First, the types.  Then a client used by one thread: the state is the   *)
(* one the innermost call put there.  The theorems hold for every set of   *)
(* calls, whatever the message callbacks (except that they do not          *)
(* disconnect) and the disconnect handler call, at any depth of nesting,   *)
(* whether or not the client reconnects by itself and however its mutexes  *)
(* are taken.                                                              *)
(***************************************************************************)
EXTENDS MqttClient, SequenceTheorems, TLAPS

-----------------------------------------------------------------------------
(* The stack of a thread. *)

\* A sequence without its last element.
LEMMA DropLast ==
  ASSUME NEW S, NEW s \in Seq(S), NEW n \in Nat, Len(s) = n + 1
  PROVE  /\ SubSeq(s, 1, n) \in Seq(S)
         /\ Len(SubSeq(s, 1, n)) = n
         /\ \A i \in 1..n : SubSeq(s, 1, n)[i] = s[i]
<1>1. \A i \in 1..n : s[i] \in S OBVIOUS
<1>2. /\ SubSeq(s, 1, n) \in Seq(S)
      /\ Len(SubSeq(s, 1, n)) = IF 1 <= n THEN n - 1 + 1 ELSE 0
      /\ \A i \in 1..(n - 1 + 1) : SubSeq(s, 1, n)[i] = s[1 + i - 1]
  BY <1>1, SubSeqProperties
<1>3. (IF 1 <= n THEN n - 1 + 1 ELSE 0) = n OBVIOUS
<1>4. n - 1 + 1 = n /\ \A i \in 1..n : 1 + i - 1 = i OBVIOUS
<1>. QED BY <1>2, <1>3, <1>4

\* The frame on top of a non-empty stack is a frame.
LEMMA TopType ==
  ASSUME stack \in [Threads -> Seq(Frame)], NEW t \in Threads, stack[t] # <<>>
  PROVE  /\ Len(stack[t]) \in Nat \ {0}
         /\ Top(t) \in Frame
         /\ Top(t).op \in ApiCalls \cup {"deliver"}
         /\ Top(t).pc \in Points
         /\ Top(t).saved \in ClientState
<1>1. stack[t] \in Seq(Frame) OBVIOUS
<1>2. Len(stack[t]) \in Nat \ {0} BY <1>1
<1>3. Top(t) \in Frame BY <1>1, <1>2 DEF Top
<1>. QED BY <1>2, <1>3 DEF Frame

\* Moving the top frame to another point, and dropping it, leave a stack.
LEMMA MovedToType ==
  ASSUME stack \in [Threads -> Seq(Frame)], NEW t \in Threads, stack[t] # <<>>,
         NEW pc \in Points
  PROVE  MovedTo(t, pc) \in Seq(Frame)
<1>. DEFINE n == Len(stack[t])
<1>1. stack[t] \in Seq(Frame) /\ n \in Nat \ {0} /\ Top(t) \in Frame
  BY TopType
<1>2. [Top(t) EXCEPT !.pc = pc] \in Frame BY <1>1 DEF Frame
<1>3. MovedTo(t, pc) = [stack[t] EXCEPT ![n] = [Top(t) EXCEPT !.pc = pc]]
  BY DEF MovedTo, Top
<1>. QED BY <1>1, <1>2, <1>3

LEMMA PoppedType ==
  ASSUME stack \in [Threads -> Seq(Frame)], NEW t \in Threads, stack[t] # <<>>
  PROVE  Popped(t) \in Seq(Frame)
BY TopType DEF Popped

LEMMA GotoType ==
  ASSUME stack \in [Threads -> Seq(Frame)], NEW t \in Threads, stack[t] # <<>>,
         NEW pc \in Points, Goto(t, pc)
  PROVE  stack' \in [Threads -> Seq(Frame)]
BY MovedToType DEF Goto

LEMMA CodeType ==
  ASSUME rc \in [Threads -> ReturnCodes], NEW t \in Threads,
         NEW r \in ReturnCodes, Code(t, r)
  PROVE  rc' \in [Threads -> ReturnCodes]
BY DEF Code

LEMMA ReturnType ==
  ASSUME TypeOK, NEW t \in Threads, stack[t] # <<>>, NEW r \in ReturnCodes,
         Return(t, r)
  PROVE  stack' \in [Threads -> Seq(Frame)] /\ rc' \in [Threads -> ReturnCodes]
BY PoppedType, CodeType DEF Return, TypeOK

LEMMA CompareAndSetType ==
  ASSUME state \in ClientState, NEW t, NEW expected, NEW new \in ClientState,
         NEW r, CompareAndSet(t, expected, new, r)
  PROVE  state' \in ClientState
BY DEF CompareAndSet

LEMMA HeldType == \A op : Held(op) \in ClientState
BY DEF Held, ClientState, Connected

LEMMA RefusalType == \A op, s : Refusal(op, s) \in ReturnCodes
BY DEF Refusal, ReturnCodes, CasResults

LEMMA FirstPointType == \A op, s : FirstPoint(op, s) \in Points
BY DEF FirstPoint, Points

LEMMA EnterType ==
  ASSUME TypeOK, NEW t \in Threads, NEW op \in ApiCalls, NEW s \in Seq(Frame),
         Enter(t, op, s)
  PROVE  stack' \in [Threads -> Seq(Frame)] /\ rc' \in [Threads -> ReturnCodes]
<1>. DEFINE f == [op |-> op, pc |-> FirstPoint(op, state), saved |-> state]
<1>1. f \in Frame BY FirstPointType DEF Frame, TypeOK
<1>2. Append(s, f) \in Seq(Frame) BY <1>1
<1>3. Refusal(op, state) \in ReturnCodes BY RefusalType
<1>. QED BY <1>2, <1>3 DEF Enter, Code, TypeOK

-----------------------------------------------------------------------------
(* Type correctness. *)

\* Every step keeps every variable within its type: no call, callback or
\* failure takes the client out of the states of ClientState.
LEMMA TypeStep == TypeOK /\ [Next]_vars => TypeOK'
<1>. SUFFICES ASSUME TypeOK, [Next]_vars PROVE TypeOK' OBVIOUS
<1>. USE ConstantsAssumption
<1>1. stack \in [Threads -> Seq(Frame)] /\ rc \in [Threads -> ReturnCodes]
       /\ state \in ClientState
  BY DEF TypeOK
<1>2. CasResults \subseteq ReturnCodes BY DEF ReturnCodes
<1>3. {"NONE", "FAILURE", "NOT_IDLE", "DISCONNECTED", "MANUALLY", "ATTEMPTING",
       "RECONNECTED", "ALREADY", "SUCCESS"} \subseteq ReturnCodes
  BY DEF ReturnCodes, CasResults
<1>4. {"INITIALIZED", "IDLE", "CONNECTING", "DISCONNECTED_ERROR", "YIELD",
       "DISCONNECTED_MANUALLY", "PENDING_RECONNECT"} \subseteq ClientState
  BY DEF ClientState, Connected
<1>6. \A t \in Threads, pc \in Points :
        stack[t] # <<>> /\ Goto(t, pc) => stack' \in [Threads -> Seq(Frame)]
  BY <1>1, GotoType
<1>7. \A t \in Threads, r \in ReturnCodes :
        Code(t, r) => rc' \in [Threads -> ReturnCodes]
  BY <1>1, CodeType
<1>8. \A t \in Threads, r \in ReturnCodes :
        stack[t] # <<>> /\ Return(t, r) => /\ stack' \in [Threads -> Seq(Frame)]
                                         /\ rc' \in [Threads -> ReturnCodes]
  BY ReturnType
<1>9. \A t \in Threads, e \in ClientState, n \in ClientState, r \in CasResults :
        CompareAndSet(t, e, n, r) => state' \in ClientState
  BY <1>1, CompareAndSetType
<1>10. \A t \in Threads, op \in ApiCalls, q \in Seq(Frame) :
        Enter(t, op, q) => /\ stack' \in [Threads -> Seq(Frame)]
                           /\ rc' \in [Threads -> ReturnCodes]
  BY EnterType
<1>11. \A t \in Threads : stack[t] # <<>> =>
         /\ stack[t] \in Seq(Frame)
         /\ Top(t).op \in ApiCalls \cup {"deliver"}
         /\ Top(t).saved \in ClientState
         /\ Popped(t) \in Seq(Frame)
         /\ \A pc \in Points : MovedTo(t, pc) \in Seq(Frame)
  BY <1>1, TopType, PoppedType, MovedToType
<1>13. ASSUME NEW t \in Threads, Call(t) PROVE TypeOK'
  BY <1>13, <1>10 DEF Call, TypeOK
<1>14. ASSUME NEW t \in Threads, Claim(t) PROVE TypeOK'
  BY <1>14, <1>2, <1>6, <1>8, <1>9, <1>11, HeldType
  DEF Claim, AtPoint, Points, TypeOK
<1>15. ASSUME NEW t \in Threads, UndoUnsubscribe(t) PROVE TypeOK'
  BY <1>15, <1>2, <1>8, <1>9, <1>11, HeldType DEF UndoUnsubscribe, At, TypeOK
<1>16. ASSUME NEW t \in Threads, SendRequest(t) PROVE TypeOK'
  BY <1>16, <1>3, <1>6, <1>7 DEF SendRequest, AtPoint, Points, TypeOK
<1>17. ASSUME NEW t \in Threads, AwaitAck(t) PROVE TypeOK'
  BY <1>17, <1>3, <1>6, <1>7 DEF AwaitAck, AtPoint, Points, TypeOK
<1>18. ASSUME NEW t \in Threads, ReadPingResp(t) PROVE TypeOK'
  BY <1>18 DEF ReadPingResp, TypeOK
<1>19. ASSUME NEW t \in Threads, ReadPublish(t) PROVE TypeOK'
  <2>. DEFINE pc == IF Top(t).pc = "read" THEN "delivered" ELSE "wait"
  <2>1. stack[t] # <<>> BY <1>19 DEF ReadPublish, At, AtPoint
  <2>2. MovedTo(t, pc) \in Seq(Frame) BY <2>1, <1>11 DEF Points
  <2>3. DeliverFrame \in Frame BY <1>1 DEF DeliverFrame, Frame, Points
  <2>4. Append(MovedTo(t, pc), DeliverFrame) \in Seq(Frame) BY <2>2, <2>3
  <2>. QED BY <1>19, <2>4, <1>1 DEF ReadPublish, TypeOK
<1>20. ASSUME NEW t \in Threads, Release(t) PROVE TypeOK'
  BY <1>20, <1>2, <1>8, <1>9, <1>11, HeldType DEF Release, AtPoint, TypeOK
<1>21. ASSUME NEW t \in Threads, BeginCallback(t) PROVE TypeOK'
  BY <1>21, <1>6, <1>9, <1>11, HeldType DEF BeginCallback, At, Points, TypeOK
<1>22. ASSUME NEW t \in Threads, CallFromCallback(t) PROVE TypeOK'
  BY <1>22, <1>10 DEF CallFromCallback, TypeOK
<1>23. ASSUME NEW t \in Threads, EndCallback(t) PROVE TypeOK'
  BY <1>23, <1>2, <1>8, <1>9, <1>11, HeldType DEF EndCallback, At, TypeOK
<1>24. ASSUME NEW t \in Threads, BeginConnect(t) PROVE TypeOK'
  BY <1>24, <1>4, <1>6, <1>9, <1>11 DEF BeginConnect, At, Points, TypeOK
<1>25. ASSUME NEW t \in Threads, Handshake(t) PROVE TypeOK'
  BY <1>25, <1>3, <1>6, <1>7 DEF Handshake, At, Points, TypeOK
<1>26. ASSUME NEW t \in Threads, SettleConnect(t) PROVE TypeOK'
  BY <1>26, <1>4, <1>8, <1>9 DEF SettleConnect, At, TypeOK
<1>27. ASSUME NEW t \in Threads, SendDisconnect(t) PROVE TypeOK'
  BY <1>27, <1>6 DEF SendDisconnect, At, Points, TypeOK
<1>28. ASSUME NEW t \in Threads, FinishDisconnect(t) PROVE TypeOK'
  BY <1>28, <1>3, <1>4, <1>8 DEF FinishDisconnect, At, TypeOK
<1>29. ASSUME NEW t \in Threads, RestoreAfterDisconnect(t) PROVE TypeOK'
  BY <1>29, <1>3, <1>8, <1>11 DEF RestoreAfterDisconnect, At, TypeOK
<1>30. ASSUME NEW t \in Threads, ReconnectConnect(t) PROVE TypeOK'
  <2>1. stack[t] # <<>> BY <1>30 DEF ReconnectConnect, At
  <2>2. MovedTo(t, "connected") \in Seq(Frame) BY <2>1, <1>11 DEF Points
  <2>3. Enter(t, "connect", MovedTo(t, "connected"))
        => /\ stack' \in [Threads -> Seq(Frame)]
           /\ rc' \in [Threads -> ReturnCodes]
    BY <2>2, <1>10 DEF ApiCalls, Requests
  <2>. QED
    BY <1>30, <2>1, <2>3, <1>3, <1>6, <1>7
    DEF ReconnectConnect, TypeOK, Points
<1>31. ASSUME NEW t \in Threads, ReconnectConnected(t) PROVE TypeOK'
  <2>1. stack[t] # <<>> BY <1>31 DEF ReconnectConnected, At
  <2>2. MovedTo(t, "resubscribed") \in Seq(Frame) BY <2>1, <1>11 DEF Points
  <2>3. Enter(t, "resubscribe", MovedTo(t, "resubscribed"))
        => /\ stack' \in [Threads -> Seq(Frame)]
           /\ rc' \in [Threads -> ReturnCodes]
    BY <2>2, <1>10 DEF ApiCalls, Requests
  <2>. QED
    BY <1>31, <2>1, <2>3, <1>3, <1>6, <1>7
    DEF ReconnectConnected, TypeOK, Points
<1>32. ASSUME NEW t \in Threads, ReconnectPend(t) PROVE TypeOK'
  BY <1>32, <1>3, <1>4, <1>8, <1>9 DEF ReconnectPend, At, TypeOK
<1>33. ASSUME NEW t \in Threads, ReconnectResubscribed(t) PROVE TypeOK'
  BY <1>33, <1>3, <1>8 DEF ReconnectResubscribed, At, TypeOK
<1>34. ASSUME NEW t \in Threads, YieldLoop(t) PROVE TypeOK'
  <2>1. stack[t] # <<>> BY <1>34 DEF YieldLoop, At
  <2>2. MovedTo(t, "reconnected") \in Seq(Frame) BY <2>1, <1>11 DEF Points
  <2>3. Enter(t, "reconnect", MovedTo(t, "reconnected"))
        => /\ stack' \in [Threads -> Seq(Frame)]
           /\ rc' \in [Threads -> ReturnCodes]
    BY <2>2, <1>10 DEF ApiCalls, Requests
  <2>. QED BY <1>34, <2>1, <2>3, <1>3, <1>6, <1>7 DEF YieldLoop, TypeOK, Points
<1>35. ASSUME NEW t \in Threads, YieldReconnected(t) PROVE TypeOK'
  BY <1>35, <1>6 DEF YieldReconnected, At, Points, TypeOK
<1>36. ASSUME NEW t \in Threads, YieldReclaim(t) PROVE TypeOK'
  BY <1>36, <1>2, <1>3, <1>4, <1>6, <1>7, <1>9
  DEF YieldReclaim, At, Points, TypeOK
<1>37. ASSUME NEW t \in Threads, YieldRead(t) PROVE TypeOK'
  BY <1>37, <1>3, <1>6, <1>7 DEF YieldRead, At, Points, TypeOK
<1>38. ASSUME NEW t \in Threads, YieldDelivered(t) PROVE TypeOK'
  BY <1>38, <1>3, <1>6, <1>7 DEF YieldDelivered, At, Points, TypeOK
<1>39. ASSUME NEW t \in Threads, YieldKeepAlive(t) PROVE TypeOK'
  BY <1>39, <1>3, <1>6, <1>7 DEF YieldKeepAlive, At, Points, TypeOK
<1>40. ASSUME NEW t \in Threads, YieldDrop(t) PROVE TypeOK'
  <2>1. stack[t] # <<>> BY <1>40 DEF YieldDrop, At
  <2>2. MovedTo(t, "dropped") \in Seq(Frame) BY <2>1, <1>11 DEF Points
  <2>3. Enter(t, "disconnect", MovedTo(t, "dropped"))
        => /\ stack' \in [Threads -> Seq(Frame)]
           /\ rc' \in [Threads -> ReturnCodes]
    BY <2>2, <1>10 DEF ApiCalls, Requests
  <2>. QED BY <1>40, <2>1, <2>3, <1>3, <1>6, <1>7 DEF YieldDrop, TypeOK, Points
<1>41. ASSUME NEW t \in Threads, YieldForceDown(t) PROVE TypeOK'
  BY <1>41, <1>4, <1>6 DEF YieldForceDown, At, Points, TypeOK
<1>42. ASSUME NEW t \in Threads, YieldDestroy(t) PROVE TypeOK'
  BY <1>42, <1>6 DEF YieldDestroy, At, Points, TypeOK
<1>43. ASSUME NEW t \in Threads, CallFromHandler(t) PROVE TypeOK'
  BY <1>43, <1>10 DEF CallFromHandler, TypeOK
<1>44. ASSUME NEW t \in Threads, YieldDisconnected(t) PROVE TypeOK'
  BY <1>44, <1>3, <1>4, <1>6, <1>8 DEF YieldDisconnected, At, Points, TypeOK
<1>45. ASSUME NEW t \in Threads, YieldPend(t) PROVE TypeOK'
  BY <1>45, <1>2, <1>3, <1>4, <1>6, <1>7, <1>9
  DEF YieldPend, At, Points, TypeOK
<1>46. ASSUME NEW t \in Threads, YieldCheck(t) PROVE TypeOK'
  BY <1>46, <1>6, <1>8 DEF YieldCheck, At, Points, TypeOK
<1>47. ASSUME NEW t \in Threads, YieldExit(t) PROVE TypeOK'
  BY <1>47, <1>2, <1>4, <1>8, <1>9 DEF YieldExit, At, TypeOK
<1>48. CASE LinkLost BY <1>48, <1>1 DEF LinkLost, TypeOK
<1>49. CASE UNCHANGED vars BY <1>49 DEF vars, TypeOK
<1>. QED
  BY <1>13, <1>14, <1>15, <1>16, <1>17, <1>18, <1>19, <1>20, <1>21, <1>22,
     <1>23, <1>24, <1>25, <1>26, <1>27, <1>28, <1>29, <1>30, <1>31, <1>32,
     <1>33, <1>34, <1>35, <1>36, <1>37, <1>38, <1>39, <1>40, <1>41, <1>42,
     <1>43, <1>44, <1>45, <1>46, <1>47, <1>48, <1>49
  DEF Next, RequestStep, CallbackStep, ConnectStep, YieldStep

\* The client state, every frame of every thread and every return code keep
\* their types, for any threads, calls and depth.
THEOREM TypeCorrect == Spec => []TypeOK
<1>1. Init => TypeOK
  <2>1. <<>> \in Seq(Frame) OBVIOUS
  <2>. QED BY <2>1 DEF Init, TypeOK, ClientState, ReturnCodes
<1>2. TypeOK /\ [Next]_vars => TypeOK' BY TypeStep
<1>. QED BY <1>1, <1>2, PTL DEF Spec

-----------------------------------------------------------------------------
(* A client used by one thread. *)

\* There is one thread, and no message callback disconnects.
OneThread ==
  /\ \E t : Threads = {t}
  /\ "disconnect" \notin CallbackCalls

\* The inductive invariant.
NestInv == TypeOK /\ StateMatchesStack /\ CallsNest

\* State s and return code r are right for a thread whose top frame is f.
Fits(f, s, r) == s \in Expected(f, r) /\ Settled(f, r)

-----------------------------------------------------------------------------
(* Stacks. *)

\* The shape of a stack whose top frame has moved.
LEMMA MovedToShape ==
  ASSUME stack \in [Threads -> Seq(Frame)], NEW t \in Threads, stack[t] # <<>>,
         NEW pc \in Points
  PROVE  /\ MovedTo(t, pc) \in Seq(Frame)
         /\ MovedTo(t, pc) # <<>>
         /\ Len(MovedTo(t, pc)) = Len(stack[t])
         /\ MovedTo(t, pc)[Len(stack[t])] = [Top(t) EXCEPT !.pc = pc]
         /\ \A i \in 1..(Len(stack[t]) - 1) : MovedTo(t, pc)[i] = stack[t][i]
<1>. DEFINE n == Len(stack[t])
            m == MovedTo(t, pc)
<1>1. stack[t] \in Seq(Frame) /\ n \in Nat \ {0} BY TopType
<1>2. m \in Seq(Frame) BY MovedToType
<1>3. m = [stack[t] EXCEPT ![n] = [stack[t][n] EXCEPT !.pc = pc]] BY DEF MovedTo
<1>4. Len(m) = n BY <1>1, <1>3
<1>5. m[n] = [Top(t) EXCEPT !.pc = pc] BY <1>1, <1>3 DEF Top
<1>6. \A i \in 1..(n - 1) : m[i] = stack[t][i] BY <1>1, <1>3
<1>7. m # <<>> BY <1>1, <1>2, <1>4
<1>. QED BY <1>2, <1>4, <1>5, <1>6, <1>7

\* A frame at another point links to the frame under it as it did before.
LEMMA LinkedUnder ==
  ASSUME NEW f, NEW g \in Frame, NEW h \in Frame, g.op = h.op, g.saved = h.saved
  PROVE  Linked(f, g) <=> Linked(f, h)
BY DEF Linked

\* Moving the top frame keeps the calls nested.
LEMMA MovedToNested ==
  ASSUME stack \in [Threads -> Seq(Frame)], NEW t \in Threads, stack[t] # <<>>,
         Nested(stack[t]), NEW pc \in Points
  PROVE  Nested(MovedTo(t, pc))
<1>. DEFINE n == Len(stack[t])
            m == MovedTo(t, pc)
<1>1. stack[t] \in Seq(Frame) /\ n \in Nat \ {0} /\ Top(t) \in Frame BY TopType
<1>2. /\ Len(m) = n /\ m \in Seq(Frame)
      /\ m[n] = [Top(t) EXCEPT !.pc = pc]
      /\ \A i \in 1..(n - 1) : m[i] = stack[t][i]
  BY MovedToShape
<1>3. m[n].op = stack[t][n].op /\ m[n].saved = stack[t][n].saved
  BY <1>1, <1>2 DEF Top, Frame
<1>4. m[1].op # "deliver" /\ m[1].saved \in Resting
  <2>1. CASE n = 1 BY <2>1, <1>3 DEF Nested
  <2>2. CASE n # 1
    <3>. HIDE DEF n
    <3>1. 1 \in 1..(n - 1) BY <2>2, <1>1
    <3>. QED BY <3>1, <1>2 DEF Nested
  <2>. QED BY <2>1, <2>2
<1>5. ASSUME NEW i \in 1..(n - 1) PROVE Linked(m[i], m[i + 1])
  <2>1. Linked(stack[t][i], stack[t][i + 1]) BY DEF Nested
  <2>2. m[i] = stack[t][i] BY <1>2
  <2>3. CASE i + 1 # n
    <3>1. i + 1 \in 1..(n - 1) BY <2>3, <1>1
    <3>. QED BY <3>1, <2>1, <2>2, <1>2
  <2>4. CASE i + 1 = n
    <3>1. m[n] \in Frame /\ stack[t][n] \in Frame BY <1>1, <1>2
    <3>2. Linked(m[i], m[n]) <=> Linked(m[i], stack[t][n])
      BY <3>1, <1>3, LinkedUnder
    <3>. QED BY <3>2, <2>1, <2>2, <2>4
  <2>. QED BY <2>3, <2>4
<1>. QED BY <1>2, <1>4, <1>5 DEF Nested

\* Dropping the top frame keeps the calls nested.
LEMMA PoppedNested ==
  ASSUME stack \in [Threads -> Seq(Frame)], NEW t \in Threads, stack[t] # <<>>,
         Nested(stack[t])
  PROVE  /\ Popped(t) \in Seq(Frame)
         /\ Len(Popped(t)) = Len(stack[t]) - 1
         /\ Popped(t) # <<>> <=> Len(stack[t]) > 1
         /\ \A i \in 1..(Len(stack[t]) - 1) : Popped(t)[i] = stack[t][i]
         /\ Nested(Popped(t))
<1>. DEFINE n == Len(stack[t])
            p == Popped(t)
<1>1. stack[t] \in Seq(Frame) /\ n \in Nat \ {0} BY TopType
<1>2. /\ p \in Seq(Frame) /\ Len(p) = n - 1
      /\ \A i \in 1..(n - 1) : p[i] = stack[t][i]
  <2>1. n - 1 \in Nat /\ Len(stack[t]) = (n - 1) + 1 BY <1>1
  <2>. QED BY <1>1, <2>1, DropLast DEF Popped
<1>3. p # <<>> <=> n > 1 BY <1>1, <1>2
<1>4. p # <<>> => p[1] = stack[t][1] BY <1>1, <1>2, <1>3
<1>5. \A i \in 1..(Len(p) - 1) :
        p[i] = stack[t][i] /\ p[i + 1] = stack[t][i + 1] /\ i \in 1..(n - 1)
  BY <1>1, <1>2
<1>. QED BY <1>2, <1>3, <1>4, <1>5 DEF Nested

\* A call entered on a nested stack, whose top frame it links to, is nested.
LEMMA AppendNested ==
  ASSUME NEW s \in Seq(Frame), NEW f \in Frame, Nested(s),
         s = <<>> => f.op # "deliver" /\ f.saved \in Resting,
         s # <<>> => Linked(s[Len(s)], f)
  PROVE  /\ Append(s, f) \in Seq(Frame)
         /\ Append(s, f) # <<>>
         /\ Append(s, f)[Len(Append(s, f))] = f
         /\ Nested(Append(s, f))
<1>. DEFINE a == Append(s, f)
            n == Len(s)
<1>1. n \in Nat /\ Len(a) = n + 1 /\ a \in Seq(Frame) /\ a[n + 1] = f
      /\ \A i \in 1..n : a[i] = s[i]
  OBVIOUS
<1>2. a # <<>> BY <1>1
<1>3. a[1].op # "deliver" /\ a[1].saved \in Resting
  <2>1. CASE s = <<>> BY <2>1, <1>1
  <2>2. CASE s # <<>>
    <3>1. 1 \in 1..n BY <2>2, <1>1
    <3>. QED BY <3>1, <2>2, <1>1 DEF Nested
  <2>. QED BY <2>1, <2>2
<1>4. ASSUME NEW i \in 1..n PROVE Linked(a[i], a[i + 1])
  <2>1. CASE i = n
    <3>1. s # <<>> BY <2>1, <1>1
    <3>. QED BY <3>1, <2>1, <1>1
  <2>2. CASE i # n
    <3>1. i \in 1..(n - 1) /\ i + 1 \in 1..n BY <2>2, <1>1
    <3>. QED BY <3>1, <1>1 DEF Nested
  <2>. QED BY <2>1, <2>2
<1>. QED BY <1>1, <1>2, <1>3, <1>4 DEF Nested
-----------------------------------------------------------------------------
(* How the steps change the only thread's stack. *)

\* No other thread holds a mutex: a compare-and-set compares and sets.
LEMMA CasAlone ==
  ASSUME OneThread, NEW t \in Threads, NEW e, NEW s, NEW r,
         CompareAndSet(t, e, s, r)
  PROVE  \/ r = "SUCCESS" /\ state = e /\ state' = s
         \/ r = "UNEXPECTED" /\ state # e /\ state' = state
<1>1. ~LockTaken(t, CasPoints) BY DEF OneThread, LockTaken
<1>. QED BY <1>1 DEF CompareAndSet

\* The invariant of the only thread is the invariant of the client.
LEMMA ThreadInv ==
  ASSUME OneThread, NEW t \in Threads, Nested(stack'[t]),
         stack'[t] = <<>> => state' \in Resting,
         stack'[t] # <<>> => Fits(stack'[t][Len(stack'[t])], state', rc'[t])
  PROVE  StateMatchesStack' /\ CallsNest'
<1>1. \A u \in Threads : u = t BY DEF OneThread
<1>. QED BY <1>1 DEF StateMatchesStack, CallsNest, Fits, Top

\* What the invariant says of the only thread.
LEMMA ThreadFacts ==
  ASSUME NestInv, NEW t \in Threads
  PROVE  /\ stack \in [Threads -> Seq(Frame)]
         /\ Nested(stack[t])
         /\ rc[t] \in ReturnCodes
         /\ stack[t] = <<>> => state \in Resting
         /\ stack[t] # <<>> => /\ Top(t) \in Frame
                               /\ state \in Expected(Top(t), rc[t])
                               /\ Settled(Top(t), rc[t])
BY TopType DEF NestInv, TypeOK, StateMatchesStack, CallsNest

\* A step within a call.
LEMMA GotoNests ==
  ASSUME OneThread, NestInv, NEW t \in Threads, stack[t] # <<>>,
         NEW pc \in Points, Goto(t, pc),
         Fits([Top(t) EXCEPT !.pc = pc], state', rc'[t])
  PROVE  StateMatchesStack' /\ CallsNest'
<1>1. stack \in [Threads -> Seq(Frame)] /\ Nested(stack[t]) BY ThreadFacts
<1>2. stack'[t] = MovedTo(t, pc) BY <1>1 DEF Goto
<1>3. Nested(stack'[t]) BY <1>1, <1>2, MovedToNested
<1>4. stack'[t] # <<>>
      /\ stack'[t][Len(stack'[t])] = [Top(t) EXCEPT !.pc = pc]
  BY <1>1, <1>2, MovedToShape
<1>. QED BY <1>3, <1>4, ThreadInv

\* A return: the state suits the call below, or is one to rest in.
LEMMA ReturnNests ==
  ASSUME OneThread, NestInv, NEW t \in Threads, stack[t] # <<>>,
         NEW r, Return(t, r),
         Top(t).op # "deliver" /\ Top(t).saved \in Resting => state' \in Resting,
         \A f \in Frame : Linked(f, Top(t)) => Fits(f, state', r)
  PROVE  StateMatchesStack' /\ CallsNest'
<1>. DEFINE n == Len(stack[t])
<1>1. /\ stack \in [Threads -> Seq(Frame)] /\ Nested(stack[t])
      /\ stack[t] \in Seq(Frame) /\ n \in Nat \ {0}
  BY ThreadFacts, TopType
<1>2. stack'[t] = Popped(t) BY <1>1 DEF Return
<1>3. rc'[t] = r BY DEF Return, Code, NestInv, TypeOK
<1>4. /\ Nested(stack'[t])
      /\ Len(stack'[t]) = n - 1
      /\ stack'[t] # <<>> <=> n > 1
      /\ \A i \in 1..(n - 1) : stack'[t][i] = stack[t][i]
  BY <1>1, <1>2, PoppedNested
<1>5. ASSUME stack'[t] = <<>> PROVE state' \in Resting
  <2>1. n = 1 BY <1>5, <1>4, <1>1
  <2>2. Top(t).op # "deliver" /\ Top(t).saved \in Resting
    BY <2>1, <1>1 DEF Nested, Top
  <2>. QED BY <2>2
<1>6. ASSUME stack'[t] # <<>>
      PROVE  Fits(stack'[t][Len(stack'[t])], state', rc'[t])
  <2>1. n - 1 \in 1..(n - 1) /\ (n - 1) + 1 = n BY <1>6, <1>4, <1>1
  <2>2. stack'[t][Len(stack'[t])] = stack[t][n - 1] BY <2>1, <1>4
  <2>3. Linked(stack[t][n - 1], Top(t)) BY <2>1, <1>1 DEF Nested, Top
  <2>4. stack[t][n - 1] \in Frame BY <2>1, <1>1
  <2>. QED BY <2>2, <2>3, <2>4, <1>3
<1>. QED BY <1>4, <1>5, <1>6, ThreadInv

\* A call entered.
LEMMA PushNests ==
  ASSUME OneThread, NestInv, NEW t \in Threads,
         NEW s \in Seq(Frame), NEW f \in Frame, Nested(s),
         stack' = [stack EXCEPT ![t] = Append(s, f)],
         s = <<>> => f.op # "deliver" /\ f.saved \in Resting,
         s # <<>> => Linked(s[Len(s)], f),
         Fits(f, state', rc'[t])
  PROVE  StateMatchesStack' /\ CallsNest'
<1>1. stack'[t] = Append(s, f) BY ThreadFacts
<1>2. /\ Nested(stack'[t]) /\ stack'[t] # <<>>
      /\ stack'[t][Len(stack'[t])] = f
  BY <1>1, AppendNested
<1>. QED BY <1>2, ThreadInv

\* An API call entered from stack s, or refused.
LEMMA EnterNests ==
  ASSUME OneThread, NestInv, NEW t \in Threads,
         NEW op \in ApiCalls, NEW s \in Seq(Frame), Nested(s),
         Enter(t, op, s), UNCHANGED state,
         op = "reconnect" => state \notin {"CONNECTING", "DISCONNECTING"},
         s = <<>> => state \in Resting,
         s # <<>> /\ Accepts(op, state) =>
           \A f \in Frame : f.op = op /\ f.saved = state => Linked(s[Len(s)], f),
         s # <<>> /\ ~Accepts(op, state) =>
           Fits(s[Len(s)], state, Refusal(op, state))
  PROVE  StateMatchesStack' /\ CallsNest'
<1>. DEFINE f == [op |-> op, pc |-> FirstPoint(op, state), saved |-> state]
<1>1. f \in Frame BY FirstPointType DEF Frame, NestInv, TypeOK
<1>2. op # "deliver" BY DEF ApiCalls, Requests
<1>3. CASE Accepts(op, state)
  <2>1. stack' = [stack EXCEPT ![t] = Append(s, f)] BY <1>3 DEF Enter
  <2>2. Fits(f, state', rc'[t])
    BY <1>3, <1>1 DEF Fits, Expected, Settled, FirstPoint, Accepts, Connected,
       Resting, NestInv, TypeOK, ClientState
  <2>3. s # <<>> => Linked(s[Len(s)], f) BY <1>1, <1>3
  <2>. HIDE DEF f
  <2>4. f.op # "deliver" /\ f.saved = state BY <1>2 DEF f
  <2>. QED BY <1>1, <2>1, <2>2, <2>3, <2>4, PushNests
<1>4. CASE ~Accepts(op, state)
  <2>1. stack'[t] = s BY <1>4, ThreadFacts DEF Enter
  <2>2. rc'[t] = Refusal(op, state) BY <1>4 DEF Enter, Code, NestInv, TypeOK
  <2>. QED BY <1>4, <2>1, <2>2, ThreadInv
<1>. QED BY <1>3, <1>4
-----------------------------------------------------------------------------
(* The steps. *)

\* The requests.
LEMMA RequestNests ==
  ASSUME OneThread, NestInv, NEW t \in Threads, RequestStep(t)
  PROVE  StateMatchesStack' /\ CallsNest'
<1>1. stack[t] # <<>> => /\ Top(t) \in Frame
                         /\ state \in Expected(Top(t), rc[t])
                         /\ Settled(Top(t), rc[t])
  BY ThreadFacts
<1>2. \A pc \in Points :
        /\ stack[t] # <<>> /\ Goto(t, pc)
        /\ Fits([Top(t) EXCEPT !.pc = pc], state', rc'[t])
        => StateMatchesStack' /\ CallsNest'
  BY GotoNests
<1>3. \A r \in ReturnCodes :
        /\ stack[t] # <<>> /\ Return(t, r)
        /\ Top(t).op # "deliver" /\ Top(t).saved \in Resting => state' \in Resting
        /\ \A f \in Frame : Linked(f, Top(t)) => Fits(f, state', r)
        => StateMatchesStack' /\ CallsNest'
  BY ReturnNests
<1>4. \A e, n, r : CompareAndSet(t, e, n, r) =>
        \/ r = "SUCCESS" /\ state = e /\ state' = n
        \/ r = "UNEXPECTED" /\ state # e /\ state' = state
  BY CasAlone
<1>5. rc[t] \in ReturnCodes /\ \A r : Code(t, r) => rc'[t] = r
  BY ThreadFacts DEF Code, NestInv, TypeOK
<1>6. CASE Claim(t)
  <2>1. /\ state = Top(t).saved /\ stack[t] # <<>>
        /\ Top(t).op \in Requests \cup {"resubscribe", "yield", "disconnect"}
    BY <1>6, <1>1 DEF Claim, AtPoint, Expected
  <2>2. /\ state' = Held(Top(t).op)
        /\ Goto(t, IF Top(t).op = "yield" THEN "loop" ELSE "send")
    BY <1>6, <2>1, <1>4 DEF Claim
  <2>. DEFINE pc == IF Top(t).op = "yield" THEN "loop" ELSE "send"
              f == [Top(t) EXCEPT !.pc = pc]
  <2>3. pc \in Points BY DEF Points
  <2>4. f.pc = pc /\ f.op = Top(t).op BY <2>1, <1>1 DEF Frame
  <2>. HIDE DEF f
  <2>5. state' \in Expected(f, rc'[t])
    BY <2>2, <2>4 DEF Expected, Held
  <2>6. Settled(f, rc'[t]) BY <2>4 DEF Settled
  <2>7. Fits([Top(t) EXCEPT !.pc = pc], state', rc'[t])
    BY <2>5, <2>6 DEF Fits, f
  <2>. QED BY <2>1, <2>2, <2>3, <2>7, <1>2
<1>7. CASE UndoUnsubscribe(t)
  BY <1>7, <1>1, <1>3
  DEF UndoUnsubscribe, At, Fits, Expected
<1>8. CASE SendRequest(t)
  BY <1>8, <1>1, <1>2, <1>5
  DEF SendRequest, AtPoint, Fits, Expected, Settled, Points
<1>9. CASE AwaitAck(t)
  BY <1>9, <1>1, <1>2, <1>5
  DEF AwaitAck, AtPoint, Fits, Expected, Settled, Points
<1>10. CASE ReadPingResp(t)
  <2>1. UNCHANGED <<state, stack, rc>> BY <1>10 DEF ReadPingResp
  <2>. QED BY <2>1 DEF NestInv, StateMatchesStack, CallsNest, Top
<1>11. CASE ReadPublish(t)
  <2>. DEFINE pc == IF Top(t).pc = "read" THEN "delivered" ELSE "wait"
              q == MovedTo(t, pc)
  <2>1. /\ stack[t] # <<>> /\ UNCHANGED <<state, rc>>
        /\ stack' = [stack EXCEPT ![t] = Append(q, DeliverFrame)]
        /\ Top(t).pc = "wait" \/ (Top(t).op = "yield" /\ Top(t).pc = "read")
    BY <1>11 DEF ReadPublish, At, AtPoint
  <2>2. pc \in Points BY DEF Points
  <2>3. DeliverFrame \in Frame
    BY DEF DeliverFrame, Frame, Points, NestInv, TypeOK
  <2>4. /\ q \in Seq(Frame) /\ q # <<>> /\ Nested(q)
        /\ q[Len(q)] = [Top(t) EXCEPT !.pc = pc]
    BY <2>1, <2>2, ThreadFacts, MovedToShape, MovedToNested
  <2>5. Linked(q[Len(q)], DeliverFrame)
    BY <2>1, <2>4, <1>1 DEF Linked, DeliverFrame, Frame, Expected, Settled
  <2>6. Fits(DeliverFrame, state', rc'[t])
    BY <2>1 DEF DeliverFrame, Fits, Expected, Settled
  <2>. HIDE DEF q
  <2>. QED BY <2>1, <2>3, <2>4, <2>5, <2>6, PushNests
<1>12. CASE Release(t)
  <2>1. /\ stack[t] # <<>> /\ Top(t).pc = "release"
        /\ Top(t).op \in Requests \cup {"resubscribe"}
        /\ state = Held(Top(t).op)
        /\ rc[t] \notin {"DISCONNECTED", "ATTEMPTING"}
    BY <1>12, <1>1 DEF Release, AtPoint, Expected, Settled
  <2>2. PICK r : /\ r \in ReturnCodes \ {"DISCONNECTED", "ATTEMPTING"}
                 /\ Return(t, r)
                 /\ state' = Top(t).saved
    BY <1>12, <2>1, <1>4, <1>5 DEF Release, CasResults, ReturnCodes
  <2>3. \A f \in Frame : Linked(f, Top(t)) => Fits(f, state', r)
    BY <2>1, <2>2 DEF Fits, Linked, Expected, Settled, Held, Frame, Requests,
       Resting
  <2>. QED BY <2>1, <2>2, <2>3, <1>3
<1>. QED BY <1>6, <1>7, <1>8, <1>9, <1>10, <1>11, <1>12 DEF RequestStep

\* The message callbacks.
LEMMA CallbackNests ==
  ASSUME OneThread, NestInv, NEW t \in Threads, CallbackStep(t)
  PROVE  StateMatchesStack' /\ CallsNest'
<1>1. stack[t] # <<>> => /\ Top(t) \in Frame
                         /\ state \in Expected(Top(t), rc[t])
                         /\ Settled(Top(t), rc[t])
  BY ThreadFacts
<1>2. \A pc \in Points :
        /\ stack[t] # <<>> /\ Goto(t, pc)
        /\ Fits([Top(t) EXCEPT !.pc = pc], state', rc'[t])
        => StateMatchesStack' /\ CallsNest'
  BY GotoNests
<1>3. \A r \in ReturnCodes :
        /\ stack[t] # <<>> /\ Return(t, r)
        /\ Top(t).op # "deliver" /\ Top(t).saved \in Resting => state' \in Resting
        /\ \A f \in Frame : Linked(f, Top(t)) => Fits(f, state', r)
        => StateMatchesStack' /\ CallsNest'
  BY ReturnNests
<1>4. \A e, n, r : CompareAndSet(t, e, n, r) =>
        \/ r = "SUCCESS" /\ state = e /\ state' = n
        \/ r = "UNEXPECTED" /\ state # e /\ state' = state
  BY CasAlone
<1>5. rc[t] \in ReturnCodes /\ \A r : Code(t, r) => rc'[t] = r
  BY ThreadFacts DEF Code, NestInv, TypeOK
<1>6. \A op \in ApiCalls, q \in Seq(Frame) :
        /\ Enter(t, op, q) /\ UNCHANGED state
        /\ Nested(q)
        /\ op = "reconnect" => state \notin {"CONNECTING", "DISCONNECTING"}
        /\ q = <<>> => state \in Resting
        /\ q # <<>> /\ Accepts(op, state) =>
             \A f \in Frame : f.op = op /\ f.saved = state => Linked(q[Len(q)], f)
        /\ q # <<>> /\ ~Accepts(op, state) =>
             Fits(q[Len(q)], state, Refusal(op, state))
        => StateMatchesStack' /\ CallsNest'
  BY EnterNests
<1>7. CASE BeginCallback(t)
  BY <1>7, <1>1, <1>2, <1>4
  DEF BeginCallback, At, Fits, Expected, Settled, Points
<1>8. CASE CallFromCallback(t)
  <2>1. /\ stack[t] # <<>> /\ Top(t).op = "deliver" /\ Top(t).pc = "callback"
        /\ state = "WAIT_FOR_CB_RETURN"
    BY <1>8, <1>1 DEF CallFromCallback, At, Expected, Held
  <2>2. stack[t] \in Seq(Frame) /\ Nested(stack[t])
    BY ThreadFacts DEF NestInv, TypeOK
  <2>3. PICK op \in ApiCalls \ {"disconnect"} :
          Enter(t, op, stack[t]) /\ UNCHANGED state
    BY <1>8, ConstantsAssumption DEF CallFromCallback, OneThread
  <2>4. Accepts(op, state) => op \in Requests
    BY <2>1 DEF Accepts, Connected
  <2>5. Accepts(op, state) =>
          \A f \in Frame : f.op = op /\ f.saved = state => Linked(Top(t), f)
    BY <2>1, <2>4 DEF Linked
  <2>6. Fits(Top(t), state, Refusal(op, state))
    BY <2>1 DEF Fits, Expected, Settled, Held
  <2>. QED BY <2>1, <2>2, <2>3, <2>5, <2>6, <1>6 DEF Top
<1>9. CASE EndCallback(t)
  BY <1>9, <1>1, <1>3, <1>4
  DEF EndCallback, At, Fits, Expected, Settled, Linked, ReturnCodes, Requests
<1>. QED BY <1>7, <1>8, <1>9 DEF CallbackStep

\* connect, disconnect and reconnect.
LEMMA ConnectNests ==
  ASSUME OneThread, NestInv, NEW t \in Threads, ConnectStep(t)
  PROVE  StateMatchesStack' /\ CallsNest'
<1>1. stack[t] # <<>> => /\ Top(t) \in Frame
                         /\ state \in Expected(Top(t), rc[t])
                         /\ Settled(Top(t), rc[t])
  BY ThreadFacts
<1>2. \A pc \in Points :
        /\ stack[t] # <<>> /\ Goto(t, pc)
        /\ Fits([Top(t) EXCEPT !.pc = pc], state', rc'[t])
        => StateMatchesStack' /\ CallsNest'
  BY GotoNests
<1>3. \A r \in ReturnCodes :
        /\ stack[t] # <<>> /\ Return(t, r)
        /\ Top(t).op # "deliver" /\ Top(t).saved \in Resting => state' \in Resting
        /\ \A f \in Frame : Linked(f, Top(t)) => Fits(f, state', r)
        => StateMatchesStack' /\ CallsNest'
  BY ReturnNests
<1>4. \A e, n, r : CompareAndSet(t, e, n, r) =>
        \/ r = "SUCCESS" /\ state = e /\ state' = n
        \/ r = "UNEXPECTED" /\ state # e /\ state' = state
  BY CasAlone
<1>5. rc[t] \in ReturnCodes /\ \A r : Code(t, r) => rc'[t] = r
  BY ThreadFacts DEF Code, NestInv, TypeOK
<1>6. \A op \in ApiCalls, q \in Seq(Frame) :
        /\ Enter(t, op, q) /\ UNCHANGED state
        /\ Nested(q)
        /\ op = "reconnect" => state \notin {"CONNECTING", "DISCONNECTING"}
        /\ q = <<>> => state \in Resting
        /\ q # <<>> /\ Accepts(op, state) =>
             \A f \in Frame : f.op = op /\ f.saved = state => Linked(q[Len(q)], f)
        /\ q # <<>> /\ ~Accepts(op, state) =>
             Fits(q[Len(q)], state, Refusal(op, state))
        => StateMatchesStack' /\ CallsNest'
  BY EnterNests
<1>7. CASE BeginConnect(t)
  BY <1>7, <1>1, <1>2, <1>4
  DEF BeginConnect, At, Fits, Expected, Settled, Held, Points
<1>8. CASE Handshake(t)
  BY <1>8, <1>1, <1>2
  DEF Handshake, At, Fits, Expected, Settled, Points
<1>9. CASE SettleConnect(t)
  BY <1>9, <1>1, <1>3, <1>4, <1>5
  DEF SettleConnect, At, Fits, Expected, Settled, Held, Linked, Resting,
      Requests
<1>10. CASE SendDisconnect(t)
  BY <1>10, <1>1, <1>2
  DEF SendDisconnect, At, Fits, Expected, Settled, Points
<1>11. CASE FinishDisconnect(t)
  BY <1>11, <1>3
  DEF FinishDisconnect, At, Fits, Expected, Settled, Linked, Resting,
      ReturnCodes, CasResults, Requests
<1>12. CASE RestoreAfterDisconnect(t)
  BY <1>12, <1>3
  DEF RestoreAfterDisconnect, At, Fits, Expected, Settled, Linked,
      ReturnCodes, Requests
<1>13. CASE ReconnectConnect(t)
  <2>. DEFINE q == MovedTo(t, "connected")
  <2>1. stack[t] # <<>> /\ UNCHANGED state BY <1>13 DEF ReconnectConnect, At
  <2>2. "connected" \in Points BY DEF Points
  <2>3. /\ q \in Seq(Frame) /\ q # <<>> /\ Nested(q)
        /\ q[Len(q)] = [Top(t) EXCEPT !.pc = "connected"]
    BY <2>1, <2>2, ThreadFacts, MovedToShape, MovedToNested
  <2>4. Accepts("connect", state)
    BY <1>13, <1>1
    DEF ReconnectConnect, At, Expected, Accepts, Connected, Resting
  <2>5. \A f \in Frame : f.op = "connect" /\ f.saved = state
          => Linked(q[Len(q)], f)
    BY <1>13, <2>3, <1>1 DEF ReconnectConnect, At, Linked, Expected, Frame
  <2>6. "connect" \in ApiCalls BY DEF ApiCalls
  <2>7. Enter(t, "connect", q) BY <1>13 DEF ReconnectConnect
  <2>. HIDE DEF q
  <2>. QED BY <2>1, <2>3, <2>4, <2>5, <2>6, <2>7, <1>6
<1>14. CASE ReconnectConnected(t)
  <2>. DEFINE q == MovedTo(t, "resubscribed")
  <2>1. stack[t] # <<>> /\ UNCHANGED state BY <1>14 DEF ReconnectConnected, At
  <2>2. "resubscribed" \in Points BY DEF Points
  <2>3. /\ q \in Seq(Frame) /\ q # <<>> /\ Nested(q)
        /\ q[Len(q)] = [Top(t) EXCEPT !.pc = "resubscribed"]
    BY <2>1, <2>2, ThreadFacts, MovedToShape, MovedToNested
  <2>4. CASE state = "IDLE" /\ Enter(t, "resubscribe", q)
    <3>1. Accepts("resubscribe", state)
      BY <1>14, <2>4, <1>1
      DEF ReconnectConnected, At, Expected, Accepts, Connected, Resting,
         Requests
    <3>2. \A f \in Frame : f.op = "resubscribe" /\ f.saved = state
            => Linked(q[Len(q)], f)
      BY <1>14, <2>3, <2>4, <1>1
      DEF ReconnectConnected, At, Linked, Expected, Frame
    <3>3. "resubscribe" \in ApiCalls BY DEF ApiCalls
    <3>4. state \notin {"CONNECTING", "DISCONNECTING"} BY <2>4
    <3>5. q \in Seq(Frame) /\ q # <<>> /\ Nested(q) /\ Enter(t, "resubscribe", q)
      BY <2>3, <2>4
    <3>. HIDE DEF q
    <3>. QED BY <2>1, <3>1, <3>2, <3>3, <3>4, <3>5, <1>6
  <2>5. CASE ~(state = "IDLE" /\ Enter(t, "resubscribe", q))
    BY <1>14, <2>5, <1>1, <1>2
    DEF ReconnectConnected, At, Fits, Expected, Settled, Frame, Points
  <2>. QED BY <2>4, <2>5
<1>15. CASE ReconnectPend(t)
  BY <1>15, <1>1, <1>3, <1>4
  DEF ReconnectPend, At, Fits, Expected, Settled, Linked, Resting,
      ReturnCodes, Requests
<1>16. CASE ReconnectResubscribed(t)
  BY <1>16, <1>1, <1>3, <1>5
  DEF ReconnectResubscribed, At, Fits, Expected, Settled, Linked, Resting,
      ReturnCodes, Requests
<1>. QED
  BY <1>7, <1>8, <1>9, <1>10, <1>11, <1>12, <1>13, <1>14, <1>15, <1>16
  DEF ConnectStep

\* yield.
LEMMA YieldNests ==
  ASSUME OneThread, NestInv, NEW t \in Threads, YieldStep(t)
  PROVE  StateMatchesStack' /\ CallsNest'
<1>1. stack[t] # <<>> => /\ Top(t) \in Frame
                         /\ state \in Expected(Top(t), rc[t])
                         /\ Settled(Top(t), rc[t])
  BY ThreadFacts
<1>2. \A pc \in Points :
        /\ stack[t] # <<>> /\ Goto(t, pc)
        /\ Fits([Top(t) EXCEPT !.pc = pc], state', rc'[t])
        => StateMatchesStack' /\ CallsNest'
  BY GotoNests
<1>3. \A r \in ReturnCodes :
        /\ stack[t] # <<>> /\ Return(t, r)
        /\ Top(t).op # "deliver" /\ Top(t).saved \in Resting => state' \in Resting
        /\ \A f \in Frame : Linked(f, Top(t)) => Fits(f, state', r)
        => StateMatchesStack' /\ CallsNest'
  BY ReturnNests
<1>4. \A e, n, r : CompareAndSet(t, e, n, r) =>
        \/ r = "SUCCESS" /\ state = e /\ state' = n
        \/ r = "UNEXPECTED" /\ state # e /\ state' = state
  BY CasAlone
<1>5. rc[t] \in ReturnCodes /\ \A r : Code(t, r) => rc'[t] = r
  BY ThreadFacts DEF Code, NestInv, TypeOK
<1>6. \A op \in ApiCalls, q \in Seq(Frame) :
        /\ Enter(t, op, q) /\ UNCHANGED state
        /\ Nested(q)
        /\ op = "reconnect" => state \notin {"CONNECTING", "DISCONNECTING"}
        /\ q = <<>> => state \in Resting
        /\ q # <<>> /\ Accepts(op, state) =>
             \A f \in Frame : f.op = op /\ f.saved = state => Linked(q[Len(q)], f)
        /\ q # <<>> /\ ~Accepts(op, state) =>
             Fits(q[Len(q)], state, Refusal(op, state))
        => StateMatchesStack' /\ CallsNest'
  BY EnterNests
<1>7. CASE YieldLoop(t)
  <2>. DEFINE q == MovedTo(t, "reconnected")
  <2>1. stack[t] # <<>> /\ UNCHANGED state BY <1>7 DEF YieldLoop, At
  <2>2. "reconnected" \in Points BY DEF Points
  <2>3. /\ q \in Seq(Frame) /\ q # <<>> /\ Nested(q)
        /\ q[Len(q)] = [Top(t) EXCEPT !.pc = "reconnected"]
    BY <2>1, <2>2, ThreadFacts, MovedToShape, MovedToNested
  <2>4. CASE state = "PENDING_RECONNECT" /\ Enter(t, "reconnect", q)
    <3>1. Accepts("reconnect", state)
      BY <1>7, <2>4, <1>1
      DEF YieldLoop, At, Expected, Accepts, Connected, Resting,
         Requests
    <3>2. \A f \in Frame : f.op = "reconnect" /\ f.saved = state
            => Linked(q[Len(q)], f)
      BY <1>7, <2>3, <2>4, <1>1 DEF YieldLoop, At, Linked, Expected, Frame
    <3>3. "reconnect" \in ApiCalls BY DEF ApiCalls
    <3>4. state \notin {"CONNECTING", "DISCONNECTING"} BY <2>4
    <3>5. q \in Seq(Frame) /\ q # <<>> /\ Nested(q) /\ Enter(t, "reconnect", q)
      BY <2>3, <2>4
    <3>. HIDE DEF q
    <3>. QED BY <2>1, <3>1, <3>2, <3>3, <3>4, <3>5, <1>6
  <2>5. CASE ~(state = "PENDING_RECONNECT" /\ Enter(t, "reconnect", q))
    BY <1>7, <2>5, <1>1, <1>2, <1>5
    DEF YieldLoop, At, Fits, Expected, Settled, Frame, Points
  <2>. QED BY <2>4, <2>5
<1>8. CASE YieldReconnected(t)
  BY <1>8, <1>1, <1>2
  DEF YieldReconnected, At, Fits, Expected, Settled, Points
<1>9. CASE YieldReclaim(t)
  BY <1>9, <1>1, <1>2, <1>4, <1>5
  DEF YieldReclaim, At, Fits, Expected, Settled, Points
<1>10. CASE YieldRead(t)
  BY <1>10, <1>1, <1>2
  DEF YieldRead, At, Fits, Expected, Settled, Points
<1>11. CASE YieldDelivered(t)
  BY <1>11, <1>1, <1>2
  DEF YieldDelivered, At, Fits, Expected, Settled, Points
<1>12. CASE YieldKeepAlive(t)
  BY <1>12, <1>1, <1>2, <1>5
  DEF YieldKeepAlive, At, Fits, Expected, Settled, Points
<1>13. CASE YieldDrop(t)
  <2>. DEFINE q == MovedTo(t, "dropped")
  <2>1. stack[t] # <<>> /\ UNCHANGED state BY <1>13 DEF YieldDrop, At
  <2>2. "dropped" \in Points BY DEF Points
  <2>3. /\ q \in Seq(Frame) /\ q # <<>> /\ Nested(q)
        /\ q[Len(q)] = [Top(t) EXCEPT !.pc = "dropped"]
    BY <2>1, <2>2, ThreadFacts, MovedToShape, MovedToNested
  <2>4. Accepts("disconnect", state)
    BY <1>13, <1>1 DEF YieldDrop, At, Expected, Accepts, Connected, Resting
  <2>5. \A f \in Frame : f.op = "disconnect" /\ f.saved = state
          => Linked(q[Len(q)], f)
    BY <1>13, <2>3, <1>1 DEF YieldDrop, At, Linked, Expected, Frame
  <2>6. "disconnect" \in ApiCalls BY DEF ApiCalls
  <2>7. Enter(t, "disconnect", q) BY <1>13 DEF YieldDrop
  <2>. HIDE DEF q
  <2>. QED BY <2>1, <2>3, <2>4, <2>5, <2>6, <2>7, <1>6
<1>14. CASE YieldForceDown(t)
  BY <1>14, <1>1, <1>2
  DEF YieldForceDown, At, Fits, Expected, Settled, Points, Resting
<1>15. CASE YieldDestroy(t)
  BY <1>15, <1>1, <1>2
  DEF YieldDestroy, At, Fits, Expected, Settled, Points, Resting
<1>16. CASE CallFromHandler(t)
  <2>1. /\ stack[t] # <<>> /\ Top(t).op = "yield" /\ Top(t).pc = "handler"
        /\ state \in Resting
    BY <1>16, <1>1 DEF CallFromHandler, At, Expected
  <2>2. stack[t] \in Seq(Frame) /\ Nested(stack[t])
    BY ThreadFacts DEF NestInv, TypeOK
  <2>3. PICK op \in ApiCalls : Enter(t, op, stack[t]) /\ UNCHANGED state
    BY <1>16, ConstantsAssumption DEF CallFromHandler
  <2>4. \A f \in Frame : f.op = op /\ f.saved = state => Linked(Top(t), f)
    BY <2>1, <2>3 DEF Linked
  <2>5. Fits(Top(t), state, Refusal(op, state))
    BY <2>1 DEF Fits, Expected, Settled
  <2>6. state \notin {"CONNECTING", "DISCONNECTING"} BY <2>1 DEF Resting
  <2>. QED BY <2>1, <2>2, <2>3, <2>4, <2>5, <2>6, <1>6 DEF Top
<1>17. CASE YieldDisconnected(t)
  BY <1>17, <1>2, <1>3
  DEF YieldDisconnected, At, Fits, Expected, Settled, Points, Linked, Resting,
      ReturnCodes, Requests
<1>18. CASE YieldPend(t)
  BY <1>18, <1>1, <1>2, <1>4, <1>5
  DEF YieldPend, At, Fits, Expected, Settled, Points
<1>19. CASE YieldCheck(t)
  <2>1. /\ stack[t] # <<>> /\ Top(t).op = "yield" /\ Top(t).pc = "check"
        /\ rc[t] # "DISCONNECTED" /\ UNCHANGED state
        /\ state = "PENDING_RECONNECT" <=> rc[t] = "ATTEMPTING"
        /\ rc[t] # "ATTEMPTING" => state \in {"IDLE", "YIELD"}
    BY <1>19, <1>1 DEF YieldCheck, At, Expected, Settled
  <2>2. CASE Goto(t, "loop") /\ UNCHANGED rc
    BY <2>1, <2>2, <1>1, <1>2 DEF Fits, Expected, Settled, Frame, Points
  <2>3. CASE rc[t] = "ATTEMPTING" /\ Return(t, rc[t])
    <3>1. \A f \in Frame : Linked(f, Top(t)) => Fits(f, state', rc[t])
      BY <2>1, <2>3 DEF Fits, Expected, Settled, Linked, Resting, Requests
    <3>. QED BY <2>1, <2>3, <3>1, <1>3, <1>5 DEF Resting
  <2>4. CASE rc[t] # "ATTEMPTING" /\ Goto(t, "exit") /\ UNCHANGED rc
    BY <2>1, <2>4, <1>1, <1>2 DEF Fits, Expected, Settled, Frame, Points
  <2>. QED BY <1>19, <2>1, <2>2, <2>3, <2>4 DEF YieldCheck
<1>20. CASE YieldExit(t)
  <2>1. /\ stack[t] # <<>> /\ Top(t).op = "yield" /\ Top(t).pc = "exit"
        /\ state \in {"IDLE", "YIELD"}
    BY <1>20, <1>1 DEF YieldExit, At, Expected
  <2>2. state' = "IDLE" BY <1>20, <2>1, <1>4 DEF YieldExit
  <2>3. PICK r \in ReturnCodes : Return(t, r)
    BY <1>20, <1>5 DEF YieldExit, CasResults, ReturnCodes
  <2>4. \A f \in Frame : Linked(f, Top(t)) => Fits(f, state', r)
    BY <2>1, <2>2 DEF Fits, Expected, Settled, Linked, Resting, Requests
  <2>. QED BY <2>1, <2>2, <2>3, <2>4, <1>3 DEF Resting
<1>. QED BY <1>7, <1>8, <1>9, <1>10, <1>11, <1>12, <1>13, <1>14, <1>15, <1>16,
     <1>17, <1>18, <1>19, <1>20 DEF YieldStep

-----------------------------------------------------------------------------
(* The theorem. *)

LEMMA NestInit == Init => NestInv
<1>. SUFFICES ASSUME Init PROVE NestInv OBVIOUS
<1>1. TypeOK
  <2>1. <<>> \in Seq(Frame) OBVIOUS
  <2>. QED BY <2>1 DEF Init, TypeOK, ClientState, ReturnCodes
<1>2. \A t \in Threads : stack[t] = <<>> /\ state \in Resting
  BY DEF Init, Resting
<1>3. Len(<<>>) = 0 /\ 1..(0 - 1) = {} OBVIOUS
<1>4. \A t \in Threads : Nested(stack[t]) BY <1>2, <1>3 DEF Nested
<1>. QED BY <1>1, <1>2, <1>4 DEF NestInv, StateMatchesStack, CallsNest

LEMMA NestStep ==
  ASSUME OneThread, NestInv, [Next]_vars
  PROVE  NestInv'
<1>1. TypeOK' BY TypeStep DEF NestInv
<1>2. ASSUME NEW t \in Threads, Call(t) PROVE StateMatchesStack' /\ CallsNest'
  <2>1. stack[t] = <<>> /\ state \in Resting
    BY <1>2, ThreadFacts DEF Call
  <2>2. PICK op \in ApiCalls : Enter(t, op, <<>>) /\ UNCHANGED state
    BY <1>2, ConstantsAssumption DEF Call
  <2>3. <<>> \in Seq(Frame) /\ Nested(<<>>)
    <3>1. Len(<<>>) = 0 /\ 1..(0 - 1) = {} OBVIOUS
    <3>. QED BY <3>1 DEF Nested
  <2>4. state \notin {"CONNECTING", "DISCONNECTING"} BY <2>1 DEF Resting
  <2>. QED BY <2>1, <2>2, <2>3, <2>4, EnterNests
<1>3. CASE LinkLost \/ UNCHANGED vars
  <2>1. UNCHANGED <<state, stack, rc>> BY <1>3 DEF LinkLost, vars
  <2>. QED BY <1>1, <2>1 DEF NestInv, StateMatchesStack, CallsNest, Top
<1>. QED
  BY <1>1, <1>2, <1>3, RequestNests, CallbackNests, ConnectNests, YieldNests
  DEF Next, NestInv

\* For one thread, the client state is always the one its innermost call put
\* there, and a client in no call is at rest.
THEOREM StateMatchesStackCorrect ==
  ASSUME OneThread
  PROVE  Spec => []StateMatchesStack
<1>1. Init => NestInv BY NestInit
<1>2. NestInv /\ [Next]_vars => NestInv' BY NestStep
<1>3. NestInv => StateMatchesStack BY DEF NestInv
<1>. QED BY <1>1, <1>2, <1>3, PTL DEF Spec

\* For one thread, the calls nest as CallsNest says.
THEOREM CallsNestCorrect ==
  ASSUME OneThread
  PROVE  Spec => []CallsNest
<1>1. Init => NestInv BY NestInit
<1>2. NestInv /\ [Next]_vars => NestInv' BY NestStep
<1>3. NestInv => CallsNest BY DEF NestInv
<1>. QED BY <1>1, <1>2, <1>3, PTL DEF Spec

\* For one thread, a connected client that is not idle is in some call.
THEOREM BusyHasOperationCorrect ==
  ASSUME OneThread
  PROVE  Spec => []BusyHasOperation
<1>1. StateMatchesStack => BusyHasOperation
  <2>1. Resting \cap Connected = {"IDLE"} BY DEF Resting, Connected
  <2>2. \E t : t \in Threads BY DEF OneThread
  <2>. QED BY <2>1, <2>2 DEF StateMatchesStack, BusyHasOperation
<1>2. Spec => []StateMatchesStack BY StateMatchesStackCorrect
<1>. QED BY <1>1, <1>2, PTL

\* A call that has not claimed the client found it in no transient state.
LEMMA SavedIsNotTransient ==
  ASSUME NestInv, NEW t \in Threads, stack[t] # <<>>
  PROVE  Top(t).saved \notin {"CONNECTING", "DISCONNECTING"}
<1>. DEFINE n == Len(stack[t])
<1>1. /\ stack[t] \in Seq(Frame) /\ n \in Nat \ {0}
      /\ Top(t) = stack[t][n] /\ Nested(stack[t])
  BY TopType, ThreadFacts DEF Top
<1>2. CASE n = 1 BY <1>1, <1>2 DEF Nested, Resting
<1>3. CASE n # 1
  <2>. HIDE DEF n
  <2>1. n - 1 \in 1..(n - 1) /\ (n - 1) + 1 = n BY <1>1, <1>3
  <2>. USE DEF n
  <2>2. Linked(stack[t][n - 1], Top(t)) BY <1>1, <2>1 DEF Nested
  <2>3. Linked(stack[t][n - 1], Top(t))
          => Top(t).saved \notin {"CONNECTING", "DISCONNECTING"}
    BY DEF Linked, Held, Resting, Requests
  <2>. QED BY <2>2, <2>3
<1>. QED BY <1>2, <1>3

\* For one thread, a transient state has an owner that will leave it.
THEOREM TransientHasOwnerCorrect ==
  ASSUME OneThread
  PROVE  Spec => []TransientHasOwner
<1>1. Init => NestInv BY NestInit
<1>2. NestInv /\ [Next]_vars => NestInv' BY NestStep
<1>3. NestInv => TransientHasOwner
  <2>. SUFFICES ASSUME NestInv, state \in {"CONNECTING", "DISCONNECTING"}
                PROVE  TransientHasOwner
    BY DEF TransientHasOwner
  <2>1. PICK t \in Threads : TRUE BY DEF OneThread
  <2>2. /\ stack[t] # <<>>
        /\ state \in Expected(Top(t), rc[t]) /\ Settled(Top(t), rc[t])
    BY ThreadFacts DEF Resting
  <2>3. Top(t).saved \notin {"CONNECTING", "DISCONNECTING"}
    BY <2>2, SavedIsNotTransient
  <2>4. \/ state = "CONNECTING" /\ Leaving(t, "connect")
        \/ state = "DISCONNECTING" /\ Leaving(t, "disconnect")
    BY <2>2, <2>3
    DEF Leaving, Expected, Settled, Held, Resting, Requests
  <2>. QED BY <2>4 DEF TransientHasOwner
<1>. QED BY <1>1, <1>2, <1>3, PTL DEF Spec
=============================================================================
