-------------------------- MODULE MqttClientSharing --------------------------
(***************************************************************************)
(* A client shared by any number of threads: one of them connects and      *)
(* yields, and they all publish.  Whatever their interleaving, and also    *)
(* when mutexes cannot be taken, connections drop and packets get lost,    *)
(* no two threads are inside a call that has claimed the client.           *)
(***************************************************************************)
EXTENDS MqttClientProofs

\* Thread w connects and yields, the others publish; the client does not
\* reconnect by itself or from its disconnect handler.  (A client that does
\* is IDLE between the connect and the resubscribe of its reconnect, and
\* lets other calls in.)
SharedBy(w) ==
  /\ w \in Threads
  /\ MayCall[w] \subseteq {"connect", "yield", "publish", "resubscribe"}
  /\ \A t \in Threads \ {w} : MayCall[t] \subseteq {"publish", "resubscribe"}
  /\ "connect" \notin HandlerCalls /\ "reconnect" \notin HandlerCalls
  /\ ~AutoReconnect

-----------------------------------------------------------------------------
(* The inductive invariant. *)

\* No subscription, no callback; no reconnect, none pending.
Unused == {"PENDING_RECONNECT", "WAIT_FOR_CB_RETURN"}
Offline == {"INITIALIZED", "DISCONNECTED_ERROR", "DISCONNECTED_MANUALLY"}

\* The calls a thread can be in.
Kind(w, t, f) ==
  \/ /\ f.op \in {"publish", "resubscribe"} /\ f.saved = "IDLE"
     /\ f.pc \in {"claim", "send", "wait", "release"}
  \/ /\ t = w /\ f.op = "connect" /\ f.saved \in Offline
     /\ f.pc \in {"claim", "handshake", "settle"}
  \/ /\ t = w /\ f.op = "yield" /\ f.saved = "IDLE"
     /\ f.pc \in {"claim", "loop", "read", "keepalive", "drop", "dropped",
                  "destroy", "handler", "check", "exit"}
  \/ /\ t = w /\ f.op = "disconnect" /\ f.saved = "YIELD"
     /\ f.pc \in {"claim", "send", "finish", "restore"}
FramesOf(w, t) == {f \in Frame : Kind(w, t, f)}

\* The top frame determines the stack: only yield's own disconnect nests.
Dropping == [op |-> "yield", pc |-> "dropped", saved |-> "IDLE"]
StackOf(f) == IF f.op = "disconnect" THEN <<Dropping, f>> ELSE <<f>>

\* A call that has claimed the client, or is about to without checking, and
\* the states the client is in meanwhile.
Active(f) == f.pc # "claim" \/ f.op \in {"connect", "disconnect"}
Claimed(f, r) ==
  CASE f.op \in {"publish", "resubscribe"}        -> {Held(f.op)}
    [] f.op = "connect" /\ f.pc = "claim"         -> {f.saved}
    [] f.op = "connect" /\ f.pc # "claim"         -> Offline \cup {"CONNECTING"}
    [] f.op = "disconnect" /\ f.pc = "claim"      -> {"YIELD"}
    [] f.op = "disconnect" /\ f.pc # "claim"      -> {"DISCONNECTING"}
    [] f.op = "yield" /\ f.pc = "dropped"         ->
         IF r = "SUCCESS" THEN {"DISCONNECTED_MANUALLY"} ELSE {"YIELD"}
    [] f.op = "yield" /\ f.pc = "destroy"         -> {"DISCONNECTED_ERROR"}
    [] f.op = "yield" /\ f.pc = "handler"         -> Offline
    [] OTHER                                      -> {"YIELD"}

ShareInv(w) ==
  /\ TypeOK
  /\ ~subscribed
  /\ state \notin Unused
  /\ \A t \in Threads :
       stack[t] = <<>> \/ \E f \in FramesOf(w, t) :
                            /\ stack[t] = StackOf(f)
                            /\ Active(f) => state \in Claimed(f, rc[t])
  /\ \A t, u \in Threads :
       /\ stack[t] # <<>> /\ Active(Top(t))
       /\ stack[u] # <<>> /\ Active(Top(u))
       => t = u

-----------------------------------------------------------------------------
(* Stacks of one or two frames. *)

LEMMA AppendTwo ==
  ASSUME NEW S, NEW a \in S, NEW b \in S
  PROVE  Append(<<a>>, b) = <<a, b>>
<1>. DEFINE q == Append(<<a>>, b)
<1>1. <<a>> \in Seq(S) /\ Len(<<a>>) = 1 /\ <<a>>[1] = a OBVIOUS
<1>2. q \in Seq(S) /\ Len(q) = 2 /\ q[1] = a /\ q[2] = b BY <1>1
<1>. HIDE DEF q
<1>3. q = <<a, b>> BY <1>2
<1>. QED BY <1>3 DEF q

LEMMA DroppingType == Dropping \in Frame
BY DEF Dropping, Frame, ApiCalls, Requests, Points, ClientState, Connected

\* The top of such a stack, and what moving and dropping it leave.
LEMMA StackOfShape ==
  ASSUME NEW t, NEW f \in Frame, stack[t] = StackOf(f), NEW pc
  PROVE  /\ stack[t] # <<>>
         /\ Top(t) = f
         /\ MovedTo(t, pc) = StackOf([f EXCEPT !.pc = pc])
         /\ Popped(t) = IF f.op = "disconnect" THEN <<Dropping>> ELSE <<>>
<1>. DEFINE g == [f EXCEPT !.pc = pc]
<1>1. g.op = f.op BY DEF Frame
<1>2. CASE f.op = "disconnect"
  <2>1. stack[t] = <<Dropping, f>> BY <1>2 DEF StackOf
  <2>2. Len(<<Dropping, f>>) = 2 /\ <<Dropping, f>>[2] = f OBVIOUS
  <2>3. [<<Dropping, f>> EXCEPT ![2].pc = pc] = <<Dropping, g>> OBVIOUS
  <2>4. SubSeq(<<Dropping, f>>, 1, 1) = <<Dropping>>
    <3>1. <<Dropping, f>> \in Seq(Frame) /\ Len(<<Dropping, f>>) = 1 + 1
          /\ <<Dropping, f>>[1] = Dropping
      BY DroppingType
    <3>. DEFINE p == SubSeq(<<Dropping, f>>, 1, 1)
    <3>2. p \in Seq(Frame) /\ Len(p) = 1 /\ p[1] = Dropping BY <3>1, DropLast
    <3>. HIDE DEF p
    <3>3. p = <<Dropping>> BY <3>2
    <3>. QED BY <3>3 DEF p
  <2>. QED
    BY <1>1, <1>2, <2>1, <2>2, <2>3, <2>4 DEF Top, MovedTo, Popped, StackOf
<1>3. CASE f.op # "disconnect"
  <2>1. stack[t] = <<f>> BY <1>3 DEF StackOf
  <2>2. Len(<<f>>) = 1 /\ <<f>>[1] = f OBVIOUS
  <2>3. [<<f>> EXCEPT ![1].pc = pc] = <<g>> OBVIOUS
  <2>4. SubSeq(<<f>>, 1, 0) = <<>> OBVIOUS
  <2>. QED
    BY <1>1, <1>3, <2>1, <2>2, <2>3, <2>4 DEF Top, MovedTo, Popped, StackOf
<1>. QED BY <1>2, <1>3

-----------------------------------------------------------------------------
(* How a step of one thread keeps the invariant. *)

\* Thread t has the client to itself: it is in an active call, or no call
\* can be.
Clear(w, t) ==
  \/ stack[t] # <<>> /\ Active(Top(t))
  \/ state = "IDLE"
  \/ t = w /\ state \in Offline

\* What the invariant says of a thread that is in a call.
LEMMA TopFacts ==
  ASSUME NEW w, ShareInv(w), NEW t \in Threads, stack[t] # <<>>
  PROVE  /\ Top(t) \in FramesOf(w, t)
         /\ stack[t] = StackOf(Top(t))
         /\ Active(Top(t)) => state \in Claimed(Top(t), rc[t])
<1>1. PICK f \in FramesOf(w, t) : /\ stack[t] = StackOf(f)
                                  /\ Active(f) => state \in Claimed(f, rc[t])
  BY DEF ShareInv
<1>2. f \in Frame BY DEF FramesOf
<1>3. Top(t) = f BY <1>1, <1>2, StackOfShape
<1>. QED BY <1>1, <1>3

\* A compare-and-set sets the state or leaves it alone.
LEMMA CasShares ==
  ASSUME NEW t, NEW e, NEW n, NEW r, CompareAndSet(t, e, n, r)
  PROVE  \/ r = "SUCCESS" /\ state = e /\ state' = n
         \/ r # "SUCCESS" /\ UNCHANGED state
BY DEF CompareAndSet

\* Other threads keep their return codes.
OwnCode(t) == \A u \in Threads \ {t} : rc'[u] = rc[u]

LEMMA CodeIsOwn ==
  ASSUME NEW t \in Threads, NEW r, Code(t, r)
  PROVE  OwnCode(t)
BY DEF Code, OwnCode

\* While a thread has the client to itself no other one is active.
LEMMA NoOther ==
  ASSUME NEW w, ShareInv(w), NEW t \in Threads, Clear(w, t),
         NEW u \in Threads, u # t, stack[u] # <<>>
  PROVE  ~Active(Top(u))
<1>1. CASE stack[t] # <<>> /\ Active(Top(t)) BY <1>1 DEF ShareInv
<1>2. CASE state = "IDLE"
  <2>1. "IDLE" \notin Claimed(Top(u), rc[u])
    BY TopFacts DEF FramesOf, Kind, Claimed, Held, Offline
  <2>. QED BY <1>2, <2>1, TopFacts
<1>3. CASE t = w /\ state \in Offline
  <2>1. Top(u).op \in {"publish", "resubscribe"}
    BY <1>3, TopFacts DEF FramesOf, Kind
  <2>2. Claimed(Top(u), rc[u]) \cap Offline = {}
    BY <2>1 DEF Claimed, Held, Offline
  <2>. QED BY <1>3, <2>2, TopFacts
<1>. QED BY <1>1, <1>2, <1>3 DEF Clear

\* A thread's step keeps the invariant if it leaves the thread's stack in
\* shape and its state right, and disturbs no other thread.
LEMMA StepShares ==
  ASSUME NEW w, ShareInv(w), TypeOK', NEW t \in Threads, NEW q,
         stack' = [stack EXCEPT ![t] = q],
         ~subscribed', state' \notin Unused,
         \/ q = <<>>
         \/ \E f \in FramesOf(w, t) :
              /\ q = StackOf(f)
              /\ Active(f) => state' \in Claimed(f, rc'[t]) /\ Clear(w, t),
         Clear(w, t) \/ UNCHANGED state,
         OwnCode(t)
  PROVE  ShareInv(w)'
<1>1. /\ stack'[t] = q
      /\ \A u \in Threads \ {t} : stack'[u] = stack[u]
  BY DEF ShareInv, TypeOK
<1>2. ASSUME NEW u \in Threads, u # t, stack[u] # <<>>
      PROVE  /\ Top(u)' = Top(u)
             /\ Clear(w, t) => ~Active(Top(u))
  BY <1>1, <1>2, NoOther DEF Top
<1>3. ASSUME NEW u \in Threads
      PROVE  \/ stack'[u] = <<>>
             \/ \E f \in FramesOf(w, u) :
                  /\ stack'[u] = StackOf(f)
                  /\ Active(f) => state' \in Claimed(f, rc'[u])
  <2>1. CASE u = t BY <2>1, <1>1
  <2>2. CASE u # t /\ stack[u] = <<>> BY <2>2, <1>1
  <2>3. CASE u # t /\ stack[u] # <<>>
    <3>1. /\ Top(u) \in FramesOf(w, u) /\ stack'[u] = StackOf(Top(u))
          /\ rc'[u] = rc[u]
          /\ Active(Top(u)) => state \in Claimed(Top(u), rc[u])
      BY <2>3, <1>1, TopFacts DEF OwnCode
    <3>. QED BY <2>3, <3>1, <1>2
  <2>. QED BY <2>1, <2>2, <2>3
<1>4. stack'[t] # <<>> /\ Active(Top(t)') => Clear(w, t)
  <2>1. ASSUME NEW f \in FramesOf(w, t), q = StackOf(f)
        PROVE  Top(t)' = f
    <3>1. f \in Frame BY DEF FramesOf
    <3>2. Len(StackOf(f)) = IF f.op = "disconnect" THEN 2 ELSE 1
      BY DEF StackOf
    <3>3. StackOf(f)[Len(StackOf(f))] = f BY <3>2 DEF StackOf
    <3>. QED BY <1>1, <2>1, <3>3 DEF Top
  <2>. QED BY <1>1, <2>1
<1>5. ASSUME NEW u \in Threads, NEW v \in Threads,
             stack'[u] # <<>>, Active(Top(u)'),
             stack'[v] # <<>>, Active(Top(v)')
      PROVE  u = v
  <2>1. CASE u # t /\ v # t
    <3>1. /\ stack[u] # <<>> /\ Active(Top(u))
          /\ stack[v] # <<>> /\ Active(Top(v))
      BY <1>1, <1>2, <1>5, <2>1
    <3>. QED BY <3>1 DEF ShareInv
  <2>2. CASE u = t /\ v # t BY <1>1, <1>2, <1>4, <1>5, <2>2
  <2>3. CASE u # t /\ v = t BY <1>1, <1>2, <1>4, <1>5, <2>3
  <2>. QED BY <2>1, <2>2, <2>3
<1>. QED BY <1>3, <1>5 DEF ShareInv

\* A step within a call.
LEMMA GotoShares ==
  ASSUME NEW w, ShareInv(w), TypeOK', NEW t \in Threads, stack[t] # <<>>,
         NEW pc \in Points, Goto(t, pc),
         Kind(w, t, [Top(t) EXCEPT !.pc = pc]),
         Active([Top(t) EXCEPT !.pc = pc]) =>
           state' \in Claimed([Top(t) EXCEPT !.pc = pc], rc'[t]),
         Clear(w, t), OwnCode(t), ~subscribed', state' \notin Unused
  PROVE  ShareInv(w)'
<1>1. Top(t) \in FramesOf(w, t) /\ stack[t] = StackOf(Top(t)) BY TopFacts
<1>2. MovedTo(t, pc) = StackOf([Top(t) EXCEPT !.pc = pc])
  BY <1>1, StackOfShape DEF FramesOf
<1>3. [Top(t) EXCEPT !.pc = pc] \in FramesOf(w, t)
  BY <1>1 DEF FramesOf, Frame
<1>. QED BY <1>2, <1>3, StepShares DEF Goto

\* A return, to the application or from disconnect to yield.
LEMMA ReturnShares ==
  ASSUME NEW w, ShareInv(w), TypeOK', NEW t \in Threads, stack[t] # <<>>,
         NEW r, Return(t, r),
         Top(t).op = "disconnect" => state' \in Claimed(Dropping, r),
         Clear(w, t) \/ UNCHANGED state,
         ~subscribed', state' \notin Unused
  PROVE  ShareInv(w)'
<1>1. Top(t) \in FramesOf(w, t) /\ stack[t] = StackOf(Top(t)) BY TopFacts
<1>2. Popped(t) = IF Top(t).op = "disconnect" THEN <<Dropping>> ELSE <<>>
  BY <1>1, StackOfShape DEF FramesOf
<1>3. stack' = [stack EXCEPT ![t] = Popped(t)] /\ OwnCode(t)
  BY CodeIsOwn DEF Return
<1>4. CASE Top(t).op # "disconnect" BY <1>2, <1>3, <1>4, StepShares
<1>5. CASE Top(t).op = "disconnect"
  <2>1. Dropping \in FramesOf(w, t)
    BY <1>1, <1>5, DroppingType DEF FramesOf, Kind, Dropping
  <2>2. <<Dropping>> = StackOf(Dropping) BY DEF StackOf, Dropping
  <2>3. rc'[t] = r BY DEF Return, Code, ShareInv, TypeOK
  <2>4. Clear(w, t) BY <1>5 DEF Clear, Active
  <2>5. Popped(t) = StackOf(Dropping) BY <1>2, <1>5, <2>2
  <2>. HIDE DEF Dropping
  <2>. QED BY <1>3, <1>5, <2>1, <2>3, <2>4, <2>5, StepShares
<1>. QED BY <1>4, <1>5

-----------------------------------------------------------------------------
(* The steps. *)

\* The requests.
LEMMA RequestShares ==
  ASSUME NEW w, SharedBy(w), ShareInv(w), TypeOK', NEW t \in Threads,
         RequestStep(t)
  PROVE  ShareInv(w)'
<1>1. stack[t] # <<>> => /\ Top(t) \in Frame /\ Kind(w, t, Top(t))
                         /\ Active(Top(t)) => state \in Claimed(Top(t), rc[t])
  BY TopFacts DEF FramesOf
<1>2. ~subscribed /\ state \notin Unused BY DEF ShareInv
<1>3. \A pc \in Points :
        /\ stack[t] # <<>> /\ Goto(t, pc) /\ Clear(w, t)
        /\ Kind(w, t, [Top(t) EXCEPT !.pc = pc])
        /\ Active([Top(t) EXCEPT !.pc = pc]) =>
             state' \in Claimed([Top(t) EXCEPT !.pc = pc], rc'[t])
        /\ OwnCode(t) /\ ~subscribed' /\ state' \notin Unused
        => ShareInv(w)'
  BY GotoShares
<1>4. \A r :
        /\ stack[t] # <<>> /\ Return(t, r)
        /\ Top(t).op = "disconnect" => state' \in Claimed(Dropping, r)
        /\ Clear(w, t) \/ UNCHANGED state
        /\ ~subscribed' /\ state' \notin Unused
        => ShareInv(w)'
  BY ReturnShares
<1>5. /\ \A r : Code(t, r) => rc'[t] = r /\ OwnCode(t)
      /\ UNCHANGED rc => rc'[t] = rc[t] /\ OwnCode(t)
  BY CodeIsOwn DEF Code, OwnCode, ShareInv, TypeOK
<1>6. \A e, n, r : CompareAndSet(t, e, n, r) =>
        \/ r = "SUCCESS" /\ state = e /\ state' = n
        \/ r # "SUCCESS" /\ UNCHANGED state
  BY CasShares
<1>7. CASE Claim(t)
  <2>1. /\ stack[t] # <<>> /\ Top(t).pc = "claim" /\ UNCHANGED subscribed
        /\ Top(t).op \in {"publish", "resubscribe", "yield", "disconnect"}
    BY <1>7, <1>1 DEF Claim, AtPoint, Kind, Requests
  <2>2. PICK r \in CasResults :
          /\ CompareAndSet(t, Top(t).saved, Held(Top(t).op), r)
          /\ \/ /\ r = "SUCCESS" /\ UNCHANGED rc
                /\ Goto(t, IF Top(t).op = "yield" THEN "loop" ELSE "send")
             \/ r # "SUCCESS" /\ Return(t, r)
    BY <1>7, <2>1 DEF Claim, Requests
  <2>3. CASE r # "SUCCESS"
    BY <2>1, <2>2, <2>3, <1>1, <1>2, <1>4, <1>6
    DEF Kind, Active, Claimed, Dropping
  <2>4. CASE r = "SUCCESS"
    <3>1. state = Top(t).saved /\ state' = Held(Top(t).op) /\ OwnCode(t)
      BY <2>2, <2>4, <1>6, <1>5
    <3>2. Clear(w, t) BY <2>1, <3>1, <1>1 DEF Kind, Clear, Active
    <3>3. CASE Top(t).op = "yield"
      BY <2>1, <2>2, <2>4, <3>1, <3>2, <3>3, <1>1, <1>2, <1>3
      DEF Kind, Active, Claimed, Held, Points, Unused, Frame
    <3>4. CASE Top(t).op # "yield"
      BY <2>1, <2>2, <2>4, <3>1, <3>2, <3>4, <1>1, <1>2, <1>3
      DEF Kind, Active, Claimed, Held, Points, Unused, Frame
    <3>. QED BY <3>3, <3>4
  <2>. QED BY <2>3, <2>4
<1>8. CASE UndoUnsubscribe(t)
  BY <1>8, <1>1
  DEF UndoUnsubscribe, At, Kind
<1>9. CASE SendRequest(t)
  <2>1. /\ stack[t] # <<>> /\ Top(t).pc = "send" /\ UNCHANGED state
        /\ Top(t).op \in {"publish", "resubscribe"}
    BY <1>9, <1>1 DEF SendRequest, AtPoint, Kind, Requests
  <2>2. ~subscribed' BY <1>9, <2>1, <1>2 DEF SendRequest
  <2>3. PICK pc \in {"wait", "release"} : Goto(t, pc) /\ OwnCode(t)
    BY <1>9, <1>5 DEF SendRequest
  <2>4. Clear(w, t) BY <2>1 DEF Clear, Active
  <2>. QED
    BY <2>1, <2>2, <2>3, <2>4, <1>1, <1>2, <1>3
    DEF Kind, Active, Claimed, Held, Points, Frame
<1>10. CASE AwaitAck(t)
  BY <1>10, <1>1, <1>2, <1>3, <1>5
  DEF AwaitAck, AtPoint, Kind, Active, Claimed, Clear, Points
<1>11. CASE ReadPingResp(t)
  <2>1. UNCHANGED <<state, stack, rc, subscribed>> BY <1>11 DEF ReadPingResp
  <2>. QED BY <2>1 DEF ShareInv, Top
<1>12. CASE ReadPublish(t)
  BY <1>12, <1>1, <1>2
  DEF ReadPublish, AtPoint, Kind
<1>13. CASE Release(t)
  BY <1>13, <1>1, <1>2, <1>4, <1>6
  DEF Release, AtPoint, Kind, Active, Clear, Unused
<1>. QED BY <1>7, <1>8, <1>9, <1>10, <1>11, <1>12, <1>13
  DEF RequestStep

\* The message callbacks: without a subscription there are none.
LEMMA CallbackShares ==
  ASSUME NEW w, SharedBy(w), ShareInv(w), TypeOK', NEW t \in Threads,
         CallbackStep(t)
  PROVE  ShareInv(w)'
<1>1. stack[t] # <<>> => /\ Top(t) \in Frame /\ Kind(w, t, Top(t))
                         /\ Active(Top(t)) => state \in Claimed(Top(t), rc[t])
  BY TopFacts DEF FramesOf
<1>2. CASE BeginCallback(t)
  BY <1>2, <1>1
  DEF BeginCallback, At, Kind
<1>3. CASE CallFromCallback(t)
  BY <1>3, <1>1
  DEF CallFromCallback, At, Kind
<1>4. CASE EndCallback(t)
  BY <1>4, <1>1
  DEF EndCallback, At, Kind
<1>. QED BY <1>2, <1>3, <1>4
  DEF CallbackStep

\* connect and disconnect; reconnect does not run.
LEMMA ConnectShares ==
  ASSUME NEW w, SharedBy(w), ShareInv(w), TypeOK', NEW t \in Threads,
         ConnectStep(t)
  PROVE  ShareInv(w)'
<1>1. stack[t] # <<>> => /\ Top(t) \in Frame /\ Kind(w, t, Top(t))
                         /\ Active(Top(t)) => state \in Claimed(Top(t), rc[t])
  BY TopFacts DEF FramesOf
<1>2. ~subscribed /\ state \notin Unused BY DEF ShareInv
<1>3. \A pc \in Points :
        /\ stack[t] # <<>> /\ Goto(t, pc) /\ Clear(w, t)
        /\ Kind(w, t, [Top(t) EXCEPT !.pc = pc])
        /\ Active([Top(t) EXCEPT !.pc = pc]) =>
             state' \in Claimed([Top(t) EXCEPT !.pc = pc], rc'[t])
        /\ OwnCode(t) /\ ~subscribed' /\ state' \notin Unused
        => ShareInv(w)'
  BY GotoShares
<1>4. \A r :
        /\ stack[t] # <<>> /\ Return(t, r)
        /\ Top(t).op = "disconnect" => state' \in Claimed(Dropping, r)
        /\ Clear(w, t) \/ UNCHANGED state
        /\ ~subscribed' /\ state' \notin Unused
        => ShareInv(w)'
  BY ReturnShares
<1>5. /\ \A r : Code(t, r) => rc'[t] = r /\ OwnCode(t)
      /\ UNCHANGED rc => rc'[t] = rc[t] /\ OwnCode(t)
  BY CodeIsOwn DEF Code, OwnCode, ShareInv, TypeOK
<1>6. \A e, n, r : CompareAndSet(t, e, n, r) =>
        \/ r = "SUCCESS" /\ state = e /\ state' = n
        \/ r # "SUCCESS" /\ UNCHANGED state
  BY CasShares
<1>7. CASE BeginConnect(t)
  BY <1>7, <1>1, <1>2, <1>3, <1>5, <1>6
  DEF BeginConnect, At, Kind, Active, Claimed, Clear, Unused, Points
<1>8. CASE Handshake(t)
  BY <1>8, <1>1, <1>2, <1>3, <1>5
  DEF Handshake, At, Kind, Active, Claimed, Clear, Points
<1>9. CASE SettleConnect(t)
  BY <1>9, <1>1, <1>2, <1>4, <1>6
  DEF SettleConnect, At, Kind, Active, Clear, Unused
<1>10. CASE SendDisconnect(t)
  BY <1>10, <1>1, <1>2, <1>3, <1>5
  DEF SendDisconnect, At, Kind, Active, Claimed, Clear, Points
<1>11. CASE FinishDisconnect(t)
  BY <1>11, <1>1, <1>2, <1>4
  DEF FinishDisconnect, At, Kind, Active, Claimed, Clear, Unused, Dropping
<1>12. CASE RestoreAfterDisconnect(t)
  BY <1>12, <1>1, <1>2, <1>4
  DEF RestoreAfterDisconnect, At, Kind, Active, Claimed, Clear, Unused,
      Dropping
<1>13. CASE ReconnectConnect(t)
  BY <1>13, <1>1
  DEF ReconnectConnect, At, Kind
<1>14. CASE ReconnectConnected(t)
  BY <1>14, <1>1
  DEF ReconnectConnected, At, Kind
<1>15. CASE ReconnectPend(t)
  BY <1>15, <1>1
  DEF ReconnectPend, At, Kind
<1>16. CASE ReconnectResubscribed(t)
  BY <1>16, <1>1
  DEF ReconnectResubscribed, At, Kind
<1>. QED BY <1>7, <1>8, <1>9, <1>10, <1>11, <1>12, <1>13, <1>14, <1>15, <1>16
  DEF ConnectStep

\* yield.
LEMMA YieldShares ==
  ASSUME NEW w, SharedBy(w), ShareInv(w), TypeOK', NEW t \in Threads,
         YieldStep(t)
  PROVE  ShareInv(w)'
<1>1. stack[t] # <<>> => /\ Top(t) \in Frame /\ Kind(w, t, Top(t))
                         /\ Active(Top(t)) => state \in Claimed(Top(t), rc[t])
  BY TopFacts DEF FramesOf
<1>2. ~subscribed /\ state \notin Unused BY DEF ShareInv
<1>3. \A pc \in Points :
        /\ stack[t] # <<>> /\ Goto(t, pc) /\ Clear(w, t)
        /\ Kind(w, t, [Top(t) EXCEPT !.pc = pc])
        /\ Active([Top(t) EXCEPT !.pc = pc]) =>
             state' \in Claimed([Top(t) EXCEPT !.pc = pc], rc'[t])
        /\ OwnCode(t) /\ ~subscribed' /\ state' \notin Unused
        => ShareInv(w)'
  BY GotoShares
<1>4. \A r :
        /\ stack[t] # <<>> /\ Return(t, r)
        /\ Top(t).op = "disconnect" => state' \in Claimed(Dropping, r)
        /\ Clear(w, t) \/ UNCHANGED state
        /\ ~subscribed' /\ state' \notin Unused
        => ShareInv(w)'
  BY ReturnShares
<1>5. /\ \A r : Code(t, r) => rc'[t] = r /\ OwnCode(t)
      /\ UNCHANGED rc => rc'[t] = rc[t] /\ OwnCode(t)
  BY CodeIsOwn DEF Code, OwnCode, ShareInv, TypeOK
<1>6. \A e, n, r : CompareAndSet(t, e, n, r) =>
        \/ r = "SUCCESS" /\ state = e /\ state' = n
        \/ r # "SUCCESS" /\ UNCHANGED state
  BY CasShares
<1>7. CASE YieldLoop(t)
  <2>1. Goto(t, "read") /\ UNCHANGED <<state, rc, subscribed>>
    BY <1>7, <1>2 DEF YieldLoop, Unused
  <2>. QED
    BY <1>7, <2>1, <1>1, <1>2, <1>3, <1>5
    DEF YieldLoop, At, Kind, Active, Claimed, Clear, Points
<1>8. CASE YieldReconnected(t)
  BY <1>8, <1>1
  DEF YieldReconnected, At, Kind
<1>9. CASE YieldReclaim(t)
  BY <1>9, <1>1
  DEF YieldReclaim, At, Kind
<1>10. CASE YieldRead(t)
  BY <1>10, <1>1, <1>2, <1>3, <1>5
  DEF YieldRead, At, Kind, Active, Claimed, Clear, Points
<1>11. CASE YieldDelivered(t)
  BY <1>11, <1>1
  DEF YieldDelivered, At, Kind
<1>12. CASE YieldKeepAlive(t)
  BY <1>12, <1>1, <1>2, <1>3, <1>5
  DEF YieldKeepAlive, At, Kind, Active, Claimed, Clear, Points
<1>13. CASE YieldDrop(t)
  <2>. DEFINE f == [op |-> "disconnect", pc |-> "claim", saved |-> "YIELD"]
  <2>1. /\ t = w /\ stack[t] # <<>> /\ Top(t).pc = "drop"
        /\ Top(t) \in Frame /\ Top(t).op = "yield" /\ Top(t).saved = "IDLE"
        /\ state = "YIELD"
        /\ UNCHANGED <<state, subscribed>>
    BY <1>13, <1>1
    DEF YieldDrop, At, Kind, Active, Claimed
  <2>2. MovedTo(t, "dropped") = StackOf([Top(t) EXCEPT !.pc = "dropped"])
    BY <2>1, TopFacts, StackOfShape DEF FramesOf
  <2>3. [Top(t) EXCEPT !.pc = "dropped"] = Dropping
    BY <2>1 DEF Frame, Dropping
  <2>4. MovedTo(t, "dropped") = <<Dropping>>
    BY <2>2, <2>3 DEF StackOf, Dropping
  <2>5. Accepts("disconnect", state) /\ FirstPoint("disconnect", state) = "claim"
    BY <2>1 DEF Accepts, FirstPoint, Requests, Connected
  <2>6. stack' = [stack EXCEPT ![t] = Append(<<Dropping>>, f)]
    BY <1>13, <2>1, <2>4, <2>5 DEF YieldDrop, Enter
  <2>7. f \in FramesOf(w, t)
    BY <2>1 DEF FramesOf, Kind, Frame, ApiCalls, Points, ClientState, Connected
  <2>8. Append(<<Dropping>>, f) = StackOf(f)
    BY <2>7, DroppingType, AppendTwo DEF StackOf, FramesOf
  <2>9. state' \in Claimed(f, rc'[t]) BY <2>1 DEF Claimed
  <2>10. Clear(w, t) /\ OwnCode(t)
    BY <1>13, <2>1, <2>5 DEF YieldDrop, Enter, Clear, Active, OwnCode
  <2>. HIDE DEF f
  <2>. QED BY <2>1, <2>6, <2>7, <2>8, <2>9, <2>10, <1>2, StepShares
<1>14. CASE YieldForceDown(t)
  BY <1>14, <1>1, <1>2, <1>3, <1>5
  DEF YieldForceDown, At, Kind, Active, Claimed, Clear, Offline, Unused,
      Points
<1>15. CASE YieldDestroy(t)
  BY <1>15, <1>1, <1>2, <1>3, <1>5
  DEF YieldDestroy, At, Kind, Active, Claimed, Clear, Offline, Points
<1>16. CASE CallFromHandler(t)
  <2>1. state \in Offline /\ stack[t] # <<>>
    BY <1>16, <1>1
    DEF CallFromHandler, At, Kind, Active, Claimed, Offline
  <2>2. PICK op \in ApiCalls \ {"connect", "reconnect"} :
          Enter(t, op, stack[t]) /\ UNCHANGED <<state, subscribed>>
    BY <1>16, ConstantsAssumption DEF CallFromHandler, SharedBy
  <2>3. ~Accepts(op, state)
    BY <2>1, <2>2 DEF Accepts, Requests, Connected, Offline
  <2>4. stack' = stack BY <2>2, <2>3 DEF Enter, ShareInv, TypeOK
  <2>5. OwnCode(t) BY <2>2, CodeIsOwn DEF Enter, OwnCode
  <2>6. Top(t).op = "yield" /\ Top(t).pc = "handler"
    BY <1>16 DEF CallFromHandler, At
  <2>7. Claimed(Top(t), rc'[t]) = Claimed(Top(t), rc[t]) BY <2>6 DEF Claimed
  <2>8. Top(t) \in FramesOf(w, t) /\ stack[t] = StackOf(Top(t)) BY <2>1, TopFacts
  <2>9. stack' = [stack EXCEPT ![t] = StackOf(Top(t))]
    BY <2>4, <2>8 DEF ShareInv, TypeOK
  <2>10. Clear(w, t) BY <2>1, <2>6 DEF Clear, Active
  <2>. QED BY <2>1, <2>2, <2>5, <2>7, <2>8, <2>9, <2>10, <1>1, <1>2, StepShares
<1>17. CASE YieldDisconnected(t)
  BY <1>17, <1>1, <1>2, <1>3, <1>5, <1>4
  DEF YieldDisconnected, At, Kind, Active, Clear, Unused, SharedBy
<1>18. CASE YieldPend(t)
  BY <1>18, <1>1
  DEF YieldPend, At, Kind
<1>19. CASE YieldCheck(t)
  BY <1>19, <1>1, <1>2, <1>3, <1>5, <1>4
  DEF YieldCheck, At, Kind, Active, Claimed, Clear, Points
<1>20. CASE YieldExit(t)
  BY <1>20, <1>1, <1>2, <1>4, <1>6
  DEF YieldExit, At, Kind, Active, Clear, Unused
<1>. QED BY <1>7, <1>8, <1>9, <1>10, <1>11, <1>12, <1>13, <1>14, <1>15, <1>16,
     <1>17, <1>18, <1>19, <1>20
  DEF YieldStep

\* The application calls the API.
LEMMA CallShares ==
  ASSUME NEW w, SharedBy(w), ShareInv(w), TypeOK', NEW t \in Threads, Call(t)
  PROVE  ShareInv(w)'
<1>1. PICK op \in MayCall[t] :
        Enter(t, op, <<>>) /\ UNCHANGED <<state, subscribed>>
  BY DEF Call
<1>2. op \in {"publish", "resubscribe"}
      \/ (t = w /\ op \in {"connect", "yield", "publish", "resubscribe"})
  BY <1>1 DEF SharedBy
<1>3. ~subscribed /\ state \notin Unused BY DEF ShareInv
<1>4. OwnCode(t) BY <1>1, CodeIsOwn DEF Enter, OwnCode
<1>5. CASE ~Accepts(op, state)
  <2>1. stack' = [stack EXCEPT ![t] = <<>>] BY <1>1, <1>5 DEF Enter
  <2>. QED BY <1>1, <1>3, <1>4, <2>1, StepShares
<1>6. CASE Accepts(op, state)
  <2>. DEFINE f == [op |-> op, pc |-> FirstPoint(op, state), saved |-> state]
  <2>0. stack' = [stack EXCEPT ![t] = Append(<<>>, f)]
    BY <1>1, <1>6 DEF Enter
  <2>1. stack' = [stack EXCEPT ![t] = <<f>>]
    BY <2>0
  <2>2. FirstPoint(op, state) = "claim" BY <1>2, <1>3 DEF FirstPoint, Unused
  <2>3. IF op = "connect" THEN t = w /\ state \in Offline ELSE state = "IDLE"
    BY <1>2, <1>3, <1>6 DEF Accepts, Requests, Offline, Unused
  <2>4. f \in FramesOf(w, t)
    BY <1>2, <2>2, <2>3
    DEF FramesOf, Kind, Frame, ApiCalls, Requests, Points, ClientState, Offline,
        Connected
  <2>5. <<f>> = StackOf(f) BY <1>2 DEF StackOf
  <2>6. Active(f) => state' \in Claimed(f, rc'[t]) /\ Clear(w, t)
    BY <1>1, <1>2, <2>2, <2>3 DEF Active, Claimed, Clear
  <2>. HIDE DEF f
  <2>. QED BY <1>1, <1>3, <1>4, <2>1, <2>4, <2>5, <2>6, StepShares
<1>. QED BY <1>5, <1>6

LEMMA ShareInit ==
  ASSUME NEW w, SharedBy(w), Init
  PROVE  ShareInv(w)
<1>1. TypeOK
  <2>1. <<>> \in Seq(Frame) OBVIOUS
  <2>. QED BY <2>1 DEF Init, TypeOK, ClientState, ReturnCodes
<1>. QED BY <1>1 DEF Init, ShareInv, Unused

LEMMA ShareStep ==
  ASSUME NEW w, SharedBy(w), ShareInv(w), [Next]_vars
  PROVE  ShareInv(w)'
<1>1. TypeOK' BY TypeStep DEF ShareInv
<1>2. CASE LinkLost \/ UNCHANGED vars
  <2>1. UNCHANGED <<state, stack, rc, subscribed>> BY <1>2 DEF LinkLost, vars
  <2>. QED BY <1>1, <2>1 DEF ShareInv, Top
<1>. QED
  BY <1>1, <1>2, CallShares, RequestShares, CallbackShares, ConnectShares,
     YieldShares
  DEF Next

\* Any number of threads, one of which connects and yields: at most one is
\* inside a call that has claimed the client.
THEOREM ExclusiveCorrect ==
  ASSUME NEW CONSTANT w, SharedBy(w)
  PROVE  Spec => []Exclusive
<1>1. Init => ShareInv(w) BY ShareInit
<1>2. ShareInv(w) /\ [Next]_vars => ShareInv(w)' BY ShareStep
<1>3. ShareInv(w) => Exclusive
  <2>. SUFFICES ASSUME ShareInv(w),
                       NEW t \in Threads, Inside(t),
                       NEW u \in Threads, Inside(u)
                PROVE  t = u
    BY DEF Exclusive
  <2>1. ASSUME NEW v \in Threads, Inside(v)
        PROVE  stack[v] # <<>> /\ Active(Top(v))
    <3>1. stack[v] # <<>> /\ stack[v][1].pc # "claim" BY <2>1 DEF Inside
    <3>2. stack[v] = StackOf(Top(v)) BY <3>1, TopFacts
    <3>3. CASE Top(v).op = "disconnect" BY <3>1, <3>3 DEF Active
    <3>4. CASE Top(v).op # "disconnect"
      <4>1. stack[v][1] = Top(v) BY <3>2, <3>4 DEF StackOf
      <4>. QED BY <3>1, <4>1 DEF Active
    <3>. QED BY <3>3, <3>4
  <2>. QED BY <2>1 DEF ShareInv
<1>. QED BY <1>1, <1>2, <1>3, PTL DEF Spec
=============================================================================
