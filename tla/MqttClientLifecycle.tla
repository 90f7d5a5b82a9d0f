------------------------- MODULE MqttClientLifecycle -------------------------
(***************************************************************************)
(* A client used by one thread keeps the life cycle ClientLifecycle        *)
(* promises: an offline client holds no connection, one the application    *)
(* disconnected stays so, and no yield runs inside a message callback.     *)
(*                                                                         *)
(* The argument builds on the nesting of calls.  A step changes one frame  *)
(* of the thread's stack, and every call found the client in a state that  *)
(* suits it.  A connection can then be in doubt at four points only, and   *)
(* what is known there carries the client from one phase to the next.      *)
(***************************************************************************)
EXTENDS MqttClientProofs

-----------------------------------------------------------------------------
(* How a step changes the stack of the thread that takes it. *)

\* The state that frame f saved suits its call: connect found the client
\* offline, every other call that claims it found it connected.
SavedFits(f) ==
  /\ f.op \in Requests \cup {"resubscribe", "disconnect", "deliver"}
       => f.saved \in Connected
  /\ f.op = "yield" /\ f.pc = "claim" => f.saved \in Connected
  /\ f.op = "connect" => f.saved \in Resting \ {"IDLE"}

\* The frames with which a call begins.
Entered == {f \in Frame : f.pc \in {"claim", "connect", "loop"} /\ SavedFits(f)}

\* The points at which the connection is in doubt, and the steps that lead
\* there.
Loaded == {"settle", "finish", "handler", "destroy"}
LoadedStep(t) ==
  Handshake(t) \/ SendDisconnect(t) \/ YieldForceDown(t) \/ YieldDestroy(t)
Later == Points \ {"claim"}

\* Every step of a thread leaves, moves, drops or adds at most one frame.
StackStep(t) ==
  \/ /\ stack'[t] = stack[t]
     /\ stack[t] # <<>> => Top(t).pc \notin Loaded \/ CallFromHandler(t)
  \/ /\ stack[t] # <<>>
     /\ \E pc \in Later : /\ pc \in Loaded => LoadedStep(t)
                         /\ stack'[t] = MovedTo(t, pc)
  \/ stack[t] # <<>> /\ stack'[t] = Popped(t)
  \/ \E f \in Entered :
       /\ stack[t] # <<>> => Top(t).pc = "callback" \/ CallFromHandler(t)
       /\ stack'[t] = Append(stack[t], f)
  \/ /\ stack[t] # <<>>
     /\ \E pc \in Later \ Loaded, f \in Entered :
          stack'[t] = Append(MovedTo(t, pc), f)

\* Entering a call leaves the callers' frames, with or without a new one.
LEMMA EnterStack ==
  ASSUME NestInv, NEW t \in Threads, NEW op \in ApiCalls, NEW s, Enter(t, op, s)
  PROVE  \/ stack'[t] = s
         \/ \E f \in Entered : stack'[t] = Append(s, f)
<1>. DEFINE f == [op |-> op, pc |-> FirstPoint(op, state), saved |-> state]
<1>1. stack'[t] = s \/ (Accepts(op, state) /\ stack'[t] = Append(s, f))
  BY ThreadFacts DEF Enter
<1>2. f \in Frame BY FirstPointType DEF Frame, NestInv, TypeOK
<1>3. Accepts(op, state) => f \in Entered
  BY <1>2
  DEF Entered, SavedFits, Accepts, FirstPoint, Connected, Requests, ApiCalls,
      Resting
<1>. QED BY <1>1, <1>3

LEMMA StackSteps ==
  ASSUME NestInv, NEW t \in Threads,
         \/ Call(t) \/ RequestStep(t) \/ CallbackStep(t) \/ ConnectStep(t)
         \/ YieldStep(t)
  PROVE  StackStep(t)
<1>1. stack \in [Threads -> Seq(Frame)] BY ThreadFacts
<1>2. \A pc \in Later :
        /\ stack[t] # <<>> /\ Goto(t, pc)
        /\ pc \in Loaded => LoadedStep(t)
        => StackStep(t)
  BY <1>1 DEF Goto, StackStep
<1>3. \A r : stack[t] # <<>> /\ Return(t, r) => StackStep(t)
  BY <1>1 DEF Return, StackStep
<1>4. \A op \in ApiCalls : \A s : Enter(t, op, s) =>
        stack'[t] = s \/ \E f \in Entered : stack'[t] = Append(s, f)
  BY EnterStack
<1>5. \A pc \in (Later \ Loaded), op \in ApiCalls :
        stack[t] # <<>> /\ Enter(t, op, MovedTo(t, pc)) => StackStep(t)
  BY <1>4 DEF StackStep
<1>6. CASE Call(t)
  BY <1>4, <1>6, ConstantsAssumption DEF Call, StackStep
<1>7. CASE RequestStep(t)
  <2>1. CASE Claim(t)
    BY <2>1, <1>2, <1>3 DEF Claim, AtPoint, Points, Later, Loaded
  <2>2. CASE UndoUnsubscribe(t) BY <2>2, <1>3 DEF UndoUnsubscribe, At
  <2>3. CASE SendRequest(t)
    BY <2>3, <1>2 DEF SendRequest, AtPoint, Points, Later, Loaded
  <2>4. CASE AwaitAck(t)
    BY <2>4, <1>2 DEF AwaitAck, AtPoint, Points, Later, Loaded
  <2>5. CASE ReadPingResp(t)
    BY <2>5 DEF ReadPingResp, AtPoint, Loaded, StackStep
  <2>6. CASE ReadPublish(t)
    <3>. DEFINE pc == IF Top(t).pc = "read" THEN "delivered" ELSE "wait"
    <3>1. stack[t] # <<>> /\ stack'[t] = Append(MovedTo(t, pc), DeliverFrame)
      BY <2>6, <1>1 DEF ReadPublish, At, AtPoint
    <3>2. pc \in (Later \ Loaded) BY DEF Later, Loaded, Points
    <3>3. state \in Connected
      BY <2>6, ThreadFacts
      DEF ReadPublish, At, AtPoint, Expected, Held, Connected, Settled, Requests
    <3>4. DeliverFrame \in Entered
      BY <3>3
      DEF DeliverFrame, Entered, SavedFits, Frame, Points, NestInv, TypeOK
    <3>. QED BY <3>1, <3>2, <3>4 DEF StackStep
  <2>7. CASE Release(t) BY <2>7, <1>3 DEF Release, AtPoint
  <2>. QED BY <1>7, <2>1, <2>2, <2>3, <2>4, <2>5, <2>6, <2>7 DEF RequestStep
<1>8. CASE CallbackStep(t)
  <2>1. CASE BeginCallback(t)
    BY <2>1, <1>2 DEF BeginCallback, At, Points, Later, Loaded
  <2>2. CASE CallFromCallback(t)
    BY <2>2, <1>4, ConstantsAssumption
    DEF CallFromCallback, At, Loaded, StackStep
  <2>3. CASE EndCallback(t) BY <2>3, <1>3 DEF EndCallback, At
  <2>. QED BY <1>8, <2>1, <2>2, <2>3 DEF CallbackStep
<1>9. CASE ConnectStep(t)
  <2>1. CASE \/ BeginConnect(t) \/ Handshake(t) \/ SendDisconnect(t)
    BY <2>1, <1>2
    DEF BeginConnect, Handshake, SendDisconnect, LoadedStep, At, Points, Later,
        Loaded
  <2>2. CASE \/ SettleConnect(t) \/ FinishDisconnect(t)
             \/ RestoreAfterDisconnect(t) \/ ReconnectPend(t)
             \/ ReconnectResubscribed(t)
    BY <2>2, <1>3
    DEF SettleConnect, FinishDisconnect, RestoreAfterDisconnect, ReconnectPend,
        ReconnectResubscribed, At
  <2>3. CASE ReconnectConnect(t)
    BY <2>3, <1>5 DEF ReconnectConnect, At, Later, Loaded, Points, ApiCalls
  <2>4. CASE ReconnectConnected(t)
    BY <2>4, <1>2, <1>5
    DEF ReconnectConnected, At, Later, Loaded, Points, ApiCalls
  <2>. QED BY <1>9, <2>1, <2>2, <2>3, <2>4 DEF ConnectStep
<1>10. CASE YieldStep(t)
  <2>1. CASE \/ YieldReconnected(t) \/ YieldReclaim(t) \/ YieldRead(t)
             \/ YieldDelivered(t) \/ YieldKeepAlive(t) \/ YieldForceDown(t)
             \/ YieldDestroy(t) \/ YieldPend(t)
    BY <2>1, <1>2
    DEF YieldReconnected, YieldReclaim, YieldRead, YieldDelivered,
        YieldKeepAlive, YieldForceDown, YieldDestroy, YieldPend, LoadedStep, At,
        Points, Later, Loaded
  <2>2. CASE YieldDisconnected(t) \/ YieldCheck(t) \/ YieldExit(t)
    BY <2>2, <1>2, <1>3
    DEF YieldDisconnected, YieldCheck, YieldExit, At, Points, Later, Loaded
  <2>3. CASE YieldLoop(t)
    BY <2>3, <1>2, <1>5 DEF YieldLoop, At, Later, Loaded, Points, ApiCalls
  <2>4. CASE YieldDrop(t)
    BY <2>4, <1>5 DEF YieldDrop, At, Later, Loaded, Points, ApiCalls
  <2>5. CASE CallFromHandler(t)
    BY <2>5, <1>4, ConstantsAssumption DEF CallFromHandler, At, StackStep
  <2>. QED BY <1>10, <2>1, <2>2, <2>3, <2>4, <2>5 DEF YieldStep
<1>. QED BY <1>6, <1>7, <1>8, <1>9, <1>10

-----------------------------------------------------------------------------
(* What stays true of the frames under the top. *)

\* Every call found the client in a state that suits it, and the disconnect
\* handler has called nothing.
StackFits(s) ==
  /\ \A i \in 1..Len(s) : SavedFits(s[i])
  /\ \A i \in 1..(Len(s) - 1) : s[i].pc # "handler"

\* Above a message callback there are requests, and callbacks of theirs.
CallbacksFit(s) ==
  \A i, j \in 1..Len(s) :
    i < j /\ s[i].pc = "callback" => s[j].op \in Requests \cup {"deliver"}

\* An empty stack, a moved and a dropped frame, a call entered.
LEMMA EmptyFits == StackFits(<<>>) /\ CallbacksFit(<<>>)
<1>1. Len(<<>>) = 0 /\ 1..0 = {} /\ 1..(0 - 1) = {} OBVIOUS
<1>. QED BY <1>1 DEF StackFits, CallbacksFit

LEMMA MovedToFits ==
  ASSUME stack \in [Threads -> Seq(Frame)], NEW t \in Threads, stack[t] # <<>>,
         NEW pc \in Later
  PROVE  /\ StackFits(stack[t]) => StackFits(MovedTo(t, pc))
         /\ CallbacksFit(stack[t]) => CallbacksFit(MovedTo(t, pc))
<1>. DEFINE n == Len(stack[t])
            m == MovedTo(t, pc)
<1>1. /\ stack[t] \in Seq(Frame) /\ n \in Nat \ {0} /\ Top(t) \in Frame
      /\ Top(t) = stack[t][n]
  BY TopType DEF Top
<1>2. pc \in Points /\ pc # "claim" BY DEF Later
<1>3. /\ Len(m) = n /\ m[n] = [Top(t) EXCEPT !.pc = pc]
      /\ \A i \in 1..(n - 1) : m[i] = stack[t][i]
  BY <1>2, MovedToShape
<1>4. m[n].op = stack[t][n].op /\ m[n].saved = stack[t][n].saved /\ m[n].pc = pc
  BY <1>1, <1>3 DEF Frame
<1>5. SavedFits(stack[t][n]) => SavedFits(m[n])
  BY <1>2, <1>4 DEF SavedFits
<1>. HIDE DEF m, n
<1>6. \A i \in 1..n : i = n \/ i \in 1..(n - 1) BY <1>1 DEF n
<1>7. \A i, j \in 1..n : i < j => i \in 1..(n - 1) BY <1>1 DEF n
<1>8. n \in 1..n BY <1>1 DEF n
<1>9. StackFits(stack[t]) => StackFits(m)
  BY <1>3, <1>5, <1>6, <1>8 DEF StackFits, n
<1>10. CallbacksFit(stack[t]) => CallbacksFit(m)
  BY <1>3, <1>4, <1>6, <1>7, <1>8 DEF CallbacksFit, n
<1>. QED BY <1>9, <1>10 DEF m

LEMMA PoppedFits ==
  ASSUME stack \in [Threads -> Seq(Frame)], NEW t \in Threads, stack[t] # <<>>,
         Nested(stack[t])
  PROVE  /\ StackFits(stack[t]) => StackFits(Popped(t))
         /\ CallbacksFit(stack[t]) => CallbacksFit(Popped(t))
<1>. DEFINE n == Len(stack[t])
            p == Popped(t)
<1>1. n \in Nat \ {0} BY TopType
<1>2. Len(p) = n - 1 /\ \A i \in 1..(n - 1) : p[i] = stack[t][i]
  BY PoppedNested
<1>. HIDE DEF n, p
<1>3. /\ \A i \in 1..(n - 1) : i \in 1..n
      /\ \A i \in 1..((n - 1) - 1) : i \in 1..(n - 1)
  BY <1>1
<1>. QED BY <1>2, <1>3 DEF StackFits, CallbacksFit, n, p

LEMMA AppendFits ==
  ASSUME NEW s \in Seq(Frame), NEW f \in Frame
  PROVE  /\ /\ StackFits(s) /\ SavedFits(f)
            /\ s # <<>> => s[Len(s)].pc # "handler"
            => StackFits(Append(s, f))
         /\ CallbacksFit(s) /\ Nested(Append(s, f))
            => CallbacksFit(Append(s, f))
<1>. DEFINE n == Len(s)
            a == Append(s, f)
<1>1. /\ n \in Nat /\ Len(a) = n + 1 /\ a[n + 1] = f
      /\ \A i \in 1..n : a[i] = s[i]
      /\ n = 0 <=> s = <<>>
  OBVIOUS
<1>. HIDE DEF n, a
<1>2. ASSUME StackFits(s), SavedFits(f), s # <<>> => s[n].pc # "handler"
      PROVE  StackFits(a)
  <2>1. \A i \in 1..(n + 1) : i = n + 1 \/ i \in 1..n BY <1>1
  <2>2. \A i \in 1..((n + 1) - 1) : (i = n /\ n # 0) \/ i \in 1..(n - 1) BY <1>1
  <2>3. \A i \in 1..((n + 1) - 1) : i \in 1..n BY <1>1
  <2>. QED BY <1>1, <1>2, <2>1, <2>2, <2>3 DEF StackFits, n
<1>3. ASSUME CallbacksFit(s), Nested(a),
             NEW i \in 1..(n + 1), NEW j \in 1..(n + 1),
             i < j, a[i].pc = "callback"
      PROVE  a[j].op \in Requests \cup {"deliver"}
  <2>1. i \in 1..n /\ n \in 1..n /\ n # 0 BY <1>1, <1>3
  <2>2. CASE j # n + 1
    <3>1. j \in 1..n BY <2>2, <1>1
    <3>. QED BY <2>1, <3>1, <1>1, <1>3 DEF CallbacksFit, n
  <2>3. CASE j = n + 1
    <3>1. Linked(a[n], a[n + 1])
      <4>1. n \in 1..(Len(a) - 1) BY <2>1, <1>1
      <4>. QED BY <4>1, <1>3 DEF Nested
    <3>2. CASE i = n BY <3>1, <3>2, <2>3, <1>3 DEF Linked
    <3>3. CASE i # n
      <4>1. i < n BY <3>3, <2>1, <1>1
      <4>2. a[n].op \in Requests \cup {"deliver"}
        BY <4>1, <2>1, <1>1, <1>3 DEF CallbacksFit, n
      <4>. QED BY <4>2, <3>1, <2>3 DEF Linked, Requests
    <3>. QED BY <3>2, <3>3
  <2>. QED BY <2>2, <2>3
<1>. QED BY <1>1, <1>2, <1>3 DEF CallbacksFit, n, a

\* A step of the only thread leaves requests and callbacks above a callback.
LEMMA StepCallbacksFit ==
  ASSUME NestInv, NestInv', NEW t \in Threads, StackStep(t),
         CallbacksFit(stack[t])
  PROVE  CallbacksFit(stack'[t])
<1>1. /\ stack \in [Threads -> Seq(Frame)] /\ Nested(stack[t])
      /\ stack[t] \in Seq(Frame) /\ Nested(stack'[t])
  BY ThreadFacts DEF NestInv, CallsNest
<1>2. \A f \in Entered : f \in Frame BY DEF Entered
<1>3. \A pc \in Later : stack[t] # <<>> =>
        MovedTo(t, pc) \in Seq(Frame) /\ CallbacksFit(MovedTo(t, pc))
  BY <1>1, MovedToFits, MovedToShape DEF Later
<1>4. stack[t] # <<>> => CallbacksFit(Popped(t)) BY <1>1, PoppedFits
<1>5. \A s \in Seq(Frame), f \in Frame :
        CallbacksFit(s) /\ Nested(Append(s, f)) => CallbacksFit(Append(s, f))
  BY AppendFits
<1>. QED BY <1>1, <1>2, <1>3, <1>4, <1>5 DEF StackStep

\* The invariant behind NoYieldDuringCallback.
CallbackInv == NestInv /\ \A t \in Threads : CallbacksFit(stack[t])

\* Every step keeps it.
LEMMA CallbackStepInv ==
  ASSUME OneThread, CallbackInv, [Next]_vars
  PROVE  CallbackInv'
<1>1. NestInv' BY NestStep DEF CallbackInv
<1>2. ASSUME NEW t \in Threads,
             \/ Call(t) \/ RequestStep(t) \/ CallbackStep(t) \/ ConnectStep(t)
             \/ YieldStep(t)
      PROVE  CallbackInv'
  <2>1. CallbacksFit(stack'[t])
    BY <1>1, <1>2, StackSteps, StepCallbacksFit DEF CallbackInv
  <2>2. \A u \in Threads : u = t BY DEF OneThread
  <2>. QED BY <1>1, <2>1, <2>2 DEF CallbackInv
<1>3. CASE LinkLost \/ UNCHANGED vars
  BY <1>1, <1>3 DEF LinkLost, vars, CallbackInv
<1>. QED BY <1>2, <1>3 DEF Next

\* For one thread, no yield claims the client while a message callback of that
\* thread has yet to return, at any depth of nested calls.
THEOREM NoYieldDuringCallbackCorrect ==
  ASSUME OneThread
  PROVE  Spec => NoYieldDuringCallback
<1>1. Init => CallbackInv
  BY NestInit, EmptyFits DEF Init, CallbackInv
<1>2. CallbackInv /\ [Next]_vars => CallbackInv' BY CallbackStepInv
<1>3. ASSUME CallbackInv, NEW t \in Threads, NEW u \in Threads,
             At(t, "yield", "claim")
      PROVE  ~InCallback(u)
  <2>1. u = t BY DEF OneThread
  <2>2. /\ stack[t] \in Seq(Frame) /\ Len(stack[t]) \in Nat \ {0}
        /\ Top(t) = stack[t][Len(stack[t])]
        /\ Top(t).op = "yield" /\ Top(t).pc = "claim"
    BY <1>3, TopType, ThreadFacts DEF At, Top, CallbackInv
  <2>3. ASSUME NEW i \in DOMAIN stack[t], stack[t][i].pc = "callback"
        PROVE  FALSE
    <3>1. i \in 1..Len(stack[t]) /\ Len(stack[t]) \in 1..Len(stack[t])
      BY <2>2
    <3>2. i # Len(stack[t]) BY <2>2, <2>3
    <3>3. i < Len(stack[t]) BY <3>1, <3>2
    <3>. QED BY <3>1, <3>3, <2>2, <2>3, <1>3
       DEF CallbackInv, CallbacksFit, Requests
  <2>. QED BY <2>1, <2>3 DEF InCallback
<1>4. CallbackInv => [\A t, u \in Threads :
        At(t, "yield", "claim") /\ stack'[t] = MovedTo(t, "loop")
        => ~InCallback(u)]_vars
  BY <1>3
<1>. QED BY <1>1, <1>2, <1>4, PTL DEF Spec, NoYieldDuringCallback

-----------------------------------------------------------------------------
(* The life cycle. *)

\* The disconnect handler makes no connection: yield would, when the handler
\* returns, store DISCONNECTED_ERROR over it and leave it open.
HandlerStaysOffline == HandlerCalls \cap {"connect", "reconnect"} = {}

\* What the point a thread is at says of the connection.
LinkFits(f, s, l, r) ==
  /\ f.pc = "settle" /\ r # "SUCCESS" => l = "none"
  /\ f.pc = "finish" => l = "none"
  /\ f.pc = "handler" => s \in {"DISCONNECTED_MANUALLY", "DISCONNECTED_ERROR"}

\* A client that the application parted with is in no call.
PartedAtRest ==
  parted => /\ state = "DISCONNECTED_MANUALLY" /\ link = "none"
            /\ \A t \in Threads : stack[t] = <<>>

\* The inductive invariant behind the life cycle.
LinkKnown == \A t \in Threads :
               stack[t] # <<>> => LinkFits(Top(t), state, link, rc[t])
FramesFit == \A t \in Threads : StackFits(stack[t])
LifeInv ==
  NestInv /\ OfflineIsClosed /\ PartedAtRest /\ LinkKnown /\ FramesFit

Offline == ClientState \ (Connected \cup {"CONNECTING", "DISCONNECTING"})

\* What a step of thread t does to the connection and the life cycle.
LifeStep(t) ==
  /\ OfflineIsClosed' /\ PartedAtRest' /\ LinkKnown'
  /\ [Lifecycle!Next]_(Lifecycle!vars)

\* What the invariant says of the only thread.
LEMMA LifeFacts ==
  ASSUME OneThread, LifeInv, NEW t \in Threads
  PROVE  /\ stack \in [Threads -> Seq(Frame)] /\ Nested(stack[t])
         /\ StackFits(stack[t])
         /\ state \in ClientState
         /\ parted \in BOOLEAN
         /\ stack[t] # <<>> => /\ Top(t) \in Frame
                               /\ state \in Expected(Top(t), rc[t])
                               /\ Settled(Top(t), rc[t])
                               /\ SavedFits(Top(t))
                               /\ LinkFits(Top(t), state, link, rc[t])
                               /\ parted = FALSE
         /\ state \in Offline /\ ~At(t, "yield", "destroy") => link = "none"
<1>1. stack[t] # <<>> => SavedFits(Top(t))
  BY TopType, ThreadFacts DEF StackFits, Top, LifeInv, FramesFit
<1>. QED BY <1>1, ThreadFacts
     DEF LifeInv, OfflineIsClosed, PartedAtRest, LinkKnown, FramesFit,
         OneThread, NestInv, TypeOK, Offline

\* The disconnect handler's calls are refused.
LEMMA HandlerRefused ==
  ASSUME OneThread, HandlerStaysOffline, LifeInv, NEW t \in Threads,
         CallFromHandler(t)
  PROVE  UNCHANGED <<stack, state, link, parted>>
<1>1. /\ stack \in [Threads -> Seq(Frame)] /\ stack[t] # <<>>
      /\ state \in {"DISCONNECTED_MANUALLY", "DISCONNECTED_ERROR"}
      /\ parted = FALSE
  BY LifeFacts DEF CallFromHandler, At, LinkFits
<1>2. PICK op \in HandlerCalls :
        /\ Enter(t, op, stack[t])
        /\ parted' = (parted /\ op \notin {"connect", "reconnect"})
  BY DEF CallFromHandler
<1>3. ~Accepts(op, state)
  BY <1>1, <1>2, ConstantsAssumption
  DEF HandlerStaysOffline, Accepts, ApiCalls, Requests, Connected
<1>. QED BY <1>1, <1>2, <1>3 DEF Enter, CallFromHandler

\* A step of the only thread keeps its frames fitting.
LEMMA StepStackFits ==
  ASSUME OneThread, HandlerStaysOffline, LifeInv, NEW t \in Threads,
         StackStep(t)
  PROVE  StackFits(stack'[t])
<1>1. /\ stack \in [Threads -> Seq(Frame)] /\ Nested(stack[t])
      /\ stack[t] \in Seq(Frame) /\ StackFits(stack[t])
  BY LifeFacts
<1>2. CASE stack'[t] = stack[t] BY <1>1, <1>2
<1>3. ASSUME stack[t] # <<>>, NEW pc \in Later, stack'[t] = MovedTo(t, pc)
      PROVE  StackFits(stack'[t])
  BY <1>1, <1>3, MovedToFits
<1>4. CASE stack[t] # <<>> /\ stack'[t] = Popped(t) BY <1>1, <1>4, PoppedFits
<1>5. ASSUME NEW f \in Entered, stack'[t] = Append(stack[t], f),
             stack[t] # <<>> => Top(t).pc = "callback" \/ CallFromHandler(t)
      PROVE  StackFits(stack'[t])
  <2>1. CASE CallFromHandler(t) BY <2>1, <1>1, HandlerRefused
  <2>2. CASE ~CallFromHandler(t)
    BY <2>2, <1>1, <1>5, AppendFits DEF Entered, Top
  <2>. QED BY <2>1, <2>2
<1>6. ASSUME stack[t] # <<>>, NEW pc \in Later \ Loaded, NEW f \in Entered,
             stack'[t] = Append(MovedTo(t, pc), f)
      PROVE  StackFits(stack'[t])
  <2>1. pc \in Points BY DEF Later
  <2>2. /\ MovedTo(t, pc) \in Seq(Frame)
        /\ MovedTo(t, pc)[Len(MovedTo(t, pc))] = [Top(t) EXCEPT !.pc = pc]
    BY <2>1, <1>1, <1>6, MovedToShape
  <2>3. MovedTo(t, pc)[Len(MovedTo(t, pc))].pc # "handler"
    BY <2>2, <1>6, TopType, <1>1 DEF Frame, Loaded
  <2>4. StackFits(MovedTo(t, pc)) BY <1>1, <1>6, MovedToFits
  <2>. QED BY <2>2, <2>3, <2>4, <1>6, AppendFits DEF Entered
<1>. QED BY <1>2, <1>3, <1>4, <1>5, <1>6 DEF StackStep

\* Unless the step itself leads there, the thread's next point says nothing of
\* the connection.
LEMMA StepTop ==
  ASSUME OneThread, LifeInv, NEW t \in Threads, StackStep(t), ~LoadedStep(t),
         ~CallFromHandler(t), stack'[t] # <<>>
  PROVE  stack'[t][Len(stack'[t])].pc \notin Loaded
<1>. DEFINE n == Len(stack[t])
            s == stack'[t]
<1>1. /\ stack \in [Threads -> Seq(Frame)] /\ Nested(stack[t])
      /\ stack[t] \in Seq(Frame) /\ StackFits(stack[t])
  BY LifeFacts
<1>2. CASE s = stack[t] /\ Top(t).pc \notin Loaded BY <1>2 DEF Top
<1>3. ASSUME stack[t] # <<>>, NEW pc \in Later, pc \in Loaded => LoadedStep(t),
             s = MovedTo(t, pc)
      PROVE  s[Len(s)].pc \notin Loaded
  <2>1. s[Len(s)] = [Top(t) EXCEPT !.pc = pc] /\ Top(t) \in Frame
    BY <1>1, <1>3, MovedToShape, TopType DEF Later
  <2>. QED BY <2>1, <1>3 DEF Frame
<1>4. CASE stack[t] # <<>> /\ s = Popped(t)
  <2>1. n \in Nat \ {0} BY <1>1, <1>4, TopType
  <2>2. Len(s) = n - 1 /\ n > 1 /\ \A i \in 1..(n - 1) : s[i] = stack[t][i]
    BY <1>1, <1>4, PoppedNested
  <2>. HIDE DEF n, s
  <2>3. n - 1 \in 1..(n - 1) BY <2>1, <2>2
  <2>4. s[Len(s)] = stack[t][n - 1] BY <2>2, <2>3
  <2>5. Linked(stack[t][n - 1], stack[t][(n - 1) + 1])
    BY <2>3, <1>1 DEF Nested, n
  <2>6. stack[t][n - 1].pc # "handler" BY <2>3, <1>1 DEF StackFits, n
  <2>7. s[Len(s)].pc \notin Loaded BY <2>4, <2>5, <2>6 DEF Linked, Loaded
  <2>. QED BY <2>7 DEF s
<1>5. ASSUME NEW q \in Seq(Frame), NEW f \in Entered, s = Append(q, f)
      PROVE  s[Len(s)].pc \notin Loaded
  <2>1. s[Len(s)] = f BY <1>5
  <2>. QED BY <2>1 DEF Entered, Loaded
<1>6. \A pc \in Later : stack[t] # <<>> => MovedTo(t, pc) \in Seq(Frame)
  BY <1>1, MovedToShape DEF Later
<1>. QED BY <1>1, <1>2, <1>3, <1>4, <1>5, <1>6 DEF StackStep

\* The changes of the client state by which the client stays as open or as
\* closed as it was.
StateMove(t) ==
  \/ state' = state /\ ~At(t, "yield", "destroy")
  \/ state \in Connected /\ state' \in Connected \cup {"DISCONNECTING"}
  \/ state = "DISCONNECTING" /\ state' \in Connected
  \/ state \in Resting \ {"IDLE"} /\ state' = "CONNECTING"
  \/ state = "CONNECTING" /\ state' = "IDLE"
  \/ state = "CONNECTING" /\ state' = "DISCONNECTED_ERROR" /\ link = "none"
  \/ /\ state \in {"DISCONNECTED_ERROR", "DISCONNECTED_MANUALLY"}
     /\ state' = "DISCONNECTED_ERROR" /\ ~At(t, "yield", "destroy")
  \/ /\ state = "DISCONNECTED_ERROR" /\ state' = "PENDING_RECONNECT"
     /\ ~At(t, "yield", "destroy")

\* The life cycle allows all of them.
LEMMA MoveIsLifecycle ==
  ASSUME NEW t \in Threads, StateMove(t), parted = FALSE, parted' = parted
  PROVE  [Lifecycle!Next]_(Lifecycle!vars)
<1>. USE DEF Lifecycle!Next, Lifecycle!vars, Phase, Connected
<1>1. CASE \/ state' = state
           \/ state \in Connected /\ state' \in Connected
  BY <1>1
<1>2. CASE state \in Connected /\ state' = "DISCONNECTING"
  BY <1>2 DEF Lifecycle!Close
<1>3. CASE state = "DISCONNECTING" /\ state' \in Connected
  BY <1>3 DEF Lifecycle!Reopen
<1>4. CASE state \in Resting \ {"IDLE"} /\ state' = "CONNECTING"
  BY <1>4 DEF Lifecycle!Begin, Resting
<1>5. CASE state = "CONNECTING" /\ state' = "IDLE" BY <1>5 DEF Lifecycle!Up
<1>6. CASE state = "CONNECTING" /\ state' = "DISCONNECTED_ERROR"
  BY <1>6 DEF Lifecycle!Fail
<1>7. CASE /\ state \in {"DISCONNECTED_ERROR", "DISCONNECTED_MANUALLY"}
           /\ state' = "DISCONNECTED_ERROR"
  BY <1>7 DEF Lifecycle!Lose
<1>8. CASE state = "DISCONNECTED_ERROR" /\ state' = "PENDING_RECONNECT"
  BY <1>8 DEF Lifecycle!Retry
<1>. QED
  BY <1>1, <1>2, <1>3, <1>4, <1>5, <1>6, <1>7, <1>8 DEF StateMove

\* A step that leaves the connection as it is.
LEMMA QuietStep ==
  ASSUME OneThread, LifeInv, NEW t \in Threads, stack[t] # <<>>, StackStep(t),
         ~LoadedStep(t), ~CallFromHandler(t), UNCHANGED <<link, parted>>,
         StateMove(t)
  PROVE  LifeStep(t)
<1>1. /\ state \in ClientState /\ parted = FALSE
      /\ state \in Offline /\ ~At(t, "yield", "destroy") => link = "none"
  BY LifeFacts
<1>2. \A u \in Threads : u = t BY DEF OneThread
<1>3. stack'[t] # <<>> => stack'[t][Len(stack'[t])].pc \notin Loaded
  BY StepTop
<1>4. LinkKnown' BY <1>2, <1>3 DEF LinkKnown, LinkFits, Loaded, Top
<1>5. ~At(t, "yield", "destroy")' BY <1>3 DEF At, Top, Loaded
<1>6. state' \in Offline => link = "none"
  BY <1>1 DEF StateMove, Offline, Connected, Resting
<1>7. OfflineIsClosed'
  <2>1. state' \in ClientState BY <1>1 DEF StateMove, ClientState, Connected
  <2>. QED BY <2>1, <1>6 DEF OfflineIsClosed, Offline
<1>. QED BY <1>1, <1>4, <1>7, MoveIsLifecycle DEF LifeStep, PartedAtRest

\* The top of the stack after a step within a call.
LEMMA GotoTop ==
  ASSUME OneThread, LifeInv, NEW t \in Threads, stack[t] # <<>>,
         NEW pc \in Points, Goto(t, pc)
  PROVE  /\ stack'[t] # <<>> /\ Top(t)' = [Top(t) EXCEPT !.pc = pc]
         /\ Top(t)'.pc = pc /\ Top(t)'.op = Top(t).op
<1>1. /\ stack \in [Threads -> Seq(Frame)] /\ Top(t) \in Frame
      /\ stack'[t] = MovedTo(t, pc)
  BY LifeFacts DEF Goto
<1>2. /\ stack'[t] # <<>> /\ Len(stack'[t]) = Len(stack[t])
      /\ stack'[t][Len(stack[t])] = [Top(t) EXCEPT !.pc = pc]
  BY <1>1, MovedToShape
<1>3. Top(t)' = [Top(t) EXCEPT !.pc = pc] BY <1>2 DEF Top
<1>. QED BY <1>1, <1>2, <1>3 DEF Frame

-----------------------------------------------------------------------------
(* The steps. *)

\* The application calls.
LEMMA CallLives ==
  ASSUME OneThread, LifeInv, NEW t \in Threads, Call(t)
  PROVE  LifeStep(t)
<1>1. /\ stack \in [Threads -> Seq(Frame)] /\ stack[t] = <<>>
      /\ state \in ClientState /\ parted \in BOOLEAN
      /\ state \in Offline => link = "none"
      /\ UNCHANGED <<state, link>>
  BY LifeFacts DEF Call, At
<1>2. \A u \in Threads : u = t BY DEF OneThread
<1>3. PICK op \in ApiCalls :
        /\ Enter(t, op, <<>>)
        /\ parted' = (parted /\ op \notin {"connect", "reconnect"})
  BY ConstantsAssumption DEF Call
<1>4. \/ stack'[t] = <<>>
      \/ Accepts(op, state) /\ \E f \in Entered : stack'[t] = Append(<<>>, f)
  BY <1>1, <1>3, EnterStack DEF Enter, LifeInv
<1>5. stack'[t] # <<>> => stack'[t][Len(stack'[t])].pc \notin Loaded
  <2>1. \A f \in Entered : Append(<<>>, f)[Len(Append(<<>>, f))] = f OBVIOUS
  <2>. QED BY <1>4, <2>1 DEF Entered, Loaded
<1>6. LinkKnown' BY <1>2, <1>5 DEF LinkKnown, LinkFits, Loaded, Top
<1>7. OfflineIsClosed' BY <1>1 DEF OfflineIsClosed, Offline
<1>8. PartedAtRest'
  <2>. SUFFICES ASSUME parted' PROVE PartedAtRest' BY DEF PartedAtRest
  <2>1. parted /\ op \notin {"connect", "reconnect"} BY <1>1, <1>3
  <2>2. state = "DISCONNECTED_MANUALLY" /\ link = "none"
    BY <2>1 DEF LifeInv, PartedAtRest
  <2>3. ~Accepts(op, state)
    BY <2>1, <2>2 DEF Accepts, ApiCalls, Requests, Connected
  <2>. QED BY <1>1, <1>2, <1>4, <2>2, <2>3 DEF PartedAtRest
<1>9. [Lifecycle!Next]_(Lifecycle!vars)
  BY <1>1, <1>3 DEF Lifecycle!Next, Lifecycle!vars, Lifecycle!Ask, Phase
<1>. QED BY <1>6, <1>7, <1>8, <1>9 DEF LifeStep

\* The requests.
LEMMA RequestLives ==
  ASSUME OneThread, LifeInv, NEW t \in Threads, RequestStep(t)
  PROVE  LifeStep(t)
<1>. USE DEF At, AtPoint
<1>1. stack[t] # <<>> /\ UNCHANGED <<link, parted>>
  BY DEF RequestStep, Claim, UndoUnsubscribe, SendRequest, AwaitAck,
     ReadPingResp, ReadPublish, Release
<1>2. /\ state \in Expected(Top(t), rc[t]) /\ Settled(Top(t), rc[t])
      /\ SavedFits(Top(t))
  BY <1>1, LifeFacts
<1>3. \A e, n, r : CompareAndSet(t, e, n, r) =>
        state' = state \/ (state = e /\ state' = n)
  BY CasAlone
<1>4. \/ Top(t).pc \in {"claim", "undo", "send", "wait", "release"}
      \/ Top(t).op = "yield" /\ Top(t).pc = "read"
  BY DEF RequestStep, Claim, UndoUnsubscribe, SendRequest, AwaitAck,
     ReadPingResp, ReadPublish, Release
<1>5. ~CallFromHandler(t) BY <1>4 DEF CallFromHandler
<1>6. ~LoadedStep(t)
  <2>1. Top(t).op # "disconnect" \/ Top(t).pc # "send"
    <3>1. CASE Top(t).pc = "send"
      BY <3>1 DEF RequestStep, Claim, UndoUnsubscribe, SendRequest, AwaitAck,
        ReadPingResp, ReadPublish, Release, Requests
    <3>. QED BY <3>1
  <2>. QED BY <1>4, <2>1
     DEF LoadedStep, Handshake, SendDisconnect, YieldForceDown, YieldDestroy
<1>7. StateMove(t)
  <2>1. CASE Claim(t)
    BY <2>1, <1>2, <1>3
    DEF Claim, StateMove, SavedFits, Held, Requests, Connected
  <2>2. CASE UndoUnsubscribe(t) BY <2>2, <1>2 DEF UndoUnsubscribe, Expected
  <2>3. CASE Release(t)
    BY <2>3, <1>2, <1>3
    DEF Release, StateMove, SavedFits, Settled, Expected, Held, Requests,
        Connected
  <2>4. CASE SendRequest(t) \/ AwaitAck(t) \/ ReadPingResp(t) \/ ReadPublish(t)
    BY <2>4, <1>4
    DEF SendRequest, AwaitAck, ReadPingResp, ReadPublish, StateMove
  <2>. QED BY <2>1, <2>2, <2>3, <2>4 DEF RequestStep
<1>. QED BY <1>1, <1>5, <1>6, <1>7, StackSteps, QuietStep DEF LifeInv

\* The message callbacks.
LEMMA CallbackLives ==
  ASSUME OneThread, LifeInv, NEW t \in Threads, CallbackStep(t)
  PROVE  LifeStep(t)
<1>. USE DEF At
<1>1. /\ stack[t] # <<>> /\ link' = link /\ Top(t).op = "deliver"
      /\ Top(t).pc \in {"claim", "callback"}
  BY DEF CallbackStep, BeginCallback, CallFromCallback, EndCallback
<1>2. /\ state \in Expected(Top(t), rc[t]) /\ SavedFits(Top(t))
      /\ parted = FALSE
  BY <1>1, LifeFacts
<1>3. \A e, n, r : CompareAndSet(t, e, n, r) =>
        state' = state \/ (state = e /\ state' = n)
  BY CasAlone
<1>4. parted' = parted
  BY <1>2 DEF CallbackStep, BeginCallback, CallFromCallback, EndCallback
<1>5. ~CallFromHandler(t) /\ ~LoadedStep(t)
  BY <1>1 DEF CallFromHandler, LoadedStep, Handshake, SendDisconnect,
     YieldForceDown, YieldDestroy
<1>6. StateMove(t)
  <2>1. CASE BeginCallback(t) \/ EndCallback(t)
    BY <2>1, <1>1, <1>2, <1>3
    DEF BeginCallback, EndCallback, StateMove, SavedFits, Held, Connected
  <2>2. CASE CallFromCallback(t)
    BY <2>2, <1>1 DEF CallFromCallback, StateMove
  <2>. QED BY <2>1, <2>2 DEF CallbackStep
<1>. QED BY <1>1, <1>4, <1>5, <1>6, StackSteps, QuietStep DEF LifeInv

\* connect, disconnect and reconnect.
LEMMA ConnectLives ==
  ASSUME OneThread, LifeInv, NEW t \in Threads, ConnectStep(t)
  PROVE  LifeStep(t)
<1>. USE DEF At
<1>1. /\ stack[t] # <<>> /\ Top(t).op \in {"connect", "disconnect", "reconnect"}
  BY DEF ConnectStep, BeginConnect, Handshake, SettleConnect, SendDisconnect,
     FinishDisconnect, RestoreAfterDisconnect, ReconnectConnect,
     ReconnectConnected, ReconnectPend, ReconnectResubscribed
<1>2. /\ stack \in [Threads -> Seq(Frame)]
      /\ state \in Expected(Top(t), rc[t]) /\ SavedFits(Top(t))
      /\ LinkFits(Top(t), state, link, rc[t])
      /\ parted = FALSE /\ ~At(t, "yield", "destroy")
  BY <1>1, LifeFacts
<1>3. \A e, n, r : CompareAndSet(t, e, n, r) =>
        \/ r = "SUCCESS" /\ state = e /\ state' = n
        \/ r = "UNEXPECTED" /\ state # e /\ state' = state
  BY CasAlone
<1>4. \A u \in Threads : u = t BY DEF OneThread
<1>5. ~CallFromHandler(t) /\ ~YieldForceDown(t) /\ ~YieldDestroy(t)
  BY <1>1 DEF CallFromHandler, YieldForceDown, YieldDestroy
<1>6. ~LoadedStep(t) /\ UNCHANGED <<link, parted>> /\ StateMove(t)
      => LifeStep(t)
  BY <1>1, <1>5, StackSteps, QuietStep DEF LifeInv
<1>7. CASE Handshake(t)
  <2>1. /\ state = "CONNECTING" /\ state' = state /\ Goto(t, "settle")
        /\ parted' = parted
    BY <1>7, <1>2 DEF Handshake, Expected, Held
  <2>2. /\ stack'[t] # <<>> /\ Top(t)'.pc = "settle"
    BY <2>1, <1>1, GotoTop DEF Points
  <2>3. rc'[t] = "SUCCESS" \/ link' = "none"
    BY <1>7 DEF Handshake, Code, LifeInv, NestInv, TypeOK
  <2>4. LinkKnown' BY <1>4, <2>2, <2>3 DEF LinkKnown, LinkFits
  <2>. QED BY <1>2, <2>1, <2>4
    DEF LifeStep, OfflineIsClosed, PartedAtRest, Lifecycle!vars, Phase
<1>8. CASE SendDisconnect(t)
  <2>1. PICK pc \in {"finish", "restore"} :
          /\ state = "DISCONNECTING" /\ state' = state /\ parted' = parted
          /\ Goto(t, pc) /\ (pc = "finish" => link' = "none")
    BY <1>8, <1>2 DEF SendDisconnect, Expected, Held
  <2>2. stack'[t] # <<>> /\ Top(t)'.pc = pc
    BY <2>1, <1>1, GotoTop DEF Points
  <2>3. LinkKnown' BY <1>4, <2>1, <2>2 DEF LinkKnown, LinkFits
  <2>. QED BY <1>2, <2>1, <2>3
    DEF LifeStep, OfflineIsClosed, PartedAtRest, Lifecycle!vars, Phase
<1>9. CASE FinishDisconnect(t)
  <2>. DEFINE n == Len(stack[t])
  <2>1. /\ state = "DISCONNECTING" /\ state' = "DISCONNECTED_MANUALLY"
        /\ link = "none" /\ link' = link /\ Return(t, "SUCCESS")
        /\ parted' = (parted \/ ~InYield(t))
        /\ Top(t).op = "disconnect" /\ Top(t).pc = "finish"
    BY <1>9, <1>2 DEF FinishDisconnect, Expected, Held, LinkFits
  <2>2. StackStep(t) /\ ~LoadedStep(t)
    BY <1>5, <2>1, StackSteps
    DEF LifeInv, ConnectStep, LoadedStep, Handshake, SendDisconnect
  <2>3. stack'[t] # <<>> => stack'[t][Len(stack'[t])].pc \notin Loaded
    BY <2>2, <1>5, StepTop
  <2>4. LinkKnown' BY <1>4, <2>3 DEF LinkKnown, LinkFits, Loaded, Top
  <2>5. OfflineIsClosed' BY <2>1 DEF OfflineIsClosed
  <2>6. ~InYield(t) => stack'[t] = <<>>
    <3>1. /\ Nested(stack[t]) /\ StackFits(stack[t]) /\ stack[t] \in Seq(Frame)
          /\ n \in Nat \ {0} /\ stack'[t] = Popped(t) /\ Top(t) = stack[t][n]
      BY <1>1, <1>2, <2>1, LifeFacts, TopType DEF Return, Top
    <3>2. stack'[t] # <<>> <=> n > 1 BY <3>1, <1>1, <1>2, PoppedNested
    <3>3. ASSUME n > 1 PROVE InYield(t)
      <4>. HIDE DEF n
      <4>1. n - 1 \in 1..(n - 1) /\ (n - 1) + 1 = n /\ n - 1 \in 1..n
        BY <3>1, <3>3
      <4>. USE DEF n
      <4>2. Linked(stack[t][n - 1], Top(t)) BY <4>1, <3>1 DEF Nested
      <4>3. stack[t][n - 1].pc # "handler" BY <4>1, <3>1 DEF StackFits
      <4>4. stack[t][n - 1].pc = "dropped"
        BY <4>2, <4>3, <2>1 DEF Linked, Requests
      <4>. QED BY <3>1, <4>1, <4>4 DEF InYield
    <3>. QED BY <3>1, <3>2, <3>3
  <2>7. PartedAtRest' BY <1>2, <1>4, <2>1, <2>6 DEF PartedAtRest
  <2>8. Lifecycle!Closed
    BY <1>2, <2>1 DEF Lifecycle!Closed, Phase, Connected, InYield
  <2>. QED BY <2>4, <2>5, <2>7, <2>8 DEF LifeStep, Lifecycle!Next
<1>10. CASE BeginConnect(t)
  BY <1>10, <1>2, <1>3, <1>6
  DEF BeginConnect, Expected, SavedFits, StateMove, LoadedStep, YieldForceDown,
      YieldDestroy, Handshake, SendDisconnect
<1>11. CASE SettleConnect(t)
  BY <1>11, <1>2, <1>3, <1>6
  DEF SettleConnect, Expected, Held, LinkFits, StateMove, LoadedStep, Handshake,
      SendDisconnect, YieldForceDown, YieldDestroy
<1>12. CASE RestoreAfterDisconnect(t)
  BY <1>12, <1>2, <1>6
  DEF RestoreAfterDisconnect, Expected, Held, SavedFits, StateMove, LoadedStep,
      Handshake, SendDisconnect, YieldForceDown, YieldDestroy
<1>13. CASE \/ ReconnectConnect(t) \/ ReconnectConnected(t)
            \/ ReconnectResubscribed(t)
  BY <1>13, <1>2, <1>6
  DEF ReconnectConnect, ReconnectConnected, ReconnectResubscribed, StateMove,
      LoadedStep, Handshake, SendDisconnect, YieldForceDown, YieldDestroy
<1>14. CASE ReconnectPend(t)
  BY <1>14, <1>2, <1>3, <1>6
  DEF ReconnectPend, StateMove, LoadedStep, Handshake, SendDisconnect,
      YieldForceDown, YieldDestroy
<1>. QED BY <1>7, <1>8, <1>9, <1>10, <1>11, <1>12, <1>13, <1>14 DEF ConnectStep

\* yield.
LEMMA YieldLives ==
  ASSUME OneThread, HandlerStaysOffline, LifeInv, NEW t \in Threads,
         YieldStep(t)
  PROVE  LifeStep(t)
<1>. USE DEF At
<1>1. stack[t] # <<>> /\ Top(t).op = "yield"
  BY DEF YieldStep, YieldLoop, YieldReconnected, YieldReclaim, YieldRead,
     YieldDelivered, YieldKeepAlive, YieldDrop, YieldForceDown, YieldDestroy,
     CallFromHandler, YieldDisconnected, YieldPend, YieldCheck, YieldExit
<1>2. /\ stack \in [Threads -> Seq(Frame)]
      /\ state \in Expected(Top(t), rc[t])
      /\ LinkFits(Top(t), state, link, rc[t])
      /\ parted = FALSE
  BY <1>1, LifeFacts
<1>3. \A e, n, r : CompareAndSet(t, e, n, r) =>
        \/ r = "SUCCESS" /\ state = e /\ state' = n
        \/ r = "UNEXPECTED" /\ state # e /\ state' = state
  BY CasAlone
<1>4. \A u \in Threads : u = t BY DEF OneThread
<1>5. ~Handshake(t) /\ ~SendDisconnect(t)
  BY <1>1 DEF Handshake, SendDisconnect
<1>6. CASE CallFromHandler(t)
  <2>1. UNCHANGED <<stack, state, link, parted>> BY <1>6, HandlerRefused
  <2>2. LinkKnown'
    BY <1>2, <1>4, <1>6, <2>1 DEF CallFromHandler, LinkKnown, LinkFits, Top
  <2>. QED BY <2>1, <2>2
    DEF LifeStep, LifeInv, OfflineIsClosed, PartedAtRest, Top, Lifecycle!vars,
        Phase
<1>7. CASE YieldForceDown(t)
  <2>1. CASE rc[t] = "SUCCESS" /\ Goto(t, "handler") /\ UNCHANGED state
    <3>1. state = "DISCONNECTED_MANUALLY" /\ UNCHANGED <<link, parted>>
      BY <1>2, <1>7, <2>1 DEF YieldForceDown, Expected
    <3>2. stack'[t] # <<>> /\ Top(t)'.pc = "handler"
      BY <2>1, <1>1, GotoTop DEF Points
    <3>3. link = "none"
      BY <1>2, <1>4, <1>7, <3>1
      DEF YieldForceDown, LifeInv, OfflineIsClosed, Connected
    <3>4. LinkKnown' BY <1>4, <2>1, <3>1, <3>2 DEF LinkKnown, LinkFits
    <3>. QED BY <1>2, <2>1, <3>1, <3>3, <3>4
      DEF LifeStep, OfflineIsClosed, PartedAtRest, Lifecycle!vars, Phase
  <2>2. CASE rc[t] # "SUCCESS" /\ Goto(t, "destroy")
             /\ state' = "DISCONNECTED_ERROR"
    <3>1. state \in {"IDLE", "YIELD"} /\ UNCHANGED <<link, parted>>
      BY <1>2, <1>7, <2>2 DEF YieldForceDown, Expected
    <3>2. /\ stack'[t] # <<>> /\ Top(t)'.pc = "destroy"
          /\ Top(t)'.op = "yield"
      BY <2>2, <1>1, GotoTop DEF Points
    <3>3. LinkKnown' BY <1>4, <3>2 DEF LinkKnown, LinkFits
    <3>4. OfflineIsClosed' BY <3>2 DEF OfflineIsClosed
    <3>5. Lifecycle!Lose
      BY <1>2, <2>2, <3>1 DEF Lifecycle!Lose, Phase, Connected
    <3>. QED BY <1>2, <3>1, <3>3, <3>4, <3>5
      DEF LifeStep, PartedAtRest, Lifecycle!Next
  <2>. QED BY <1>7, <2>1, <2>2 DEF YieldForceDown
<1>8. CASE YieldDestroy(t)
  <2>1. /\ state = "DISCONNECTED_ERROR" /\ link' = "none"
        /\ Goto(t, "handler") /\ UNCHANGED <<state, parted>>
    BY <1>2, <1>8 DEF YieldDestroy, Expected
  <2>2. stack'[t] # <<>> /\ Top(t)'.pc = "handler"
    BY <2>1, <1>1, GotoTop DEF Points
  <2>3. LinkKnown' BY <1>4, <2>1, <2>2 DEF LinkKnown, LinkFits
  <2>. QED BY <1>2, <2>1, <2>3
    DEF LifeStep, OfflineIsClosed, PartedAtRest, Lifecycle!vars, Phase
<1>9. ~LoadedStep(t) /\ ~CallFromHandler(t) /\ UNCHANGED <<link, parted>>
      /\ StateMove(t)
      => LifeStep(t)
  BY <1>1, StackSteps, QuietStep DEF LifeInv
<1>10. ~YieldForceDown(t) /\ ~YieldDestroy(t) => ~LoadedStep(t)
  BY <1>5 DEF LoadedStep
<1>11. CASE \/ YieldLoop(t) \/ YieldReconnected(t) \/ YieldRead(t)
            \/ YieldDelivered(t) \/ YieldKeepAlive(t) \/ YieldDrop(t)
            \/ YieldCheck(t)
  <2>1. /\ Top(t).pc \in {"loop", "reconnected", "read", "delivered",
                          "keepalive", "drop", "check"}
        /\ UNCHANGED <<state, link, parted>>
    BY <1>11 DEF YieldLoop, YieldReconnected, YieldRead, YieldDelivered,
       YieldKeepAlive, YieldDrop, YieldCheck
  <2>. QED BY <2>1, <1>9, <1>10
    DEF StateMove, YieldForceDown, YieldDestroy, CallFromHandler
<1>12. CASE YieldReclaim(t) \/ YieldExit(t) \/ YieldPend(t)
  <2>1. /\ Top(t).pc \in {"reclaim", "exit", "pend"}
        /\ UNCHANGED <<link, parted>>
    BY <1>12 DEF YieldReclaim, YieldExit, YieldPend
  <2>2. \/ state' = state
        \/ state \in {"IDLE", "YIELD"} /\ state' \in {"IDLE", "YIELD"}
        \/ state = "DISCONNECTED_ERROR" /\ state' = "PENDING_RECONNECT"
    BY <1>3, <1>12 DEF YieldReclaim, YieldExit, YieldPend
  <2>. QED BY <2>1, <2>2, <1>9, <1>10
    DEF StateMove, Connected, YieldForceDown, YieldDestroy, CallFromHandler
<1>13. CASE YieldDisconnected(t) /\ ~CallFromHandler(t)
  <2>1. /\ Top(t).pc = "handler" /\ UNCHANGED <<link, parted>>
        /\ state \in {"DISCONNECTED_ERROR", "DISCONNECTED_MANUALLY"}
        /\ state' = "DISCONNECTED_ERROR"
    BY <1>2, <1>13 DEF YieldDisconnected, LinkFits
  <2>. QED BY <2>1, <1>13, <1>9, <1>10
    DEF StateMove, YieldForceDown, YieldDestroy
<1>. QED BY <1>6, <1>7, <1>8, <1>11, <1>12, <1>13 DEF YieldStep

-----------------------------------------------------------------------------
(* The theorems. *)

LEMMA LifeInit == Init => LifeInv
<1>. SUFFICES ASSUME Init PROVE LifeInv OBVIOUS
<1>1. NestInv BY NestInit
<1>. QED BY <1>1, EmptyFits
  DEF Init, LifeInv, OfflineIsClosed, PartedAtRest, LinkKnown, FramesFit

LEMMA LifeStepInv ==
  ASSUME OneThread, HandlerStaysOffline, LifeInv, [Next]_vars
  PROVE  LifeInv' /\ [Lifecycle!Next]_(Lifecycle!vars)
<1>1. NestInv' BY NestStep DEF LifeInv
<1>2. ASSUME NEW t \in Threads,
             \/ Call(t) \/ RequestStep(t) \/ CallbackStep(t) \/ ConnectStep(t)
             \/ YieldStep(t)
      PROVE  LifeInv' /\ [Lifecycle!Next]_(Lifecycle!vars)
  <2>1. LifeStep(t)
    BY <1>2, CallLives, RequestLives, CallbackLives, ConnectLives, YieldLives
  <2>2. StackFits(stack'[t]) BY <1>2, StackSteps, StepStackFits DEF LifeInv
  <2>3. \A u \in Threads : u = t BY DEF OneThread
  <2>. QED BY <1>1, <2>1, <2>2, <2>3 DEF LifeStep, LifeInv, FramesFit
<1>3. CASE LinkLost
  <2>1. UNCHANGED <<state, stack, rc, parted>> /\ link # "none"
    BY <1>3 DEF LinkLost
  <2>. QED BY <1>1, <2>1
    DEF LifeInv, OfflineIsClosed, PartedAtRest, LinkKnown, LinkFits, FramesFit,
        At, Top, Lifecycle!vars, Phase
<1>4. CASE UNCHANGED vars
  BY <1>1, <1>4
  DEF vars, LifeInv, OfflineIsClosed, PartedAtRest, LinkKnown, FramesFit, At,
      Top, Lifecycle!vars, Phase
<1>. QED BY <1>2, <1>3, <1>4 DEF Next

\* An offline client holds no connection, whatever one thread's calls and its
\* message callbacks do.
THEOREM OfflineIsClosedCorrect ==
  ASSUME OneThread, HandlerStaysOffline
  PROVE  Spec => []OfflineIsClosed
<1>1. Init => LifeInv BY LifeInit
<1>2. LifeInv /\ [Next]_vars => LifeInv' BY LifeStepInv
<1>3. LifeInv => OfflineIsClosed BY DEF LifeInv
<1>. QED BY <1>1, <1>2, <1>3, PTL DEF Spec

\* A client the application disconnected stays disconnected, and closed, until
\* the application connects it again.
THEOREM ManualDisconnectHoldsCorrect ==
  ASSUME OneThread, HandlerStaysOffline
  PROVE  Spec => []ManualDisconnectHolds
<1>1. Init => LifeInv BY LifeInit
<1>2. LifeInv /\ [Next]_vars => LifeInv' BY LifeStepInv
<1>3. LifeInv => ManualDisconnectHolds
  BY DEF LifeInv, PartedAtRest, ManualDisconnectHolds
<1>. QED BY <1>1, <1>2, <1>3, PTL DEF Spec

\* The client implements the life cycle promised to the application.
THEOREM LifecycleCorrect ==
  ASSUME OneThread, HandlerStaysOffline
  PROVE  Spec => LifecycleSpec
<1>1. Init => LifeInv BY LifeInit
<1>2. Init => Lifecycle!Init BY DEF Init, Lifecycle!Init, Phase, Connected
<1>3. LifeInv /\ [Next]_vars => LifeInv' /\ [Lifecycle!Next]_(Lifecycle!vars)
  BY LifeStepInv
<1>. QED BY <1>1, <1>2, <1>3, PTL DEF Spec, LifecycleSpec, Lifecycle!Spec
=============================================================================
