----------------------------- MODULE MqttClient -----------------------------
(***************************************************************************)
(* The life cycle of the AWS IoT MQTT client (sdk/external/aws_iot/src):   *)
(* the field clientStatus.clientState, the compare-and-set with which the  *)
(* API calls claim and release it, and the calls themselves, run by any    *)
(* set of threads and nested in one another by message callbacks.          *)
(*                                                                         *)
(* Every thread has a stack of frames, one per active call.  A frame       *)
(* records the call, the point it has reached, and the client state it     *)
(* read on entry and means to put back.  One action is the code between    *)
(* two accesses to the shared client state or the network.  Entering a     *)
(* call reads the state once: the code reads it twice in a row (connected? *)
(* then get state), and a change in between only trades one error code for *)
(* another.  Timers are abstract: wherever the code asks a timer, both     *)
(* answers are possible.                                                   *)
(***************************************************************************)
EXTENDS Integers, Sequences

CONSTANTS
  Threads,        \* the threads that share one AWS_IoT_Client
  MayCall,        \* MayCall[t]: the API calls thread t makes
  CallbackCalls,  \* the API calls that message callbacks make
  HandlerCalls,   \* the API calls that the disconnect handler makes
  AutoReconnect,  \* clientStatus.isAutoReconnectEnabled
  BlockOnLock,    \* clientData.isBlockOnThreadLockEnabled
  SslReadErrors,  \* the port's read may return NETWORK_SSL_READ_*
  MaxDepth        \* bound on the nesting of calls in one thread

Requests == {"publish", "subscribe", "unsubscribe"}
ApiCalls == Requests \cup
  {"connect", "disconnect", "yield", "reconnect", "resubscribe"}

ASSUME ConstantsAssumption ==
  /\ MayCall \in [Threads -> SUBSET ApiCalls]
  /\ CallbackCalls \subseteq ApiCalls
  /\ HandlerCalls \subseteq ApiCalls
  /\ AutoReconnect \in BOOLEAN
  /\ BlockOnLock \in BOOLEAN
  /\ SslReadErrors \in BOOLEAN
  /\ MaxDepth \in Nat

\* ClientState, without INVALID: a client that failed to initialise is not used.
Connected == {"IDLE", "YIELD", "PUBLISH", "SUBSCRIBE", "UNSUBSCRIBE",
              "RESUBSCRIBE", "WAIT_FOR_CB_RETURN"}
ClientState == Connected \cup
  {"INITIALIZED", "CONNECTING", "DISCONNECTING", "DISCONNECTED_ERROR",
   "DISCONNECTED_MANUALLY", "PENDING_RECONNECT"}

CasResults == {"SUCCESS", "UNEXPECTED", "LOCK"}
ReturnCodes == CasResults \cup
  {"NONE", "FAILURE", "NOT_IDLE", "DISCONNECTED", "MANUALLY", "ATTEMPTING",
   "RECONNECTED", "ALREADY"}

\* The state a call holds while it runs.
Held(op) ==
  CASE op = "publish"     -> "PUBLISH"
    [] op = "subscribe"   -> "SUBSCRIBE"
    [] op = "unsubscribe" -> "UNSUBSCRIBE"
    [] op = "resubscribe" -> "RESUBSCRIBE"
    [] op = "yield"       -> "YIELD"
    [] op = "deliver"     -> "WAIT_FOR_CB_RETURN"
    [] op = "connect"     -> "CONNECTING"
    [] op = "disconnect"  -> "DISCONNECTING"
    [] OTHER              -> "IDLE"

Points == {"claim", "undo", "send", "wait", "release", "callback", "handshake",
           "settle", "finish", "restore", "connect", "connected", "pend",
           "resubscribed", "loop", "reconnected", "reclaim", "read",
           "delivered", "keepalive", "drop", "dropped", "destroy", "handler",
           "check", "exit"}
Frame == [op : ApiCalls \cup {"deliver"}, pc : Points, saved : ClientState]

VARIABLES
  state,       \* clientStatus.clientState
  stack,       \* stack[t]: the calls thread t is in, outermost first
  rc,          \* rc[t]: the return code thread t computed last
  link,        \* the connection: "none" (closed), "up", "down" (peer lost)
  pingOut,     \* clientStatus.isPingOutstanding
  subscribed,  \* a SUBSCRIBE was sent, so the broker may send messages
  parted       \* history: the application's last word was to disconnect

vars == <<state, stack, rc, link, pingOut, subscribed, parted>>

TypeOK ==
  /\ state \in ClientState
  /\ stack \in [Threads -> Seq(Frame)]
  /\ rc \in [Threads -> ReturnCodes]
  /\ link \in {"none", "up", "down"}
  /\ pingOut \in BOOLEAN
  /\ subscribed \in BOOLEAN
  /\ parted \in BOOLEAN

Init ==
  /\ state = "INITIALIZED"
  /\ stack = [t \in Threads |-> <<>>]
  /\ rc = [t \in Threads |-> "NONE"]
  /\ link = "none"
  /\ pingOut = FALSE
  /\ subscribed = FALSE
  /\ parted = FALSE

-----------------------------------------------------------------------------
(* Frames. *)

Top(t) == stack[t][Len(stack[t])]
At(t, op, pc) == stack[t] # <<>> /\ Top(t).op = op /\ Top(t).pc = pc
AtPoint(t, pc) == stack[t] # <<>> /\ Top(t).pc = pc

MovedTo(t, pc) == [stack[t] EXCEPT ![Len(stack[t])].pc = pc]
Popped(t) == SubSeq(stack[t], 1, Len(stack[t]) - 1)

Goto(t, pc) == stack' = [stack EXCEPT ![t] = MovedTo(t, pc)]
Code(t, r) == rc' = [rc EXCEPT ![t] = r]
Return(t, r) == stack' = [stack EXCEPT ![t] = Popped(t)] /\ Code(t, r)

(* aws_iot_mqtt_set_client_state: one critical section of                  *)
(* state_change_mutex.  With blocking locks it cannot fail to lock; with   *)
(* trylock it does when another thread is about to run a section of its    *)
(* own.                                                                    *)
CasPoints == {"claim", "undo", "release", "callback", "settle", "pend",
              "reclaim", "exit"}
LockTaken(t, points) ==
  ~BlockOnLock /\ \E u \in Threads \ {t} :
                    stack[u] # <<>> /\ Top(u).pc \in points
\* Mutants: the comparison dropped, the return code stored as the state.
SetUnchecked(t, expected, new, r) == r = "SUCCESS" /\ state' = new
SetToCode(t, expected, new, r) == r = "SUCCESS" /\ state' = r
CompareAndSet(t, expected, new, r) ==
  \/ r = "SUCCESS" /\ state = expected /\ state' = new
  \/ r = "UNEXPECTED" /\ state # expected /\ UNCHANGED state
  \/ r = "LOCK" /\ LockTaken(t, CasPoints) /\ UNCHANGED state

(* What a call checks on entry, and what it answers when it refuses. *)
\* Mutant: a busy client is not told from an idle one.
AcceptsBusy(op, s) ==
  IF op \in {"connect", "reconnect"} THEN s \notin Connected ELSE s \in Connected
Accepts(op, s) ==
  CASE op \in Requests    -> s \in {"IDLE", "WAIT_FOR_CB_RETURN"}
    [] op = "resubscribe" -> s = "IDLE"
    [] op = "yield"       -> s \in {"IDLE", "PENDING_RECONNECT"}
    [] op = "disconnect"  -> s \in Connected
    [] op = "reconnect"   -> s \notin Connected
    [] op = "connect"     -> s \in {"INITIALIZED", "DISCONNECTED_ERROR",
                               "DISCONNECTED_MANUALLY", "PENDING_RECONNECT"}
    [] OTHER              -> FALSE
Refusal(op, s) ==
  CASE op \in {"connect", "reconnect"}                   -> "ALREADY"
    [] op = "yield" /\ s = "DISCONNECTED_MANUALLY"       -> "MANUALLY"
    [] op \notin {"connect", "reconnect"} /\ s \in Connected -> "NOT_IDLE"
    [] OTHER                                             -> "DISCONNECTED"
FirstPoint(op, s) ==
  CASE op = "reconnect"                            -> "connect"
    [] op = "yield" /\ s = "PENDING_RECONNECT"     -> "loop"
    [] OTHER                                       -> "claim"

\* Thread t, whose callers' frames are s, enters a call or is refused.
Enter(t, op, s) ==
  \/ /\ Accepts(op, state)
     /\ stack' = [stack EXCEPT ![t] =
          Append(s, [op |-> op, pc |-> FirstPoint(op, state), saved |-> state])]
     /\ UNCHANGED rc
  \/ /\ ~Accepts(op, state)
     /\ stack' = [stack EXCEPT ![t] = s]
     /\ Code(t, Refusal(op, state))

-----------------------------------------------------------------------------
(* The application calls the API. *)

Call(t) ==
  /\ stack[t] = <<>>
  /\ \E op \in MayCall[t] :
       /\ Enter(t, op, <<>>)
       /\ parted' = (parted /\ op \notin {"connect", "reconnect"})
  /\ UNCHANGED <<state, link, pingOut, subscribed>>

(* publish, subscribe, unsubscribe, resubscribe. *)

\* Claim the client.  A request that finds another state gives up, except
\* that unsubscribe first "restores" the state it never set.
Claim(t) ==
  /\ AtPoint(t, "claim")
  /\ Top(t).op \in Requests \cup {"resubscribe", "yield", "disconnect"}
  /\ \E r \in CasResults :
       /\ CompareAndSet(t, Top(t).saved, Held(Top(t).op), r)
       /\ \/ /\ r = "SUCCESS"
             /\ Goto(t, IF Top(t).op = "yield" THEN "loop" ELSE "send")
             /\ UNCHANGED rc
          \/ /\ r # "SUCCESS" /\ Top(t).op = "unsubscribe"
             /\ Goto(t, "undo")
             /\ UNCHANGED rc
          \/ /\ r # "SUCCESS" /\ Top(t).op # "unsubscribe"
             /\ Return(t, r)
  /\ UNCHANGED <<link, pingOut, subscribed, parted>>

\* Mutant: the expected and the new state are swapped.
UndoSwapped(t) ==
  /\ At(t, "unsubscribe", "undo")
  /\ \E r \in CasResults :
       /\ CompareAndSet(t, Top(t).saved, Held("unsubscribe"), r)
       /\ Return(t, r)
  /\ UNCHANGED <<link, pingOut, subscribed, parted>>

UndoUnsubscribe(t) ==
  /\ At(t, "unsubscribe", "undo")
  /\ \E r \in CasResults :
       /\ CompareAndSet(t, Held("unsubscribe"), Top(t).saved, r)
       /\ Return(t, r)
  /\ UNCHANGED <<link, pingOut, subscribed, parted>>

\* Send the packet; a closed connection or the timer makes that fail.  A
\* QoS 0 publish is done, and so is a resubscribe with no topic left.
SendRequest(t) ==
  /\ AtPoint(t, "send")
  /\ Top(t).op \in Requests \cup {"resubscribe"}
  /\ \/ /\ link # "none"
        /\ Goto(t, "wait")
        /\ subscribed' = (subscribed \/ Top(t).op = "subscribe")
        /\ UNCHANGED rc
     \/ /\ link # "none" /\ Top(t).op = "publish"
        /\ Goto(t, "release") /\ Code(t, "SUCCESS")
        /\ UNCHANGED subscribed
     \/ /\ Top(t).op = "resubscribe"
        /\ Goto(t, "release") /\ Code(t, "SUCCESS")
        /\ UNCHANGED subscribed
     \/ /\ Goto(t, "release") /\ Code(t, "FAILURE")
        /\ UNCHANGED subscribed
  /\ UNCHANGED <<state, link, pingOut, parted>>

\* wait_for_read: the acknowledgement arrives, or the timer runs out.
AwaitAck(t) ==
  /\ AtPoint(t, "wait")
  /\ \/ link = "up" /\ Goto(t, "release") /\ Code(t, "SUCCESS")
     \/ /\ link = "up" /\ Top(t).op = "resubscribe"
        /\ Goto(t, "send") /\ UNCHANGED rc
     \/ Goto(t, "release") /\ Code(t, "FAILURE")
  /\ UNCHANGED <<state, link, pingOut, subscribed, parted>>

\* cycle_read handles a PINGRESP for whoever reads it.
ReadPingResp(t) ==
  /\ AtPoint(t, "wait")
  /\ link = "up" /\ pingOut
  /\ pingOut' = FALSE
  /\ UNCHANGED <<state, stack, rc, link, subscribed, parted>>

\* cycle_read reads a PUBLISH: deliver_message takes note of the state.
DeliverFrame == [op |-> "deliver", pc |-> "claim", saved |-> state]
ReadPublish(t) ==
  /\ AtPoint(t, "wait") \/ At(t, "yield", "read")
  /\ link = "up" /\ subscribed
  /\ Len(stack[t]) < MaxDepth
  /\ stack' = [stack EXCEPT ![t] =
       Append(MovedTo(t, IF Top(t).pc = "read" THEN "delivered" ELSE "wait"),
              DeliverFrame)]
  /\ UNCHANGED <<state, rc, link, pingOut, subscribed, parted>>

\* Mutant: a failed request returns early.
ReleaseOnSuccess(t) ==
  /\ AtPoint(t, "release")
  /\ IF rc[t] = "SUCCESS"
     THEN CompareAndSet(t, Held(Top(t).op), Top(t).saved, "SUCCESS")
     ELSE UNCHANGED state
  /\ Return(t, rc[t])
  /\ UNCHANGED <<link, pingOut, subscribed, parted>>

Release(t) ==
  /\ AtPoint(t, "release")
  /\ \E r \in CasResults :
       /\ CompareAndSet(t, Held(Top(t).op), Top(t).saved, r)
       /\ Return(t, IF rc[t] = "SUCCESS" THEN r ELSE rc[t])
  /\ UNCHANGED <<link, pingOut, subscribed, parted>>

(* _aws_iot_mqtt_internal_deliver_message and the application's handlers. *)

BeginCallback(t) ==
  /\ At(t, "deliver", "claim")
  /\ \E r \in CasResults : CompareAndSet(t, Top(t).saved, Held("deliver"), r)
  /\ Goto(t, "callback")
  /\ UNCHANGED <<rc, link, pingOut, subscribed, parted>>

CallFromCallback(t) ==
  /\ At(t, "deliver", "callback")
  /\ Len(stack[t]) < MaxDepth
  /\ \E op \in CallbackCalls :
       /\ Enter(t, op, stack[t])
       /\ parted' = (parted /\ op \notin {"connect", "reconnect"})
  /\ UNCHANGED <<state, link, pingOut, subscribed>>

EndCallback(t) ==
  /\ At(t, "deliver", "callback")
  /\ \E r \in CasResults :
       /\ CompareAndSet(t, Held("deliver"), Top(t).saved, r)
       /\ Return(t, r)
  /\ UNCHANGED <<link, pingOut, subscribed, parted>>

-----------------------------------------------------------------------------
(* connect and disconnect. *)

\* The result of the compare-and-set is ignored.
BeginConnect(t) ==
  /\ At(t, "connect", "claim")
  /\ \E r \in CasResults : CompareAndSet(t, Top(t).saved, "CONNECTING", r)
  /\ Goto(t, "handshake")
  /\ UNCHANGED <<rc, link, pingOut, subscribed, parted>>

\* TLS connect, CONNECT, CONNACK; on any failure the network is closed.
Handshake(t) ==
  /\ At(t, "connect", "handshake")
  /\ Goto(t, "settle")
  /\ \/ link' = "up" /\ pingOut' = FALSE /\ Code(t, "SUCCESS")
     \/ link' = "none" /\ UNCHANGED pingOut /\ Code(t, "FAILURE")
  /\ UNCHANGED <<state, subscribed, parted>>

\* Mutant: a failed connect starts over.
SettleAfresh(t) ==
  /\ At(t, "connect", "settle")
  /\ state' = IF rc[t] = "SUCCESS" THEN "IDLE" ELSE "INITIALIZED"
  /\ Return(t, rc[t])
  /\ UNCHANGED <<link, pingOut, subscribed, parted>>

SettleConnect(t) ==
  /\ At(t, "connect", "settle")
  /\ \E r \in CasResults :
       CompareAndSet(t, "CONNECTING",
         IF rc[t] = "SUCCESS" THEN "IDLE" ELSE "DISCONNECTED_ERROR", r)
  /\ Return(t, rc[t])
  /\ UNCHANGED <<link, pingOut, subscribed, parted>>

\* Mutant: the network is not destroyed.
SendDisconnectOnly(t) ==
  /\ At(t, "disconnect", "send")
  /\ Goto(t, "finish") \/ Goto(t, "restore")
  /\ UNCHANGED <<state, rc, link, pingOut, subscribed, parted>>

SendDisconnect(t) ==
  /\ At(t, "disconnect", "send")
  /\ \/ link # "none" /\ link' = "none" /\ Goto(t, "finish")
     \/ UNCHANGED link /\ Goto(t, "restore")
  /\ UNCHANGED <<state, rc, pingOut, subscribed, parted>>

\* A disconnect the application asked for, and not yield, is its last word.
InYield(t) == \E i \in DOMAIN stack[t] : stack[t][i].pc = "dropped"

\* Mutant: any disconnect is retried.
FinishAndRetry(t) ==
  /\ At(t, "disconnect", "finish")
  /\ state' = "PENDING_RECONNECT"
  /\ Return(t, "SUCCESS")
  /\ parted' = (parted \/ ~InYield(t))
  /\ UNCHANGED <<link, pingOut, subscribed>>

\* The two direct writes of the client state.
FinishDisconnect(t) ==
  /\ At(t, "disconnect", "finish")
  /\ state' = "DISCONNECTED_MANUALLY"
  /\ Return(t, "SUCCESS")
  /\ parted' = (parted \/ ~InYield(t))
  /\ UNCHANGED <<link, pingOut, subscribed>>

\* Mutant: the state is not restored.
NoRestore(t) ==
  /\ At(t, "disconnect", "restore")
  /\ Return(t, "FAILURE")
  /\ UNCHANGED <<state, link, pingOut, subscribed, parted>>

RestoreAfterDisconnect(t) ==
  /\ At(t, "disconnect", "restore")
  /\ state' = Top(t).saved
  /\ Return(t, "FAILURE")
  /\ UNCHANGED <<link, pingOut, subscribed, parted>>

(* aws_iot_mqtt_attempt_reconnect. *)

ReconnectConnect(t) ==
  /\ At(t, "reconnect", "connect")
  /\ Enter(t, "connect", MovedTo(t, "connected"))
  /\ UNCHANGED <<state, link, pingOut, subscribed, parted>>

ReconnectConnected(t) ==
  /\ At(t, "reconnect", "connected")
  /\ \/ /\ state # "IDLE"
        /\ Goto(t, "pend") /\ UNCHANGED rc
     \/ /\ state = "IDLE"
        /\ Enter(t, "resubscribe", MovedTo(t, "resubscribed"))
  /\ UNCHANGED <<state, link, pingOut, subscribed, parted>>

ReconnectPend(t) ==
  /\ At(t, "reconnect", "pend")
  /\ \E r \in CasResults :
       CompareAndSet(t, "DISCONNECTED_ERROR", "PENDING_RECONNECT", r)
  /\ Return(t, "ATTEMPTING")
  /\ UNCHANGED <<link, pingOut, subscribed, parted>>

ReconnectResubscribed(t) ==
  /\ At(t, "reconnect", "resubscribed")
  /\ Return(t, IF rc[t] = "SUCCESS" THEN "RECONNECTED" ELSE rc[t])
  /\ UNCHANGED <<state, link, pingOut, subscribed, parted>>

-----------------------------------------------------------------------------
(* aws_iot_mqtt_yield. *)

\* Top of the loop: with a reconnect pending, try it once its timer is up.
YieldLoop(t) ==
  /\ At(t, "yield", "loop")
  /\ \/ /\ state # "PENDING_RECONNECT"
        /\ Goto(t, "read") /\ UNCHANGED rc
     \/ /\ state = "PENDING_RECONNECT"
        /\ Goto(t, "check") /\ Code(t, "ATTEMPTING")
     \/ /\ state = "PENDING_RECONNECT"
        /\ Enter(t, "reconnect", MovedTo(t, "reconnected"))
  /\ UNCHANGED <<state, link, pingOut, subscribed, parted>>

YieldReconnected(t) ==
  /\ At(t, "yield", "reconnected")
  /\ Goto(t, IF rc[t] = "RECONNECTED" THEN "reclaim" ELSE "check")
  /\ UNCHANGED <<state, rc, link, pingOut, subscribed, parted>>

YieldReclaim(t) ==
  /\ At(t, "yield", "reclaim")
  /\ \E r \in CasResults :
       /\ CompareAndSet(t, "IDLE", "YIELD", r)
       /\ Code(t, IF r = "SUCCESS" THEN "RECONNECTED" ELSE r)
  /\ Goto(t, "check")
  /\ UNCHANGED <<link, pingOut, subscribed, parted>>

\* Points at which a thread holds tls_read_mutex.
ReadPoints == {"read", "wait", "handshake"}

\* cycle_read, when it does not read a PUBLISH: nothing or an ack, a
\* PINGRESP, a broken packet, or an error that ends the connection.
YieldRead(t) ==
  /\ At(t, "yield", "read")
  /\ \/ Goto(t, "keepalive") /\ UNCHANGED <<rc, pingOut>>
     \/ /\ link = "up" /\ pingOut /\ pingOut' = FALSE
        /\ Goto(t, "keepalive") /\ UNCHANGED rc
     \/ /\ link # "none" \/ LockTaken(t, ReadPoints)
        /\ Goto(t, "exit") /\ Code(t, "FAILURE") /\ UNCHANGED pingOut
     \/ /\ SslReadErrors
        /\ Goto(t, "drop") /\ UNCHANGED <<rc, pingOut>>
  /\ UNCHANGED <<state, link, subscribed, parted>>

\* The rest of handle_publish: a QoS 1 message is acknowledged.
YieldDelivered(t) ==
  /\ At(t, "yield", "delivered")
  /\ \/ rc[t] = "SUCCESS" /\ Goto(t, "keepalive") /\ UNCHANGED rc
     \/ rc[t] = "SUCCESS" /\ Goto(t, "exit") /\ Code(t, "FAILURE")
     \/ rc[t] # "SUCCESS" /\ Goto(t, "exit") /\ UNCHANGED rc
  /\ UNCHANGED <<state, link, pingOut, subscribed, parted>>

\* keep_alive: not due; due and the PINGREQ is sent; due and the last one
\* was not answered, or this one cannot be sent.
YieldKeepAlive(t) ==
  /\ At(t, "yield", "keepalive")
  /\ \/ Goto(t, "check") /\ Code(t, "SUCCESS") /\ UNCHANGED pingOut
     \/ /\ ~pingOut /\ link # "none" /\ pingOut' = TRUE
        /\ Goto(t, "check") /\ Code(t, "SUCCESS")
     \/ Goto(t, "drop") /\ UNCHANGED <<rc, pingOut>>
  /\ UNCHANGED <<state, link, subscribed, parted>>

\* handle_disconnect: disconnect; if that fails, force the client down, the
\* state first and then the network; call the application's handler, and
\* overwrite the client state.
YieldDrop(t) ==
  /\ At(t, "yield", "drop")
  /\ Enter(t, "disconnect", MovedTo(t, "dropped"))
  /\ UNCHANGED <<state, link, pingOut, subscribed, parted>>

YieldForceDown(t) ==
  /\ At(t, "yield", "dropped")
  /\ \/ rc[t] = "SUCCESS" /\ Goto(t, "handler") /\ UNCHANGED state
     \/ rc[t] # "SUCCESS" /\ Goto(t, "destroy") /\ state' = "DISCONNECTED_ERROR"
  /\ UNCHANGED <<rc, link, pingOut, subscribed, parted>>

YieldDestroy(t) ==
  /\ At(t, "yield", "destroy")
  /\ link' = "none"
  /\ Goto(t, "handler")
  /\ UNCHANGED <<state, rc, pingOut, subscribed, parted>>

\* The disconnect handler, like a message callback, calls the API.
CallFromHandler(t) ==
  /\ At(t, "yield", "handler")
  /\ Len(stack[t]) < MaxDepth
  /\ \E op \in HandlerCalls :
       /\ Enter(t, op, stack[t])
       /\ parted' = (parted /\ op \notin {"connect", "reconnect"})
  /\ UNCHANGED <<state, link, pingOut, subscribed>>

YieldDisconnected(t) ==
  /\ At(t, "yield", "handler")
  /\ state' = "DISCONNECTED_ERROR"
  /\ \/ AutoReconnect /\ Goto(t, "pend") /\ UNCHANGED rc
     \/ ~AutoReconnect /\ Return(t, "DISCONNECTED")
  /\ UNCHANGED <<link, pingOut, subscribed, parted>>

YieldPend(t) ==
  /\ At(t, "yield", "pend")
  /\ \E r \in CasResults :
       /\ CompareAndSet(t, "DISCONNECTED_ERROR", "PENDING_RECONNECT", r)
       /\ IF r = "SUCCESS" THEN Goto(t, "check") /\ Code(t, "ATTEMPTING")
                           ELSE Goto(t, "exit") /\ Code(t, r)
  /\ UNCHANGED <<link, pingOut, subscribed, parted>>

\* The yield timer: go round again, or leave.  Only a client that is down
\* keeps its state.
YieldCheck(t) ==
  /\ At(t, "yield", "check")
  /\ \/ Goto(t, "loop") /\ UNCHANGED rc
     \/ /\ rc[t] \in {"DISCONNECTED", "ATTEMPTING"}
        /\ Return(t, rc[t])
     \/ /\ rc[t] \notin {"DISCONNECTED", "ATTEMPTING"}
        /\ Goto(t, "exit") /\ UNCHANGED rc
  /\ UNCHANGED <<state, link, pingOut, subscribed, parted>>

YieldExit(t) ==
  /\ At(t, "yield", "exit")
  /\ \E r \in CasResults :
       /\ CompareAndSet(t, "YIELD", "IDLE", r)
       /\ Return(t, IF rc[t] = "SUCCESS" THEN r ELSE rc[t])
  /\ UNCHANGED <<link, pingOut, subscribed, parted>>

-----------------------------------------------------------------------------
\* The peer or the Wi-Fi goes away; the socket does not notice.
LinkLost ==
  /\ link = "up" /\ link' = "down"
  /\ UNCHANGED <<state, stack, rc, pingOut, subscribed, parted>>

RequestStep(t) ==
  \/ Claim(t) \/ UndoUnsubscribe(t) \/ SendRequest(t) \/ AwaitAck(t)
  \/ ReadPingResp(t) \/ ReadPublish(t) \/ Release(t)
CallbackStep(t) == BeginCallback(t) \/ CallFromCallback(t) \/ EndCallback(t)
ConnectStep(t) ==
  \/ BeginConnect(t) \/ Handshake(t) \/ SettleConnect(t)
  \/ SendDisconnect(t) \/ FinishDisconnect(t) \/ RestoreAfterDisconnect(t)
  \/ ReconnectConnect(t) \/ ReconnectConnected(t) \/ ReconnectPend(t)
  \/ ReconnectResubscribed(t)
YieldStep(t) ==
  \/ YieldLoop(t) \/ YieldReconnected(t) \/ YieldReclaim(t) \/ YieldRead(t)
  \/ YieldDelivered(t)
  \/ YieldKeepAlive(t) \/ YieldDrop(t) \/ YieldForceDown(t)
  \/ YieldDestroy(t) \/ CallFromHandler(t)
  \/ YieldDisconnected(t) \/ YieldPend(t) \/ YieldCheck(t) \/ YieldExit(t)

Next ==
  \/ LinkLost
  \/ \E t \in Threads :
       Call(t) \/ RequestStep(t) \/ CallbackStep(t) \/ ConnectStep(t) \/ YieldStep(t)

Spec == Init /\ [][Next]_vars

-----------------------------------------------------------------------------
(* Properties. *)

Resting == {"INITIALIZED", "IDLE", "DISCONNECTED_ERROR",
            "DISCONNECTED_MANUALLY", "PENDING_RECONNECT"}

\* The states a client used by one thread is in when frame f is on top of
\* its stack and r is the return code computed last.
Expected(f, r) ==
  CASE f.pc = "claim" -> {f.saved}
    [] f.pc \in {"send", "wait", "release", "callback", "handshake",
                 "settle", "finish", "restore"} -> {Held(f.op)}
    [] f.op = "reconnect" /\ f.pc = "connect" -> Resting \ {"IDLE"}
    [] f.op = "reconnect" /\ f.pc = "connected" ->
         IF r = "SUCCESS" THEN {"IDLE"} ELSE {"DISCONNECTED_ERROR"}
    [] f.op = "reconnect" /\ f.pc = "pend" -> {"DISCONNECTED_ERROR"}
    [] f.op = "reconnect" /\ f.pc = "resubscribed" -> {"IDLE"}
    [] f.op = "yield" /\ f.pc = "reconnected" ->
         IF r = "ATTEMPTING" THEN {"PENDING_RECONNECT"} ELSE {"IDLE"}
    [] f.op = "yield" /\ f.pc = "check" ->
         IF r = "ATTEMPTING" THEN {"PENDING_RECONNECT"} ELSE {"IDLE", "YIELD"}
    [] f.op = "yield" /\ f.pc = "loop" ->
         {"IDLE", "YIELD", "PENDING_RECONNECT"}
    [] f.op = "yield" /\ f.pc = "reclaim" -> {"IDLE"}
    [] f.op = "yield" /\ f.pc \in {"read", "delivered", "keepalive", "drop",
                                  "exit"} -> {"IDLE", "YIELD"}
    [] f.op = "yield" /\ f.pc = "dropped" ->
         IF r = "SUCCESS" THEN {"DISCONNECTED_MANUALLY"} ELSE {"IDLE", "YIELD"}
    [] f.op = "yield" /\ f.pc = "handler" -> Resting
    [] f.op = "yield" /\ f.pc \in {"destroy", "pend"} -> {"DISCONNECTED_ERROR"}
    [] OTHER -> {}

\* A client used by one thread: whatever calls its callbacks nest, in
\* whatever depth, the client state is the one the innermost call put there,
\* and a client in no call is at rest (set_client_state, deliver_message and
\* every claim and release in the API calls).
StateMatchesStack ==
  \A t \in Threads :
    IF stack[t] = <<>> THEN state \in Resting
                       ELSE state \in Expected(Top(t), rc[t])

\* Why that is so, the inductive invariant behind StateMatchesStack: a call
\* that waits for another one has saved, or will take, the state that the
\* other one puts back; and the return codes that let yield leave without a
\* compare-and-set reach it only from a client that is down.
Linked(f, g) ==
  CASE f.pc = "wait"         -> /\ f.op \in Requests \cup {"resubscribe"}
                                /\ g.op = "deliver" /\ g.saved = Held(f.op)
    [] f.pc = "callback"     -> /\ f.op = "deliver" /\ g.op \in Requests
                                /\ g.saved = "WAIT_FOR_CB_RETURN"
    [] f.pc = "delivered"    -> /\ f.op = "yield" /\ g.op = "deliver"
                                /\ g.saved \in {"IDLE", "YIELD"}
    [] f.pc = "dropped"      -> /\ f.op = "yield" /\ g.op = "disconnect"
                                /\ g.saved \in {"IDLE", "YIELD"}
    [] f.pc = "handler"      -> /\ f.op = "yield" /\ g.op \in ApiCalls
                                /\ g.saved \in Resting
    [] f.pc = "reconnected"  -> /\ f.op = "yield" /\ g.op = "reconnect"
                                /\ g.saved = "PENDING_RECONNECT"
    [] f.pc = "connected"    -> /\ f.op = "reconnect" /\ g.op = "connect"
                                /\ g.saved \in Resting
    [] f.pc = "resubscribed" -> /\ f.op = "reconnect" /\ g.op = "resubscribe"
                                /\ g.saved = "IDLE"
    [] OTHER                 -> FALSE
Settled(f, r) ==
  /\ f.pc \in {"wait", "release"} => f.op \in Requests \cup {"resubscribe"}
  /\ f.pc = "callback" => f.op = "deliver"
  /\ f.pc \in {"release", "resubscribed"} =>
       r \notin {"DISCONNECTED", "ATTEMPTING"}
  /\ f.pc \in {"reconnected", "check"} => r # "DISCONNECTED"
Nested(s) ==
  /\ s # <<>> => s[1].op # "deliver" /\ s[1].saved \in Resting
  /\ \A i \in 1..(Len(s) - 1) : Linked(s[i], s[i + 1])
CallsNest ==
  \A t \in Threads :
    /\ Nested(stack[t])
    /\ stack[t] # <<>> => Settled(Top(t), rc[t])

\* At most one thread is inside a call that has claimed the client, from its
\* claim to its release, however the calls of the threads interleave.
Inside(t) == stack[t] # <<>> /\ stack[t][1].pc # "claim"
Exclusive == \A t, u \in Threads : Inside(t) /\ Inside(u) => t = u

\* "While callback return is in progress, Yield should not be called. The
\* state for CB_RETURN accomplishes that, as yield cannot be called while in
\* that state" (deliver_message): no yield claims the client while a message
\* callback of any thread has yet to return.
InCallback(t) == \E i \in DOMAIN stack[t] :
                   stack[t][i].op = "deliver" /\ stack[t][i].pc = "callback"
NoYieldDuringCallback ==
  [][\A t, u \in Threads :
       At(t, "yield", "claim") /\ stack'[t] = MovedTo(t, "loop")
       => ~InCallback(u)]_vars

\* "Check if client is idle, if not another operation is in progress"
\* (aws_iot_mqtt_yield): a connected client that is not idle is in some call,
\* also when threads undo each other's claims (aws_iot_mqtt_unsubscribe), and
\* connect or are disconnected in the middle of each other's calls.
BusyHasOperation ==
  state \in Connected \ {"IDLE"} => \E t \in Threads : stack[t] # <<>>

\* A client in a transient state, from which neither connect nor any other
\* call is accepted, is on its way out of it: some thread is in the connect
\* or disconnect that will leave it.
Leaving(t, op) == stack[t] # <<>> /\ Top(t).op = op
                    /\ Top(t).pc \in {"handshake", "settle", "send", "finish",
                                     "restore"}
TransientHasOwner ==
  /\ state = "CONNECTING" => \E t \in Threads : Leaving(t, "connect")
  /\ state = "DISCONNECTING" => \E t \in Threads : Leaving(t, "disconnect")

\* A client the application disconnected stays so, closed, until the
\* application connects again: it never reconnects by itself.
ManualDisconnectHolds ==
  parted => state = "DISCONNECTED_MANUALLY" /\ link = "none"

\* A client that is offline holds no connection: no socket or TLS session is
\* left open behind the state, for the next connect to leak (internal_connect,
\* internal_disconnect, force_client_disconnect).
OfflineIsClosed ==
  /\ state \notin Connected \cup {"CONNECTING", "DISCONNECTING"}
  /\ ~ \E t \in Threads : At(t, "yield", "destroy")
  => link = "none"

\* What the client promises the application: the life cycle of ClientLifecycle.
Phase ==
  CASE state \in Connected            -> "online"
    [] state = "CONNECTING"           -> "connecting"
    [] state = "DISCONNECTING"        -> "closing"
    [] state = "DISCONNECTED_ERROR"   -> "lost"
    [] state = "PENDING_RECONNECT"    -> "retrying"
    [] OTHER                          -> "offline"
Lifecycle == INSTANCE ClientLifecycle WITH phase <- Phase, parted <- parted
LifecycleSpec == Lifecycle!Spec
=============================================================================
