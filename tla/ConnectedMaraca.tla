-------------------------- MODULE ConnectedMaraca --------------------------
(***************************************************************************)
(* connected_maraca: the cloud thread that reads the accelerometer and     *)
(* publishes what has changed, and the Wi-Fi events.  The two threads      *)
(* share device_state and nothing guards it.  The driver's readings are    *)
(* the registers of the MMA7660, of which six bits are the acceleration.   *)
(***************************************************************************)
EXTENDS Integers

CONSTANTS Axes,               \* x, y and z
          Registers,          \* the bytes a register of the sensor may hold
          CreateMayFail       \* whether os_thread_create may fail

THRESHOLD_ACC == 2

ASSUME MaracaAssumption ==
  /\ Registers \subseteq 0 .. 255
  /\ CreateMayFail \in BOOLEAN

VARIABLES
  uplink,         \* the station interface
  eventPc,        \* where the Wi-Fi event thread is
  device_state,
  maracaPc,       \* where the cloud thread is
  connection,     \* what the MQTT client makes of its connection
  sample,         \* the last reading
  last,           \* prev_x, prev_y, prev_z
  offered,        \* history: the reading last handed to publish
  overtaken       \* history: a link was lost while the thread reconnected

maracaVars == <<uplink, eventPc, device_state, maracaPc, connection, sample,
                last, offered, overtaken>>

Abs(n) == IF n < 0 THEN -n ELSE n

\* MMA7660_getXYZ, of one register: the low five bits, less 32 if the sixth is set.
Acceleration(byte) ==
  (byte % 32) - (IF (byte \div 32) % 2 = 1 THEN 32 ELSE 0)

\* Mutant: the difference keeps its sign.
ChangedDown == \E a \in Axes : last[a] - sample[a] > THRESHOLD_ACC

Changed == \E a \in Axes : Abs(last[a] - sample[a]) > THRESHOLD_ACC

\* Where the thread has seen the link return and has not said so yet.
Reconnecting == {"reinit", "reconnect", "store"}
MaracaLoop == {"check", "yield", "sample", "publish"} \cup Reconnecting

MaracaInit ==
  /\ uplink = "down"
  /\ eventPc = "idle"
  /\ device_state = "INITIAL"
  /\ maracaPc = "none"
  /\ connection = "none"
  /\ sample = [a \in Axes |-> 0]
  /\ last = [a \in Axes |-> 0]
  /\ offered = [a \in Axes |-> 0]
  /\ overtaken = FALSE

-----------------------------------------------------------------------------
(* The Wi-Fi event thread: wlan_event_normal_link_lost and _connect_failed, *)
(* which are the same, and wlan_event_normal_connected.                     *)

MaracaThread == <<maracaPc, sample, last, offered>>

EventDisconnect ==
  /\ eventPc = "idle"
  /\ uplink' = "down"
  /\ connection' \in IF connection = "open" THEN {"open", "closed"} ELSE {connection}
  /\ eventPc' = "lost"
  /\ UNCHANGED <<MaracaThread, device_state, overtaken>>

\* Mutant: a lost link takes the application back to its start.
MarkInitial ==
  /\ eventPc = "lost"
  /\ device_state' = "INITIAL"
  /\ overtaken' = (overtaken \/ maracaPc \in Reconnecting)
  /\ eventPc' = "idle"
  /\ UNCHANGED <<MaracaThread, uplink, connection>>

MarkDisconnected ==
  /\ eventPc = "lost"
  /\ device_state' = "DISCONNECTED"
  /\ overtaken' = (overtaken \/ maracaPc \in Reconnecting)
  /\ eventPc' = "idle"
  /\ UNCHANGED <<MaracaThread, uplink, connection>>

\* The thread is created while device_state is still that of the reset.
CreateThread ==
  /\ device_state = "INITIAL"
  /\ maracaPc' = "start"

EventConnected ==
  /\ eventPc = "idle"
  /\ uplink = "down"
  /\ uplink' = "up"
  /\ \/ CreateThread /\ eventPc' = "connected"
     \/ /\ device_state = "INITIAL"
        /\ CreateMayFail
        /\ UNCHANGED <<maracaPc, eventPc>>
     \/ /\ device_state # "INITIAL"
        /\ eventPc' = "connected"
        /\ UNCHANGED maracaPc
  /\ UNCHANGED <<device_state, connection, sample, last, offered, overtaken>>

\* Mutant: the second test is missing.
TestInitial ==
  /\ eventPc = "connected"
  /\ device_state' = IF device_state = "INITIAL" THEN "CONNECTED" ELSE device_state
  /\ eventPc' = "idle"
  /\ UNCHANGED <<MaracaThread, uplink, connection, overtaken>>

\* The two tests of device_state, and the assignment after the second, are
\* steps of their own.
TestState ==
  /\ eventPc = "connected"
  /\ device_state' = IF device_state = "INITIAL" THEN "CONNECTED" ELSE device_state
  /\ eventPc' = IF device_state = "DISCONNECTED" THEN "restored" ELSE "idle"
  /\ UNCHANGED <<MaracaThread, uplink, connection, overtaken>>

MarkReconnected ==
  /\ eventPc = "restored"
  /\ device_state' = "RECONNECTED"
  /\ eventPc' = "idle"
  /\ UNCHANGED <<MaracaThread, uplink, connection, overtaken>>

WifiEvent == \/ EventDisconnect \/ MarkDisconnected
             \/ EventConnected \/ TestState \/ MarkReconnected

-----------------------------------------------------------------------------
(* The cloud thread. *)

MaracaGoto(pc) == maracaPc' = pc
WifiSide == <<uplink, eventPc>>

\* The configuration and the shadow's init.
MaracaStart ==
  /\ maracaPc = "start"
  /\ maracaPc' \in {"connect", "ended"}
  /\ UNCHANGED <<WifiSide, device_state, connection, sample, last, offered, overtaken>>

ShadowConnect(from, to) ==
  /\ maracaPc = from
  /\ \/ MaracaGoto(to) /\ connection' = "open"
     \/ MaracaGoto("ended") /\ connection' = "none"
  /\ UNCHANGED <<WifiSide, device_state, sample, last, offered, overtaken>>

\* Mutant: the thread does not look at device_state.
CheckNothing ==
  /\ maracaPc = "check"
  /\ MaracaGoto("yield")
  /\ UNCHANGED <<WifiSide, device_state, connection, sample, last, offered, overtaken>>

CheckState ==
  /\ maracaPc = "check"
  /\ MaracaGoto(IF device_state = "RECONNECTED" THEN "reinit" ELSE "yield")
  /\ UNCHANGED <<WifiSide, device_state, connection, sample, last, offered, overtaken>>

\* aws_iot_shadow_init over the client there is.
Reinit ==
  /\ maracaPc = "reinit"
  /\ maracaPc' \in {"reconnect", "ended"}
  /\ connection' = "none"
  /\ UNCHANGED <<WifiSide, device_state, sample, last, offered, overtaken>>

StoreConnected ==
  /\ maracaPc = "store"
  /\ device_state' = "CONNECTED"
  /\ MaracaGoto("yield")
  /\ UNCHANGED <<WifiSide, connection, sample, last, offered, overtaken>>

\* The result of the yield is not looked at.
MaracaYield ==
  /\ maracaPc = "yield"
  /\ connection' \in CASE connection = "open" -> {"open", "retrying"}
                       [] connection = "retrying" -> {"open", "retrying", "failed"}
                       [] OTHER -> {connection}
  /\ MaracaGoto("sample")
  /\ UNCHANGED <<WifiSide, device_state, sample, last, offered, overtaken>>

GetXYZ ==
  /\ maracaPc = "sample"
  /\ \E byte \in [Axes -> Registers] :
       sample' = [a \in Axes |-> Acceleration(byte[a])]
  /\ MaracaGoto("publish")
  /\ UNCHANGED <<WifiSide, device_state, connection, last, offered, overtaken>>

\* The comparison, aws_publish_property_state, whose publish may fail unseen,
\* and the copy.
PublishChange ==
  /\ maracaPc = "publish"
  /\ IF Changed THEN offered' = sample /\ last' = sample
                ELSE UNCHANGED <<offered, last>>
  /\ MaracaGoto("check")
  /\ UNCHANGED <<WifiSide, device_state, connection, sample, overtaken>>

MaracaStep ==
  \/ MaracaStart \/ ShadowConnect("connect", "check")
  \/ CheckState \/ Reinit \/ ShadowConnect("reconnect", "store") \/ StoreConnected
  \/ MaracaYield \/ GetXYZ \/ PublishChange

MaracaNext == WifiEvent \/ MaracaStep

MaracaFairness == WF_maracaVars(MaracaStep)

MaracaSpec == MaracaInit /\ [][MaracaNext]_maracaVars /\ MaracaFairness

-----------------------------------------------------------------------------
(* What should hold. *)

MaracaTypeOK ==
  /\ uplink \in {"down", "up"}
  /\ eventPc \in {"idle", "lost", "connected", "restored"}
  /\ device_state \in {"INITIAL", "CONNECTED", "RECONNECTED", "DISCONNECTED"}
  /\ maracaPc \in {"none", "start", "connect", "ended"} \cup MaracaLoop
  /\ connection \in {"none", "open", "retrying", "closed", "failed"}
  /\ sample \in [Axes -> -32 .. 31]
  /\ last \in [Axes -> -32 .. 31]
  /\ offered \in [Axes -> -32 .. 31]
  /\ overtaken \in BOOLEAN

\* The thread is created once, although a link may be lost before device_state
\* says so: a second thread would run on the stack of the first.
OneCloudThread ==
  [][EventConnected /\ CreateThread => maracaPc = "none"]_maracaVars

\* A client the Wi-Fi events have disconnected is reconnected once the link is
\* back, unless a link was lost in the middle of a reconnection: that race, in
\* which the thread overwrites what the event has said, is the only one.
OnlyTheRaceStrands ==
  ( /\ connection = "closed"
    /\ uplink = "up"
    /\ eventPc = "idle"
    /\ maracaPc \in MaracaLoop \ Reconnecting
    /\ ~overtaken )
  => device_state = "RECONNECTED"

\* However slowly the maraca turns, what was last put in a document is within
\* the threshold of what the sensor last read.
NoSilentDrift ==
  maracaPc \in {"check", "yield", "sample"} \cup Reconnecting =>
    \A a \in Axes : Abs(sample[a] - offered[a]) <= THRESHOLD_ACC

\* A link that returns makes the thread connect again, unless it has ended.
ReturnIsActedOn ==
  device_state = "RECONNECTED" /\ maracaPc # "none" ~>
    maracaPc \in {"reinit", "ended"} \/ device_state # "RECONNECTED"
=============================================================================
