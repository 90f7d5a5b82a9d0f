---------------------------- MODULE StarterDemo ----------------------------
(***************************************************************************)
(* aws_starter_demo: the push buttons' interrupts, the cloud thread that   *)
(* reports their counts and the LED to the thing shadow, and the Wi-Fi     *)
(* events, which start that thread and disconnect its client.              *)
(*                                                                         *)
(* The buttons and the LED are the fields of the reported state, numbered  *)
(* in the order in which aws_publish_property_state looks at them.  value  *)
(* and prev are pushbutton_*_count, led_1_state and their _prev: unsigned  *)
(* integers, here modulo CountModulus, that start at 0 and at -1.          *)
(***************************************************************************)
EXTENDS Integers

CONSTANTS NumButtons,     \* push buttons with a count; the last one also resets
          CountModulus    \* 2^32 in the program

ASSUME StarterAssumption ==
  /\ NumButtons \in Nat \ {0}
  /\ CountModulus \in Nat
  /\ CountModulus > 2

VARIABLES
  station,    \* the station interface, as the Wi-Fi events tell of it
  cloudPc,    \* where the cloud thread is
  field,      \* the field aws_publish_property_state is at
  session,    \* what the MQTT client makes of its connection
  value,      \* the counts and the LED
  prev,       \* the values last put in a document
  doc,        \* the document being built
  shadow,     \* the reported state the cloud holds
  stale       \* history: the fields whose last report did not get there

starterVars ==
  <<station, cloudPc, field, session, value, prev, doc, shadow, stale>>

Button == 1 .. NumButtons
Led == NumButtons + 1
Field == 1 .. NumButtons + 1
Count == 0 .. CountModulus - 1
Succ(n) == (n + 1) % CountModulus

None == -1
NoFields == [f \in Field |-> None]
Reported == {f \in Field : doc[f] # None}

\* The thread's loop, outside of which it can no longer report anything.
Looping == {"yield", "compare", "format", "record", "send"}

Zeros == [f \in Field |-> 0]
MinusOnes == [f \in Field |-> CountModulus - 1]

StarterInit ==
  /\ station = "down"
  /\ cloudPc = "none"
  /\ field = 1
  /\ session = "none"
  /\ value = Zeros
  /\ prev = MinusOnes
  /\ doc = NoFields
  /\ shadow = NoFields
  /\ stale = Field

-----------------------------------------------------------------------------
(* The buttons. *)

\* Mutant: a second press counts before the first is reported.
PressTwice(b) ==
  /\ value[b] \in {prev[b], Succ(prev[b])}
  /\ value' = [value EXCEPT ![b] = Succ(@)]
  /\ UNCHANGED <<station, cloudPc, field, session, prev, doc, shadow, stale>>

\* pushbutton_a_cb, pushbutton_b_cb: a press counts if the last one is on its
\* way.  The interrupt comes between any two steps of the threads.
Press(b) ==
  /\ value[b] = prev[b]
  /\ value' = [value EXCEPT ![b] = Succ(@)]
  /\ UNCHANGED <<station, cloudPc, field, session, prev, doc, shadow, stale>>

\* device_reset_to_factory_cb: the last button, held, reboots the device.
FactoryReset ==
  /\ station' = "down"
  /\ cloudPc' = "none"
  /\ field' = 1
  /\ session' = "none"
  /\ value' = Zeros
  /\ prev' = MinusOnes
  /\ doc' = NoFields
  /\ stale' = Field
  /\ UNCHANGED shadow

-----------------------------------------------------------------------------
(* The Wi-Fi events. *)

\* aws_iot_shadow_disconnect: of a connected client only, which stays connected
\* if the packet cannot be sent.
Disconnect ==
  session' \in IF session = "open" THEN {"open", "closed"} ELSE {session}

\* wlan_event_normal_link_lost, wlan_event_normal_connect_failed
LinkEvent ==
  /\ station' = "down"
  /\ Disconnect
  /\ UNCHANGED <<cloudPc, field, value, prev, doc, shadow, stale>>

\* wlan_event_normal_connected: the thread is created once; a failure to create
\* it leaves the handle NULL for the next event.
ConnectedEvent ==
  /\ station = "down"
  /\ station' = "up"
  /\ cloudPc' \in IF cloudPc = "none" THEN {"none", "start"} ELSE {cloudPc}
  /\ UNCHANGED <<field, session, value, prev, doc, shadow, stale>>

-----------------------------------------------------------------------------
(* The cloud thread. *)

CloudGoto(pc) == cloudPc' = pc

\* The configuration, the shadow's init and its connect.
Start ==
  /\ cloudPc = "start"
  /\ \/ CloudGoto("register") /\ session' = "open"
     \/ CloudGoto("ended") /\ UNCHANGED session
  /\ UNCHANGED <<station, field, value, prev, doc, shadow, stale>>

\* aws_iot_shadow_register_delta
RegisterDelta ==
  /\ cloudPc = "register"
  /\ \/ CloudGoto("yield") /\ session = "open"
     \/ CloudGoto("ended")
  /\ UNCHANGED <<station, field, session, value, prev, doc, shadow, stale>>

\* A yield that finds the connection as it should be, or just restored, and may
\* hand a delta to led_indicator_cb.
YieldOnline ==
  /\ cloudPc = "yield"
  /\ session \in {"open", "retrying"}
  /\ session' = "open"
  /\ \E led \in {value[Led], 0, 1} : value' = [value EXCEPT ![Led] = led]
  /\ CloudGoto("compare")
  /\ UNCHANGED <<station, field, prev, doc, shadow, stale>>

\* A yield that finds the connection gone: NETWORK_ATTEMPTING_RECONNECT.
YieldLost ==
  /\ cloudPc = "yield"
  /\ session = "open"
  /\ session' = "retrying"
  /\ UNCHANGED <<station, cloudPc, field, value, prev, doc, shadow, stale>>

\* Any other failure of yield: the retries are used up, the client was
\* disconnected by the Wi-Fi events, a packet could not be read.
YieldFails ==
  /\ cloudPc = "yield"
  /\ session' = IF session = "retrying" THEN "failed" ELSE session
  /\ CloudGoto("ended")
  /\ UNCHANGED <<station, field, value, prev, doc, shadow, stale>>

\* Go on with the next field, or with the document.
NextField ==
  IF field = Led THEN field' = 1 /\ CloudGoto("send")
                 ELSE field' = field + 1 /\ CloudGoto("compare")

\* Mutant: counts are compared by size, so one that has wrapped is not new.
CompareLess ==
  /\ cloudPc = "compare"
  /\ IF prev[field] < value[field]
       THEN CloudGoto("format") /\ UNCHANGED field
       ELSE NextField
  /\ UNCHANGED <<station, session, value, prev, doc, shadow, stale>>

\* aws_publish_property_state, of one field: each step reads the volatile
\* counter once.
CompareField ==
  /\ cloudPc = "compare"
  /\ IF prev[field] # value[field]
       THEN CloudGoto("format") /\ UNCHANGED field
       ELSE NextField
  /\ UNCHANGED <<station, session, value, prev, doc, shadow, stale>>

\* Mutant: the value reported before is put in the document.
FormatPrevious ==
  /\ cloudPc = "format"
  /\ doc' = [doc EXCEPT ![field] = prev[field]]
  /\ CloudGoto("record")
  /\ UNCHANGED <<station, field, session, value, prev, shadow, stale>>

FormatField ==
  /\ cloudPc = "format"
  /\ doc' = [doc EXCEPT ![field] = value[field]]
  /\ CloudGoto("record")
  /\ UNCHANGED <<station, field, session, value, prev, shadow, stale>>

RecordField ==
  /\ cloudPc = "record"
  /\ prev' = [prev EXCEPT ![field] = value[field]]
  /\ NextField
  /\ UNCHANGED <<station, session, value, doc, shadow, stale>>

\* aws_iot_shadow_update of what has changed, if anything has.  A document that
\* cannot be sent, or is lost with the connection, is not sent again.
Send(delivered) ==
  /\ cloudPc = "send"
  /\ delivered => session = "open" \/ Reported = {}
  /\ shadow' = IF delivered
                 THEN [f \in Field |-> IF f \in Reported THEN doc[f] ELSE shadow[f]]
                 ELSE shadow
  /\ stale' = IF delivered THEN stale \ Reported ELSE stale \cup Reported
  /\ doc' = NoFields
  /\ CloudGoto("yield")
  /\ UNCHANGED <<station, field, session, value, prev>>

CloudStep ==
  \/ Start \/ RegisterDelta
  \/ YieldOnline \/ YieldLost \/ YieldFails
  \/ CompareField \/ FormatField \/ RecordField
  \/ \E delivered \in BOOLEAN : Send(delivered)

StarterNext ==
  \/ CloudStep
  \/ \E b \in Button : Press(b)
  \/ FactoryReset
  \/ LinkEvent
  \/ ConnectedEvent

\* The thread runs, every wait of it being bounded: yield gives up its retries
\* when the interval between two of them has grown to its limit.
StarterFairness == WF_starterVars(CloudStep)

StarterSpec == StarterInit /\ [][StarterNext]_starterVars /\ StarterFairness

-----------------------------------------------------------------------------
(* What should hold. *)

StarterTypeOK ==
  /\ station \in {"down", "up"}
  /\ cloudPc \in {"none", "start", "register", "ended"} \cup Looping
  /\ field \in Field
  /\ session \in {"none", "open", "retrying", "closed", "failed"}
  /\ value \in [Field -> Count]
  /\ prev \in [Field -> Count]
  /\ doc \in [Field -> Count \cup {None}]
  /\ shadow \in [Field -> Count \cup {None}]
  /\ stale \subseteq Field

\* The guard in the interrupt keeps a count at most one ahead of what was
\* reported, also when it wraps, so that the thread's three reads of it agree.
OnePressAhead == \A b \in Button : value[b] \in {prev[b], Succ(prev[b])}

\* What the document says of a field is what the thread records as reported,
\* although an interrupt may come between the two reads of the counter.
ReportIsRecorded ==
  \A f \in Reported :
    doc[f] = IF cloudPc = "record" /\ f = field THEN value[f] ELSE prev[f]

\* A field whose last report was delivered stands in the shadow as the device
\* remembers it, whatever was sent, lost or disconnected before and since.
ShadowIsCurrent ==
  \A f \in Field \ stale : doc[f] = None => shadow[f] = prev[f]

\* A press is put in a document in the end, unless the thread has ended.
PressIsReported ==
  \A b \in Button :
    (value[b] # prev[b] /\ cloudPc \in Looping)
      ~> (value[b] = prev[b] \/ cloudPc \notin Looping)
=============================================================================
