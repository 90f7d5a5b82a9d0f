------------------------- MODULE ApplicationProofs -------------------------
(***************************************************************************)
(* What aws_starter_demo reports, for any number of buttons and any width  *)
(* of their counters; what its provisioning page does with its lists of    *)
(* networks, for any limits and any number of requests in flight; the      *)
(* threads, reconnections and publications of connected_maraca, for any    *)
(* axes and any readings of the sensor; and the hook tables and timers of  *)
(* wm_os.h, for any number of threads, functions, table entries and queue  *)
(* places.                                                                 *)
(***************************************************************************)
EXTENDS StarterDemo, ProvisioningPage, ConnectedMaraca, OsHooks, OsTimers,
        SequenceTheorems, TLAPS

-----------------------------------------------------------------------------
(* aws_starter_demo. *)

\* Between the comparison of a field and the record of its value the field has
\* a value that is not recorded yet, which keeps the interrupt from counting;
\* and what is about to be recorded is in the document.
CountHeld ==
  /\ cloudPc \in {"format", "record"} => value[field] # prev[field]
  /\ cloudPc = "record" => field \in Reported

\* The inductive invariant: ReportIsRecorded needs the count to stand still
\* while it is read twice, and ShadowIsCurrent needs ReportIsRecorded.
StarterInv ==
  /\ StarterTypeOK
  /\ OnePressAhead
  /\ CountHeld
  /\ ReportIsRecorded
  /\ ShadowIsCurrent

\* The next count is a count, and another one: the counter has more than one
\* value.
LEMMA SuccIsCount ==
  ASSUME NEW n \in Count
  PROVE  Succ(n) \in Count /\ Succ(n) # n
BY StarterAssumption DEF Count, Succ

\* A reset takes the counters to the value that follows the one recorded.
LEMMA ResetIsCount ==
  /\ 0 \in Count
  /\ CountModulus - 1 \in Count
  /\ Succ(CountModulus - 1) = 0
  /\ None \notin Count
BY StarterAssumption DEF Count, Succ, None

\* The fields, and the way on to the next.
LEMMA FieldFacts ==
  /\ Button \subseteq Field
  /\ 1 \in Field
  /\ \A f \in Field : f # Led => f + 1 \in Field
BY StarterAssumption DEF Button, Field, Led

LEMMA InitTypes == StarterInit => StarterTypeOK
BY FieldFacts, ResetIsCount
   DEF StarterInit, StarterTypeOK, Zeros, MinusOnes, NoFields, Looping

\* What NextField does to the thread's position.
LEMMA NextFieldTypes ==
  ASSUME field \in Field, NextField
  PROVE  field' \in Field /\ cloudPc' \in {"send", "compare"}
BY FieldFacts DEF NextField, CloudGoto

LEMMA StepTypes ==
  ASSUME StarterTypeOK, [StarterNext]_starterVars
  PROVE  StarterTypeOK'
<1> USE DEF StarterTypeOK
<1>1. ASSUME NEW b \in Button, Press(b) PROVE StarterTypeOK'
  BY <1>1, SuccIsCount, FieldFacts DEF Press
<1>2. CASE FactoryReset
  BY <1>2, FieldFacts, ResetIsCount
     DEF FactoryReset, Zeros, MinusOnes, NoFields
<1>3. CASE LinkEvent
  BY <1>3 DEF LinkEvent, Disconnect
<1>4. CASE ConnectedEvent
  BY <1>4 DEF ConnectedEvent
<1>5. CASE Start
  BY <1>5 DEF Start, CloudGoto
<1>6. CASE RegisterDelta
  BY <1>6 DEF RegisterDelta, CloudGoto, Looping
<1>7. CASE YieldOnline
  <2>1. PICK led \in {value[Led], 0, 1} : value' = [value EXCEPT ![Led] = led]
    BY <1>7 DEF YieldOnline
  <2>2. led \in Count
    BY <2>1, StarterAssumption DEF Count, Field, Led
  <2> QED
    BY <1>7, <2>1, <2>2 DEF YieldOnline, CloudGoto, Looping
<1>8. CASE YieldLost
  BY <1>8 DEF YieldLost
<1>9. CASE YieldFails
  BY <1>9 DEF YieldFails, CloudGoto
<1>10. CASE CompareField
  BY <1>10, NextFieldTypes DEF CompareField, CloudGoto, Looping
<1>11. CASE FormatField
  BY <1>11 DEF FormatField, CloudGoto, Looping
<1>12. CASE RecordField
  BY <1>12, NextFieldTypes DEF RecordField, Looping
<1>13. ASSUME NEW delivered \in BOOLEAN, Send(delivered) PROVE StarterTypeOK'
  BY <1>13 DEF Send, CloudGoto, Looping, Reported, NoFields
<1>14. CASE UNCHANGED starterVars
  BY <1>14 DEF starterVars
<1> QED
  BY <1>1, <1>2, <1>3, <1>4, <1>5, <1>6, <1>7, <1>8, <1>9, <1>10, <1>11, <1>12,
     <1>13, <1>14 DEF StarterNext, CloudStep

\* The guard of the interrupt keeps the counts together.
LEMMA StepOnePress ==
  ASSUME StarterInv, [StarterNext]_starterVars
  PROVE  OnePressAhead'
<1> USE FieldFacts DEF StarterInv, StarterTypeOK, OnePressAhead
<1>1. ASSUME NEW b \in Button, Press(b) PROVE OnePressAhead'
  BY <1>1 DEF Press
<1>2. CASE FactoryReset
  BY <1>2, ResetIsCount DEF FactoryReset, Zeros, MinusOnes
<1>3. CASE YieldOnline
  BY <1>3, StarterAssumption DEF YieldOnline, Button, Field, Led
<1>4. CASE RecordField
  BY <1>4 DEF RecordField
<1>5. CASE UNCHANGED <<value, prev>>
  BY <1>5
<1> QED
  BY <1>1, <1>2, <1>3, <1>4, <1>5
     DEF StarterNext, CloudStep, starterVars, LinkEvent, ConnectedEvent, Start,
         RegisterDelta, YieldLost, YieldFails, CompareField, FormatField, Send

LEMMA StepCountHeld ==
  ASSUME StarterInv, [StarterNext]_starterVars
  PROVE  CountHeld'
<1> USE FieldFacts DEF StarterInv, StarterTypeOK, CountHeld, Reported
<1>1. ASSUME NEW b \in Button, Press(b) PROVE CountHeld'
  BY <1>1 DEF Press
<1>2. CASE FactoryReset
  BY <1>2 DEF FactoryReset
<1>3. CASE CompareField
  BY <1>3, NextFieldTypes DEF CompareField, CloudGoto
<1>4. CASE FormatField
  BY <1>4, ResetIsCount DEF FormatField, CloudGoto
<1>5. CASE RecordField
  BY <1>5, NextFieldTypes DEF RecordField
<1>6. CASE cloudPc' \notin {"format", "record"}
  BY <1>6
<1>7. CASE UNCHANGED <<value, prev, doc, cloudPc, field>>
  BY <1>7
<1> QED
  BY <1>1, <1>2, <1>3, <1>4, <1>5, <1>6, <1>7
     DEF StarterNext, CloudStep, starterVars, LinkEvent, ConnectedEvent, Start,
         RegisterDelta, YieldOnline, YieldLost, YieldFails, Send, CloudGoto

\* A press between the two reads of a counter does not count.
LEMMA StepReportIsRecorded ==
  ASSUME StarterInv, [StarterNext]_starterVars
  PROVE  ReportIsRecorded'
<1> USE FieldFacts DEF StarterInv, StarterTypeOK, ReportIsRecorded, Reported
<1>1. ASSUME NEW b \in Button, Press(b) PROVE ReportIsRecorded'
  BY <1>1 DEF Press, CountHeld
<1>2. CASE FactoryReset
  BY <1>2 DEF FactoryReset, NoFields
<1>3. CASE CompareField
  BY <1>3, NextFieldTypes DEF CompareField, CloudGoto
<1>4. CASE FormatField
  BY <1>4 DEF FormatField, CloudGoto
<1>5. CASE RecordField
  BY <1>5, NextFieldTypes DEF RecordField
<1>6. CASE \E delivered \in BOOLEAN : Send(delivered)
  BY <1>6 DEF Send, NoFields
<1>7. CASE YieldOnline
  BY <1>7 DEF YieldOnline, CloudGoto
<1>8. CASE /\ UNCHANGED <<value, prev, doc, field>>
           /\ cloudPc' = "record" <=> cloudPc = "record"
  BY <1>8
<1> QED
  BY <1>1, <1>2, <1>3, <1>4, <1>5, <1>6, <1>7, <1>8
     DEF StarterNext, CloudStep, starterVars, LinkEvent, ConnectedEvent, Start,
         RegisterDelta, YieldLost, YieldFails, CloudGoto

LEMMA StepShadowIsCurrent ==
  ASSUME StarterInv, [StarterNext]_starterVars
  PROVE  ShadowIsCurrent'
<1> USE FieldFacts DEF StarterInv, StarterTypeOK, ShadowIsCurrent
<1>1. CASE FactoryReset
  BY <1>1 DEF FactoryReset
<1>2. CASE FormatField
  BY <1>2, ResetIsCount DEF FormatField
<1>3. CASE RecordField
  BY <1>3 DEF RecordField, CountHeld, Reported
<1>4. ASSUME NEW delivered \in BOOLEAN, Send(delivered) PROVE ShadowIsCurrent'
  <2>1. \A f \in Reported : doc[f] = prev[f]
    BY <1>4 DEF Send, ReportIsRecorded
  <2> QED
    BY <1>4, <2>1 DEF Send, Reported
<1>5. CASE UNCHANGED <<prev, doc, shadow, stale>>
  BY <1>5
<1> QED
  BY <1>1, <1>2, <1>3, <1>4, <1>5
     DEF StarterNext, CloudStep, starterVars, Press, LinkEvent, ConnectedEvent,
         Start, RegisterDelta, YieldOnline, YieldLost, YieldFails, CompareField

\* The invariant of aws_starter_demo.
THEOREM StarterInvariant == StarterSpec => []StarterInv
<1>1. StarterInit => StarterInv
  BY InitTypes, FieldFacts, ResetIsCount
     DEF StarterInit, StarterInv, OnePressAhead, CountHeld, ReportIsRecorded,
         ShadowIsCurrent, Reported, NoFields, Zeros, MinusOnes
<1>2. StarterInv /\ [StarterNext]_starterVars => StarterInv'
  BY StepTypes, StepOnePress, StepCountHeld, StepReportIsRecorded,
     StepShadowIsCurrent DEF StarterInv
<1> QED
  BY <1>1, <1>2, PTL DEF StarterSpec

\* For any number of buttons: no press is counted before the one before it was
\* taken up by the cloud thread, also when the counter wraps.
THEOREM OnePressAheadCorrect == StarterSpec => []OnePressAhead
BY StarterInvariant, PTL DEF StarterInv

\* What the document says of a field is what the thread remembers to have
\* reported, whenever the interrupts come.
THEOREM ReportIsRecordedCorrect == StarterSpec => []ReportIsRecorded
BY StarterInvariant, PTL DEF StarterInv

\* A field whose last report was delivered stands in the shadow as the device
\* remembers it.
THEOREM ShadowIsCurrentCorrect == StarterSpec => []ShadowIsCurrent
BY StarterInvariant, PTL DEF StarterInv

-----------------------------------------------------------------------------
(* The provisioning page. *)

\* The timer that lists the networks runs on the page of the list only, and an
\* answer is dropped while it does not.
ListInv ==
  /\ screen \in {"scan", "select", "invalid"} => model = "unconfigured"
  /\ screen \in {"select", "invalid"} => scanListTimer = "null"
  /\ model = "nw_posted" => scanListTimer = "null"
  /\ shown /\ model = "unconfigured" => scanListTimer # "undefined"
  /\ scanListTimer \in {"undefined", "null", "set"}
  /\ scanListTimer = "set" => model = "unconfigured"
  /\ scanListTimer = "null" => scanListRequestAborted
  /\ screen = "home" => ~shown
  /\ screen # "home" => shown
  /\ ~shown => scanListTimer = "undefined"
  /\ OneScanTimer

\* What the list of networks depends on.
listVars == <<model, shown, screen, scanListTimer, scanLost, scanListRequestAborted>>

LEMMA ListRests ==
  ASSUME ListInv, UNCHANGED listVars
  PROVE  ListInv'
BY DEF ListInv, listVars, OneScanTimer

\* A step that leaves the page of the selected network alone, or is none of those
\* that EntryStays forbids.
Leaves == screen = "select" => screen' \in {"select", "connError"}

\* The list of networks is drawn by an answer to it, or by the user's return.
LEMMA ListStep ==
  ASSUME ListInv, [PageNext]_pageVars
  PROVE  ListInv' /\ (Leaves \/ BackToScanList \/ SubmitNetwork)
<1> USE DEF Leaves
<1>1. CASE OpenProvisioning
  BY <1>1 DEF OpenProvisioning, ListInv, OneScanTimer, Timers, Flags
<1>2. CASE SubmitCert
  BY <1>2, ListRests DEF SubmitCert, listVars, Timers, Flags
<1>3. CASE SelectNetwork
  BY <1>3 DEF SelectNetwork, CancelAutoRefreshScanList, ListInv, OneScanTimer
<1>4. CASE BackToScanList
  BY <1>4 DEF BackToScanList, AutoRefreshScanList, ListInv, OneScanTimer
<1>5. CASE BackToSelectedNetwork
  BY <1>5 DEF BackToSelectedNetwork, ListInv, OneScanTimer, Timers, Flags
<1>6. CASE SubmitNetwork
  BY <1>6 DEF SubmitNetwork, ListInv, OneScanTimer, Timers, Flags
<1>7. CASE ScanTick
  BY <1>7 DEF ScanTick, ListInv, OneScanTimer, Timers
<1>8. CASE SysTick \/ RunDelayed
  BY <1>8, ListRests DEF SysTick, RunDelayed, listVars, Timers, Flags
<1>9. CASE CertGetEnds
  BY <1>9, ListRests DEF CertGetEnds, Render, ListInv, OneScanTimer, Timers, Flags, listVars
<1>10. ASSUME NEW kind \in Posts, PostEnds(kind)
       PROVE  ListInv' /\ Leaves
  BY <1>10 DEF PostEnds, Render, ListInv, OneScanTimer, Timers, Flags
<1>11. ASSUME NEW kind, NEW failed, GetFails(kind, failed)
       PROVE  ListInv' /\ Leaves
  BY <1>11 DEF GetFails, Render, ConnErrorScreen, ListInv, OneScanTimer, Timers, Flags
<1>12. CASE ScanEnds
  <2>1. CASE ScanDone
    BY <2>1 DEF ScanDone, Render, ListInv, OneScanTimer, Timers, Flags
  <2> QED
    BY <1>11, <1>12, <2>1 DEF ScanEnds, ScanFails
<1>13. CASE NetworkEnds
  <2>1. UNCHANGED <<shown, scanListTimer, scanLost, scanListRequestAborted>>
    BY <1>13 DEF NetworkEnds
  <2>2. \/ UNCHANGED <<model, screen>>
        \/ /\ model = "nw_posted"
           /\ model' = "configured"
           /\ screen' \in {screen, "connected"}
        \/ /\ model = "nw_posted"
           /\ model' = "unconfigured"
           /\ Render("invalid")
        \/ UNCHANGED model /\ Render(ConnErrorScreen)
    BY <1>13 DEF NetworkEnds, DrawConfigured
  <2> QED
    BY <2>1, <2>2 DEF Render, ConnErrorScreen, ListInv, OneScanTimer
<1>14. ASSUME NEW kind \in SysGets, SysDone(kind)
       PROVE  ListInv' /\ Leaves
  <2> DEFINE fl == Finished(flight, kind)
  <2> HIDE DEF fl
  <2>1. CASE sysRequestAborted
    BY <1>14, <2>1 DEF SysDone, ListInv, OneScanTimer, Timers, Flags
  <2>2. CASE ~sysRequestAborted
    <3>1. PICK other \in BOOLEAN, configured \in BOOLEAN, isConnected \in BOOLEAN :
            \/ FirstSysData(fl, configured, isConnected)
            \/ OtherDevice(fl)
            \/ StillConfigured(fl, isConnected)
            \/ NoLongerConfigured(fl)
            \/ UNCHANGED <<model, Flags, screen, Timers>>
      BY <1>14, <2>2 DEF SysDone, fl
    <3>2. UNCHANGED shown
      BY <1>14 DEF SysDone
    <3>3. CASE FirstSysData(fl, configured, isConnected)
      BY <3>2, <3>3 DEF FirstSysData, Unconfigured, AutoRefreshScanList, DrawConfigured,
                        ListInv, OneScanTimer
    <3>4. CASE OtherDevice(fl)
      BY <3>2, <3>4 DEF OtherDevice, Render, ListInv, OneScanTimer, Timers, Flags
    <3>5. CASE StillConfigured(fl, isConnected)
      BY <3>2, <3>5 DEF StillConfigured, Render, ListInv, OneScanTimer
    <3>6. CASE NoLongerConfigured(fl)
      <4>1. /\ model = "configured"
            /\ UNCHANGED screen
            /\ \/ UNCHANGED <<model, scanListRequestAborted, scanListTimer, scanLost>>
               \/ Unconfigured(fl)
        BY <3>6, Zenon DEF NoLongerConfigured
      <4>2. CASE UNCHANGED <<model, scanListRequestAborted, scanListTimer, scanLost>>
        BY <3>2, <4>1, <4>2 DEF ListInv, OneScanTimer
      <4>3. CASE Unconfigured(fl) /\ shown
        BY <3>2, <4>1, <4>3 DEF Unconfigured, AutoRefreshScanList, ListInv, OneScanTimer
      <4>4. CASE Unconfigured(fl) /\ ~shown
        BY <3>2, <4>1, <4>4 DEF Unconfigured, ListInv, OneScanTimer
      <4> QED
        BY <4>1, <4>2, <4>3, <4>4
    <3>7. CASE UNCHANGED <<model, Flags, screen, Timers>>
      BY <3>2, <3>7 DEF ListInv, OneScanTimer, Timers, Flags
    <3> QED
      BY <3>1, <3>3, <3>4, <3>5, <3>6, <3>7
  <2> QED
    BY <2>1, <2>2
<1>15. CASE \E kind \in SysGets : SysEnds(kind)
  BY <1>11, <1>14, <1>15 DEF SysEnds, SysFails
<1>16. CASE UNCHANGED pageVars
  BY <1>16, ListRests DEF pageVars, listVars
<1> QED
  BY <1>1, <1>2, <1>3, <1>4, <1>5, <1>6, <1>7, <1>8, <1>9, <1>10, <1>12, <1>13,
     <1>15, <1>16 DEF PageNext

\* The invariant of the page's list of networks.
THEOREM ListInvariant == PageSpec => []ListInv
<1>1. PageInit => ListInv
  BY DEF PageInit, ListInv, OneScanTimer
<1>2. ListInv /\ [PageNext]_pageVars => ListInv'
  BY ListStep
<1> QED
  BY <1>1, <1>2, PTL DEF PageSpec

\* Whatever the answers and their order, the view never loses the handle of a
\* timer that lists the networks.
THEOREM OneScanTimerCorrect == PageSpec => []OneScanTimer
BY ListInvariant, PTL DEF ListInv

\* Whatever is in flight when the user has chosen a network, only the user, or the
\* report that the device cannot be reached, leaves the page of its passphrase.
THEOREM EntryStaysCorrect == PageSpec => EntryStays
<1>1. ListInv /\ [PageNext]_pageVars
        => [screen = "select" /\ screen' # "select"
            => BackToScanList \/ SubmitNetwork \/ screen' = "connError"]_pageVars
  BY ListStep DEF Leaves
<1> QED
  BY <1>1, ListInvariant, PTL DEF PageSpec, EntryStays

-----------------------------------------------------------------------------
(* connected_maraca. *)

\* The thread has not been created while a connected event would create it.
NotYetCreated ==
  device_state = "INITIAL" /\ eventPc = "idle" => maracaPc = "none"

\* What the event thread and the cloud thread know of a client that the events
\* have disconnected: it was disconnected for a lost link, of which device_state
\* has not heard yet, or says so until the thread connects again.
ReturnsTold ==
  /\ eventPc = "lost" => uplink = "down"
  /\ device_state = "DISCONNECTED" /\ maracaPc \in Reconnecting => overtaken
  /\ connection = "closed" /\ maracaPc \in {"reconnect", "store"} =>
       eventPc = "lost" \/ overtaken
  /\ connection = "closed" /\ eventPc # "lost" /\ ~overtaken =>
       \/ device_state = "RECONNECTED"
       \/ /\ device_state = "DISCONNECTED"
          /\ uplink = "down" \/ eventPc \in {"connected", "restored"}

Close == \A a \in Axes : Abs(sample[a] - offered[a]) <= THRESHOLD_ACC

\* The values compared with are those last published, and the reading is close
\* to them but between the reading and the comparison.
DriftBounded ==
  /\ last = offered
  /\ maracaPc # "publish" => Close

MaracaInv ==
  /\ MaracaTypeOK
  /\ NotYetCreated
  /\ ReturnsTold
  /\ DriftBounded

LEMMA AccelerationRange ==
  ASSUME NEW byte \in Registers
  PROVE  Acceleration(byte) \in -32 .. 31
BY MaracaAssumption DEF Acceleration

LEMMA MaracaStepTypes ==
  ASSUME MaracaTypeOK, [MaracaNext]_maracaVars
  PROVE  MaracaTypeOK'
<1> USE DEF MaracaTypeOK, MaracaThread, WifiSide, MaracaGoto, MaracaLoop, Reconnecting
<1>1. CASE WifiEvent
  BY <1>1 DEF WifiEvent, EventDisconnect, MarkDisconnected, EventConnected,
              CreateThread, TestState, MarkReconnected
<1>2. CASE MaracaStart \/ CheckState \/ Reinit \/ StoreConnected \/ MaracaYield
  BY <1>2 DEF MaracaStart, CheckState, Reinit, StoreConnected, MaracaYield
<1>3. CASE ShadowConnect("connect", "check") \/ ShadowConnect("reconnect", "store")
  BY <1>3 DEF ShadowConnect
<1>4. CASE GetXYZ
  <2>1. PICK byte \in [Axes -> Registers] :
          sample' = [a \in Axes |-> Acceleration(byte[a])]
    BY <1>4 DEF GetXYZ
  <2>2. sample' \in [Axes -> -32 .. 31]
    BY <2>1, AccelerationRange
  <2> QED
    BY <1>4, <2>2 DEF GetXYZ
<1>5. CASE PublishChange
  BY <1>5 DEF PublishChange
<1>6. CASE UNCHANGED maracaVars
  BY <1>6 DEF maracaVars
<1> QED
  BY <1>1, <1>2, <1>3, <1>4, <1>5, <1>6 DEF MaracaNext, MaracaStep

LEMMA StepNotYetCreated ==
  ASSUME NotYetCreated, [MaracaNext]_maracaVars
  PROVE  NotYetCreated'
<1> USE DEF NotYetCreated, MaracaThread, WifiSide, MaracaGoto
<1>1. CASE WifiEvent
  BY <1>1 DEF WifiEvent, EventDisconnect, MarkDisconnected, EventConnected,
              CreateThread, TestState, MarkReconnected
<1>2. CASE MaracaStep
  BY <1>2 DEF MaracaStep, MaracaStart, ShadowConnect, CheckState, Reinit,
              StoreConnected, MaracaYield, GetXYZ, PublishChange
<1>3. CASE UNCHANGED maracaVars
  BY <1>3 DEF maracaVars
<1> QED
  BY <1>1, <1>2, <1>3 DEF MaracaNext

\* An event that comes in the middle of a reconnection is the one that counts as
\* overtaken.
LEMMA StepReturnsTold ==
  ASSUME MaracaTypeOK, ReturnsTold, [MaracaNext]_maracaVars
  PROVE  ReturnsTold'
<1> USE DEF ReturnsTold, MaracaTypeOK, MaracaThread, WifiSide, MaracaGoto,
            Reconnecting, MaracaLoop
<1>1. CASE EventDisconnect
  BY <1>1 DEF EventDisconnect
<1>2. CASE MarkDisconnected
  BY <1>2 DEF MarkDisconnected
<1>3. CASE EventConnected
  BY <1>3 DEF EventConnected, CreateThread
<1>4. CASE TestState
  BY <1>4 DEF TestState
<1>5. CASE MarkReconnected
  BY <1>5 DEF MarkReconnected
<1>6. CASE MaracaStart \/ ShadowConnect("connect", "check")
             \/ ShadowConnect("reconnect", "store")
  BY <1>6 DEF MaracaStart, ShadowConnect
<1>7. CASE CheckState \/ Reinit \/ StoreConnected
  BY <1>7 DEF CheckState, Reinit, StoreConnected
<1>8. CASE MaracaYield \/ GetXYZ \/ PublishChange
  BY <1>8 DEF MaracaYield, GetXYZ, PublishChange
<1>9. CASE UNCHANGED maracaVars
  BY <1>9 DEF maracaVars
<1> QED
  BY <1>1, <1>2, <1>3, <1>4, <1>5, <1>6, <1>7, <1>8, <1>9
     DEF MaracaNext, MaracaStep, WifiEvent

\* A change that is not worth a message is small.
LEMMA UnchangedIsClose ==
  ASSUME MaracaTypeOK, last = offered, ~Changed
  PROVE  Close
<1> SUFFICES ASSUME NEW a \in Axes
             PROVE  Abs(sample[a] - offered[a]) <= THRESHOLD_ACC
  BY DEF Close
<1>1. sample[a] \in Int /\ offered[a] \in Int
  BY DEF MaracaTypeOK
<1>2. ~(Abs(offered[a] - sample[a]) > THRESHOLD_ACC)
  BY DEF Changed
<1> QED
  BY <1>1, <1>2 DEF Abs, THRESHOLD_ACC

LEMMA StepDriftBounded ==
  ASSUME MaracaTypeOK, NotYetCreated, DriftBounded, [MaracaNext]_maracaVars
  PROVE  DriftBounded'
<1> USE DEF DriftBounded, MaracaThread, WifiSide, MaracaGoto
<1>1. CASE UNCHANGED <<sample, offered, last>> /\ maracaPc # "publish"
  BY <1>1 DEF Close
<1>2. CASE UNCHANGED <<sample, offered, last, maracaPc>>
  BY <1>2 DEF Close
<1>3. CASE EventConnected
  <2>1. maracaPc' = maracaPc \/ maracaPc = "none"
    BY <1>3 DEF EventConnected, CreateThread, NotYetCreated
  <2> QED
    BY <1>1, <1>2, <1>3, <2>1 DEF EventConnected
<1>4. CASE GetXYZ
  BY <1>4 DEF GetXYZ
<1>5. CASE PublishChange /\ Changed
  <2>1. \A a \in Axes : Abs(sample[a] - sample[a]) <= THRESHOLD_ACC
    BY DEF MaracaTypeOK, Abs, THRESHOLD_ACC
  <2> QED
    BY <1>5, <2>1 DEF PublishChange, Close
<1>6. CASE PublishChange /\ ~Changed
  BY <1>6, UnchangedIsClose DEF PublishChange, Close
<1> QED
  BY <1>1, <1>2, <1>3, <1>4, <1>5, <1>6
     DEF MaracaNext, MaracaStep, WifiEvent, EventDisconnect, MarkDisconnected,
         TestState, MarkReconnected, MaracaStart, ShadowConnect, CheckState,
         Reinit, StoreConnected, MaracaYield, maracaVars

\* The invariant of connected_maraca.
THEOREM MaracaInvariant == MaracaSpec => []MaracaInv
<1>1. MaracaInit => MaracaInv
  <2> HAVE MaracaInit
  <2>1. MaracaTypeOK
    <3>1. [a \in Axes |-> 0] \in [Axes -> -32 .. 31]
      OBVIOUS
    <3> QED
      BY <3>1 DEF MaracaInit, MaracaTypeOK
  <2>2. Close
    <3>1. \A a \in Axes : sample[a] = 0 /\ offered[a] = 0
      BY DEF MaracaInit
    <3>2. Abs(0 - 0) <= THRESHOLD_ACC
      BY DEF Abs, THRESHOLD_ACC
    <3> QED
      BY <3>1, <3>2, Zenon DEF Close
  <2> QED
    BY <2>1, <2>2
       DEF MaracaInit, MaracaInv, NotYetCreated, ReturnsTold, DriftBounded
<1>2. MaracaInv /\ [MaracaNext]_maracaVars => MaracaInv'
  BY MaracaStepTypes, StepNotYetCreated, StepReturnsTold, StepDriftBounded
     DEF MaracaInv
<1> QED
  BY <1>1, <1>2, PTL DEF MaracaSpec

\* However the events and the thread interleave, the cloud thread is created
\* once.
THEOREM OneCloudThreadCorrect == MaracaSpec => OneCloudThread
<1>1. MaracaInv => [EventConnected /\ CreateThread => maracaPc = "none"]_maracaVars
  BY DEF MaracaInv, NotYetCreated, EventConnected, CreateThread
<1> QED
  BY <1>1, MaracaInvariant, PTL DEF OneCloudThread

\* Only a link lost in the middle of a reconnection can leave the client
\* disconnected on a link that has returned.
THEOREM OnlyTheRaceStrandsCorrect == MaracaSpec => []OnlyTheRaceStrands
<1>1. MaracaInv => OnlyTheRaceStrands
  BY DEF MaracaInv, ReturnsTold, OnlyTheRaceStrands
<1> QED
  BY <1>1, MaracaInvariant, PTL

\* However slowly the reading moves away from what was last published, it is
\* never further than the threshold when the thread goes on.
THEOREM NoSilentDriftCorrect == MaracaSpec => []NoSilentDrift
<1>1. MaracaInv => NoSilentDrift
  BY DEF MaracaInv, DriftBounded, Close, NoSilentDrift, Reconnecting
<1> QED
  BY <1>1, MaracaInvariant, PTL

-----------------------------------------------------------------------------
(* The hook tables. *)

Busy(r) == hookPc[r] # "idle"

\* Every two calls about one function at once have been taken note of.
OverlapsNoted ==
  /\ setUpAtOnce \subseteq contended
  /\ \A r, s \in Registrars :
       r # s /\ Busy(r) /\ func[r] = func[s] =>
         /\ func[r] \in contended
         /\ hookPc[r] \in SettingUp /\ hookPc[s] \in SettingUp => func[r] \in setUpAtOnce

\* What a call knows of an entry it has passed, although others write the table:
\* a call that sets up, that its function is there only by a thread that set it up
\* at the same time; a call that removes, that it is there only in contention.
Passed(r, k) ==
  hooks[k] = func[r] =>
    /\ func[r] \in contended
    /\ hookPc[r] \in SettingUp => func[r] \in setUpAtOnce /\ by[k] # r
CallsKnow ==
  \A r \in Registrars :
    /\ Busy(r) <=> func[r] \in Hooks
    /\ ~Busy(r) => at[r] = 0
    /\ hookPc[r] \in Writing => at[r] \in Entry
    /\ hookPc[r] \in {"find", "look"} => \A k \in Entry : k < at[r] => Passed(r, k)
    /\ hookPc[r] \in {"place", "store"} => \A k \in Entry : Passed(r, k)

\* ... and what it knows of the entry it is about to write, unless it raced.
WritesFit ==
  ~raced =>
    \A r \in Registrars :
      /\ hookPc[r] = "store" => hooks[at[r]] = NULL
      /\ hookPc[r] = "clear" => hooks[at[r]] = func[r]

HooksInv ==
  /\ HooksTypeOK
  /\ OnlyOverlapHooksTwice
  /\ OverlapsNoted
  /\ CallsKnow
  /\ WritesFit
  /\ SetUpIsHooked

LEMMA HooksStepTypes ==
  ASSUME HooksTypeOK, CallsKnow, [HooksNext]_hookVars
  PROVE  HooksTypeOK'
<1> USE HooksAssumption DEF HooksTypeOK, HookGoto, FirstEntry, NextEntry, ReturnHook,
        Scanning, Writing, overlapVars
<1>1. ASSUME NEW r \in Registrars, NEW f \in Hooks, BeginHookCall(r, f)
      PROVE  HooksTypeOK'
  BY <1>1 DEF BeginHookCall
<1>2. ASSUME NEW r \in Registrars, FindHook(r) PROVE HooksTypeOK'
  BY <1>2 DEF FindHook, CallsKnow, Busy
<1>3. ASSUME NEW r \in Registrars, PlaceHook(r) PROVE HooksTypeOK'
  BY <1>3 DEF PlaceHook
<1>4. ASSUME NEW r \in Registrars, LookForHook(r) PROVE HooksTypeOK'
  BY <1>4 DEF LookForHook
<1>5. ASSUME NEW r \in Registrars, StoreHook(r) PROVE HooksTypeOK'
  BY <1>5 DEF StoreHook, WriteEntry, CallsKnow, Busy
<1>6. ASSUME NEW r \in Registrars, ClearHook(r) PROVE HooksTypeOK'
  <2>1. hooks' \in [Entry -> Hooks \cup {NULL}] /\ by' \in [Entry -> Registrars \cup {NULL}]
    BY <1>6 DEF ClearHook, WriteEntry
  <2> QED
    BY <1>6, <2>1 DEF ClearHook, WriteEntry
<1>7. CASE UNCHANGED hookVars
  BY <1>7 DEF hookVars
<1> QED
  BY <1>1, <1>2, <1>3, <1>4, <1>5, <1>6, <1>7 DEF HooksNext

\* The calls in progress only end and move on; those that begin are noted.
LEMMA StepOverlapsNoted ==
  ASSUME HooksInv, NEW r \in Registrars,
         \/ \E f \in Hooks : BeginHookCall(r, f)
         \/ FindHook(r) \/ PlaceHook(r) \/ StoreHook(r)
         \/ LookForHook(r) \/ ClearHook(r)
  PROVE  OverlapsNoted'
<1> USE DEF OverlapsNoted, HooksInv, HooksTypeOK, HookGoto, Busy
<1>1. ASSUME NEW f \in Hooks, BeginHookCall(r, f) PROVE OverlapsNoted'
  <2>1. /\ func' = [func EXCEPT ![r] = f]
        /\ \A s \in Registrars \ {r} : hookPc'[s] = hookPc[s] /\ func'[s] = func[s]
        /\ func'[r] = f
        /\ setUpAtOnce \subseteq setUpAtOnce' /\ contended \subseteq contended'
    BY <1>1 DEF BeginHookCall
  <2>2. setUpAtOnce' \subseteq contended'
    BY <1>1 DEF BeginHookCall, Others
  <2>3. ASSUME NEW s \in Registrars \ {r}, func[s] = f
        PROVE  /\ f \in contended'
               /\ hookPc'[r] \in SettingUp /\ hookPc[s] \in SettingUp => f \in setUpAtOnce'
    BY <1>1, <2>3 DEF BeginHookCall, Others, SettingUp
  <2> QED
    BY <2>1, <2>2, <2>3
<1>2. CASE FindHook(r) \/ PlaceHook(r) \/ StoreHook(r) \/ LookForHook(r) \/ ClearHook(r)
  <2>1. /\ UNCHANGED <<setUpAtOnce, contended>>
        /\ \A s \in Registrars \ {r} : hookPc'[s] = hookPc[s] /\ func'[s] = func[s]
    BY <1>2 DEF FindHook, PlaceHook, StoreHook, LookForHook, ClearHook, WriteEntry,
                ReturnHook, FirstEntry, NextEntry, overlapVars
  <2>2. \/ hookPc'[r] = "idle" /\ func'[r] = NULL
        \/ /\ func'[r] = func[r] /\ hookPc[r] # "idle"
           /\ hookPc'[r] \in SettingUp => hookPc[r] \in SettingUp
    BY <1>2 DEF FindHook, PlaceHook, StoreHook, LookForHook, ClearHook, WriteEntry,
                ReturnHook, FirstEntry, NextEntry, SettingUp
  <2>3. \A s \in Registrars : hookPc[s] # "idle" => func[s] \in Hooks
    BY DEF CallsKnow
  <2> QED
    BY <2>1, <2>2, <2>3, HooksAssumption
<1> QED
  BY <1>1, <1>2

\* A step that writes no entry keeps what is said of the entries.
LEMMA NoWriteKeeps ==
  ASSUME UNCHANGED <<hooks, raced, by>>, setUpAtOnce \subseteq setUpAtOnce'
  PROVE  OnlyOverlapHooksTwice => OnlyOverlapHooksTwice'
BY DEF OnlyOverlapHooksTwice

\* The steps that look at the table without writing it.
LEMMA ScanStepKnows ==
  ASSUME HooksInv, NEW r \in Registrars,
         \/ \E f \in Hooks : BeginHookCall(r, f)
         \/ FindHook(r) \/ PlaceHook(r) \/ LookForHook(r)
  PROVE  OnlyOverlapHooksTwice' /\ CallsKnow' /\ WritesFit' /\ SetUpIsHooked'
<1> USE HooksAssumption DEF HooksInv, HooksTypeOK, HookGoto, FirstEntry,
        NextEntry, ReturnHook, Scanning, Writing, SettingUp, Entry, overlapVars
<1>1. /\ UNCHANGED <<hooks, raced, by>>
      /\ setUpAtOnce \subseteq setUpAtOnce' /\ contended \subseteq contended'
  BY DEF BeginHookCall, FindHook, PlaceHook, LookForHook
<1>2. OnlyOverlapHooksTwice'
  BY <1>1, NoWriteKeeps
<1>3. CallsKnow'
  <2> USE DEF CallsKnow, Passed, Busy
  <2>1. ASSUME NEW f \in Hooks, BeginHookCall(r, f) PROVE CallsKnow'
    <3>1. at[r] = 0 /\ hookPc'[r] \in {"find", "look"} /\ func'[r] = f
      BY <2>1 DEF BeginHookCall
    <3>2. UNCHANGED at /\ \A s \in Registrars \ {r} : hookPc'[s] = hookPc[s] /\ func'[s] = func[s]
      BY <2>1 DEF BeginHookCall
    <3>3. \A s \in Registrars \ {r}, k \in Entry : Passed(s, k) => Passed(s, k)'
      BY <3>2, <1>1
    <3>4. ASSUME NEW s \in Registrars
          PROVE  /\ Busy(s)' <=> func'[s] \in Hooks
                 /\ ~Busy(s)' => at'[s] = 0
                 /\ hookPc'[s] \in Writing => at'[s] \in Entry
                 /\ hookPc'[s] \in {"find", "look"} =>
                      \A k \in Entry : k < at'[s] => Passed(s, k)'
                 /\ hookPc'[s] \in {"place", "store"} => \A k \in Entry : Passed(s, k)'
      <4> HIDE DEF Passed
      <4>1. CASE s = r
        BY <4>1, <3>1, <3>2
      <4>2. CASE s # r
        BY <4>2, <3>2, <3>3
      <4> QED
        BY <4>1, <4>2
    <3> HIDE DEF Passed
    <3> QED
      BY <3>4
  <2>2. CASE FindHook(r)
    BY <2>2 DEF FindHook
  <2>3. CASE PlaceHook(r)
    BY <2>3 DEF PlaceHook
  <2>4. CASE LookForHook(r)
    <3>1. CASE at[r] = MAX_CUSTOM_HOOKS
      BY <2>4, <3>1 DEF LookForHook
    <3>2. CASE at[r] # MAX_CUSTOM_HOOKS /\ hooks[at[r]] = func[r]
      BY <2>4, <3>2 DEF LookForHook
    <3>3. CASE at[r] # MAX_CUSTOM_HOOKS /\ hooks[at[r]] # func[r]
      <4>1. /\ at' = [at EXCEPT ![r] = at[r] + 1]
            /\ UNCHANGED <<hooks, hookPc, func, by, setUpAtOnce, contended>>
            /\ hookPc[r] = "look"
        BY <2>4, <3>3 DEF LookForHook
      <4>2. \A s \in Registrars, k \in Entry : Passed(s, k) => Passed(s, k)'
        BY <4>1
      <4>3. \A k \in Entry : k = at[r] => Passed(r, k)'
        BY <3>3, <4>1
      <4>4. at'[r] = at[r] + 1 /\ \A s \in Registrars \ {r} : at'[s] = at[s]
        BY <4>1
      <4>5. \A k \in Entry : k < at[r] + 1 => k < at[r] \/ k = at[r]
        OBVIOUS
      <4> HIDE DEF Passed
      <4> QED
        BY <4>1, <4>2, <4>3, <4>4, <4>5
    <3> QED
      BY <3>1, <3>2, <3>3
  <2> QED
    BY <2>1, <2>2, <2>3, <2>4
<1>4. WritesFit'
  BY <1>1 DEF WritesFit, BeginHookCall, FindHook, PlaceHook, LookForHook
<1>5. SetUpIsHooked'
  <2> USE DEF SetUpIsHooked
  <2>1. CASE UNCHANGED setUp
    BY <1>1, <2>1
  <2>2. CASE FindHook(r) /\ setUp' = setUp \cup {func[r]}
    BY <1>1, <2>2 DEF FindHook
  <2>3. CASE LookForHook(r) /\ setUp' = setUp \ {func[r]}
    BY <1>1, <2>3 DEF LookForHook, CallsKnow, Passed
  <2> QED
    BY <2>1, <2>2, <2>3 DEF BeginHookCall, FindHook, PlaceHook, LookForHook
<1> QED
  BY <1>2, <1>3, <1>4, <1>5

\* The steps that write an entry.
LEMMA WriteStepKnows ==
  ASSUME HooksInv, NEW r \in Registrars, StoreHook(r) \/ ClearHook(r)
  PROVE  OnlyOverlapHooksTwice' /\ CallsKnow' /\ WritesFit' /\ SetUpIsHooked'
<1> DEFINE stored == IF hookPc[r] = "store" THEN func[r] ELSE NULL
<1> DEFINE writer == IF hookPc[r] = "store" THEN r ELSE NULL
<1>1. /\ hookPc[r] \in Writing
      /\ WriteEntry(r, stored)
      /\ by' = [by EXCEPT ![at[r]] = writer]
      /\ setUp' = IF hookPc[r] = "store" THEN setUp \cup {func[r]}
                                         ELSE setUp \ {func[r]}
  BY DEF StoreHook, ClearHook, Writing
<1>2. /\ at[r] \in Entry
      /\ func[r] \in Hooks
      /\ hookPc[r] = "store" => \A k \in Entry : Passed(r, k)
  BY <1>1 DEF HooksInv, CallsKnow, Busy, Writing
<1>3. \A k \in Entry : /\ hooks'[k] = IF k = at[r] THEN stored ELSE hooks[k]
                       /\ by'[k] = IF k = at[r] THEN writer ELSE by[k]
  BY <1>1, <1>2 DEF WriteEntry, HooksInv, HooksTypeOK
<1>4. stored \in Hooks => hookPc[r] = "store" /\ stored = func[r] /\ writer = r
  BY HooksAssumption
<1>5. stored \notin Hooks => stored = NULL
  BY <1>2
<1> HIDE DEF stored, writer
<1>0. UNCHANGED <<setUpAtOnce, contended>>
  BY <1>1 DEF WriteEntry, overlapVars
<1>6. OnlyOverlapHooksTwice'
  <2> SUFFICES ASSUME NEW i \in Entry, NEW j \in Entry, i # j,
                      hooks'[i] # NULL, hooks'[i] = hooks'[j]
               PROVE  hooks'[i] \in setUpAtOnce /\ by'[i] # by'[j]
    BY <1>0 DEF OnlyOverlapHooksTwice
  <2>1. \A k \in Entry : hooks[k] \in Hooks \cup {NULL}
    BY DEF HooksInv, HooksTypeOK
  <2>2. CASE i # at[r] /\ j # at[r]
    BY <2>2, <1>3 DEF HooksInv, OnlyOverlapHooksTwice
  <2>3. ASSUME NEW k \in Entry, k # at[r], hooks[k] = stored, stored # NULL
        PROVE  hooks[k] \in setUpAtOnce /\ by[k] # writer
    BY <2>3, <1>2, <1>4, <1>5 DEF Passed, SettingUp
  <2> QED
    BY <2>2, <2>3, <1>3
<1>7. \A s \in Registrars \ {r} : /\ hookPc'[s] = hookPc[s]
                                 /\ func'[s] = func[s]
                                 /\ at'[s] = at[s]
  BY <1>1 DEF WriteEntry, ReturnHook, HookGoto, HooksInv, HooksTypeOK
<1>8. hookPc'[r] = "idle" /\ func'[r] = NULL /\ at'[r] = 0
  BY <1>1 DEF WriteEntry, ReturnHook, HookGoto, HooksInv, HooksTypeOK
<1>9. CallsKnow'
  <2>1. ASSUME NEW s \in Registrars \ {r}, Busy(s), NEW k \in Entry,
               Passed(s, k) \/ k = at[r]
        PROVE  Passed(s, k)'
    <3>1. func[s] \in Hooks
      BY <2>1 DEF HooksInv, CallsKnow
    <3>2. CASE k # at[r]
      BY <2>1, <3>2, <1>0, <1>3, <1>7 DEF Passed
    <3>3. CASE k = at[r] /\ stored = func[s]
      <4>1. hookPc[r] = "store" /\ func[r] = func[s] /\ writer = r
        BY <3>1, <3>3, <1>4
      <4>2. /\ func[s] \in contended
            /\ hookPc[s] \in SettingUp => func[s] \in setUpAtOnce
        BY <2>1, <4>1 DEF HooksInv, OverlapsNoted, Busy, SettingUp
      <4> QED
        BY <2>1, <4>1, <4>2, <3>3, <1>0, <1>3, <1>7 DEF Passed
    <3>4. CASE k = at[r] /\ stored # func[s]
      BY <2>1, <3>4, <1>3, <1>7 DEF Passed
    <3> QED
      BY <3>2, <3>3, <3>4
  <2>2. ASSUME NEW s \in Registrars \ {r}
        PROVE  /\ Busy(s)' <=> func'[s] \in Hooks
               /\ ~Busy(s)' => at'[s] = 0
               /\ hookPc'[s] \in Writing => at'[s] \in Entry
               /\ hookPc'[s] \in {"find", "look"} =>
                    \A k \in Entry : k < at'[s] => Passed(s, k)'
               /\ hookPc'[s] \in {"place", "store"} => \A k \in Entry : Passed(s, k)'
    BY <2>1, <1>7 DEF CallsKnow, Busy, HooksInv
  <2> QED
    BY <2>2, <1>8, HooksAssumption DEF CallsKnow, Busy, Writing
<1>10. WritesFit'
  <2>1. ASSUME ~raced', NEW s \in Registrars \ {r}, hookPc[s] \in Writing
        PROVE  ~raced /\ hooks'[at[s]] = hooks[at[s]]
    <3>1. at[s] # at[r] /\ ~raced
      BY <1>1, <2>1 DEF WriteEntry
    <3>2. at[s] \in Entry
      BY <2>1 DEF HooksInv, CallsKnow
    <3> QED
      BY <3>1, <3>2, <1>3
  <2> QED
    BY <2>1, <1>7, <1>8 DEF WritesFit, HooksInv, Writing
<1>11. SetUpIsHooked'
  <2> SUFFICES ASSUME ~raced', NEW f \in Hooks, f \notin contended
               PROVE  f \in setUp' <=> \E i \in Entry : hooks'[i] = f
    BY <1>0 DEF SetUpIsHooked
  <2>1. ~raced
    BY <1>1 DEF WriteEntry
  <2>2. f \in setUp <=> \E i \in Entry : hooks[i] = f
    BY <2>1 DEF HooksInv, SetUpIsHooked
  <2>3. hooks[at[r]] = IF hookPc[r] = "store" THEN NULL ELSE func[r]
    BY <2>1, <1>1 DEF HooksInv, WritesFit, Writing
  <2>4. \A i \in Entry : i # at[r] /\ hooks[at[r]] = f => hooks[i] # f
    BY <1>2, HooksAssumption DEF HooksInv, OnlyOverlapHooksTwice, OverlapsNoted
  <2>5. CASE hookPc[r] = "store"
    <3>1. stored = func[r]
      BY <2>5 DEF stored
    <3> QED
      BY <2>5, <3>1, <2>2, <2>3, <1>1, <1>2, <1>3, HooksAssumption
  <2>6. CASE hookPc[r] # "store"
    <3>1. stored = NULL
      BY <2>6 DEF stored
    <3>2. CASE f = func[r]
      BY <2>6, <3>1, <3>2, <2>3, <2>4, <1>1, <1>2, <1>3, HooksAssumption
    <3>3. CASE f # func[r]
      BY <2>6, <3>1, <3>3, <2>2, <2>3, <1>1, <1>2, <1>3, HooksAssumption
    <3> QED
      BY <3>2, <3>3
  <2> QED
    BY <2>5, <2>6
<1> QED
  BY <1>6, <1>9, <1>10, <1>11

\* The invariant of the hook tables.
THEOREM HooksInvariant == HooksSpec => []HooksInv
<1>1. HooksInit => HooksInv
  <2> HAVE HooksInit
  <2>1. HooksTypeOK
    <3>1. func \in [Registrars -> Hooks \cup {NULL}]
      BY DEF HooksInit
    <3>2. at \in [Registrars -> 0 .. MAX_CUSTOM_HOOKS]
      BY HooksAssumption DEF HooksInit
    <3> QED
      BY <3>1, <3>2 DEF HooksInit, HooksTypeOK
  <2>2. \A r \in Registrars : hookPc[r] = "idle" /\ func[r] = NULL /\ at[r] = 0
    BY DEF HooksInit
  <2>3. \A i \in Entry : hooks[i] = NULL
    BY DEF HooksInit
  <2>4. CallsKnow /\ WritesFit
    BY <2>2, HooksAssumption DEF CallsKnow, WritesFit, Busy, Writing
  <2>5. OnlyOverlapHooksTwice /\ SetUpIsHooked
    BY <2>3, HooksAssumption DEF HooksInit, OnlyOverlapHooksTwice, SetUpIsHooked
  <2>6. OverlapsNoted
    BY <2>2 DEF HooksInit, OverlapsNoted, Busy
  <2> QED
    BY <2>1, <2>4, <2>5, <2>6 DEF HooksInv
<1>2. HooksInv /\ [HooksNext]_hookVars => HooksInv'
  <2> SUFFICES ASSUME HooksInv, [HooksNext]_hookVars PROVE HooksInv'
    OBVIOUS
  <2>1. HooksTypeOK'
    BY HooksStepTypes DEF HooksInv
  <2>2. CASE UNCHANGED hookVars
    BY <2>2 DEF HooksInv, HooksTypeOK, hookVars, overlapVars, OnlyOverlapHooksTwice,
                OverlapsNoted, CallsKnow, Passed, WritesFit, SetUpIsHooked, Busy
  <2>3. CASE HooksNext
    <3>1. OverlapsNoted'
      BY <2>3, StepOverlapsNoted DEF HooksNext
    <3>2. OnlyOverlapHooksTwice' /\ CallsKnow' /\ WritesFit' /\ SetUpIsHooked'
      BY <2>3, ScanStepKnows, WriteStepKnows DEF HooksNext
    <3> QED
      BY <2>1, <3>1, <3>2 DEF HooksInv
  <2> QED
    BY <2>2, <2>3
<1> QED
  BY <1>1, <1>2, PTL DEF HooksSpec

\* Whatever threads set up and remove which functions, at the same time or not: a
\* function is in a table twice only if two threads were setting it up at once, and
\* then by different threads.
THEOREM OnlyOverlapHooksTwiceCorrect == HooksSpec => []OnlyOverlapHooksTwice
BY HooksInvariant, PTL DEF HooksInv

\* The threads' own view of what is set up is that of the table, for every function
\* about which no two calls were made at once, unless two threads wrote the same
\* entry.
THEOREM SetUpIsHookedCorrect == HooksSpec => []SetUpIsHooked
BY HooksInvariant, PTL DEF HooksInv
-----------------------------------------------------------------------------
(* The timers. *)

Marked(i) == commands[i] = "delete"
Pending == 1 .. Len(commands)

\* A delete that nothing overtook is the last command there will be: it closes
\* the handle while no other thread is past its test of it.
DeleteIsLast ==
  ~overtaken_delete =>
    /\ ~handle => \A u \in Users : userPc[u] = "idle"
    /\ \A i \in Pending : Marked(i) => i = Len(commands) /\ ~handle
    /\ ~alive => commands = <<>> /\ ~handle
    /\ ~stray

\* Until the timer is deleted the daemon has yet to do, or has done, what was
\* accepted last.
LastIsAccepted ==
  alive /\ (\A i \in Pending : ~Marked(i)) =>
    /\ commands # <<>> => commands[Len(commands)] = accepted
    /\ commands = <<>> /\ active => accepted # "stop"

TimersInv ==
  /\ TimersTypeOK
  /\ DeleteIsLast
  /\ LastIsAccepted

\* What a command does to the queue.
LEMMA PostFacts ==
  ASSUME TimersTypeOK, NEW c \in Command \cup {"delete"}, HasRoom,
         commands' = Append(commands, c)
  PROVE  /\ commands' \in Seq(Command \cup {"delete"})
         /\ Len(commands') = Len(commands) + 1
         /\ Len(commands') <= QueueLength
         /\ commands' # <<>>
         /\ \A i \in Pending' : commands'[i] = IF i = Len(commands') THEN c
                                                                    ELSE commands[i]
         /\ \A i \in Pending' : i # Len(commands') => i \in Pending
         /\ \A i \in Pending : i \in Pending' /\ i # Len(commands')
         /\ Len(commands') \in Pending'
<1> DEFINE C == Command \cup {"delete"}
<1>1. commands \in Seq(C) /\ Len(commands) < QueueLength /\ Len(commands) \in Nat
  BY DEF TimersTypeOK, HasRoom
<1> HIDE DEF C
<1>2. c \in C
  BY DEF C
<1>3. /\ commands' \in Seq(C)
      /\ Len(commands') = Len(commands) + 1
      /\ \A i \in 1 .. Len(commands') :
           commands'[i] = IF i = Len(commands') THEN c ELSE commands[i]
      /\ commands' # <<>>
  BY <1>1, <1>2
<1> QED
  BY <1>1, <1>3, TimersAssumption DEF Pending, C

\* What the daemon does to it.
LEMMA TailFacts ==
  ASSUME TimersTypeOK, commands # <<>>, commands' = Tail(commands)
  PROVE  /\ Head(commands) = commands[1]
         /\ Head(commands) \in Command \cup {"delete"}
         /\ 1 \in Pending
         /\ commands' \in Seq(Command \cup {"delete"})
         /\ Len(commands') = Len(commands) - 1
         /\ Len(commands') <= QueueLength
         /\ \A i \in Pending' : i + 1 \in Pending /\ commands'[i] = commands[i + 1]
         /\ commands' # <<>> <=> Len(commands) # 1
         /\ commands' # <<>> => Len(commands') \in Pending'
<1> DEFINE C == Command \cup {"delete"}
<1>1. commands \in Seq(C) /\ Len(commands) <= QueueLength /\ Len(commands) \in Nat
  BY DEF TimersTypeOK
<1> HIDE DEF C
<1>2. Len(commands) > 0 /\ QueueLength \in Nat
  BY <1>1, TimersAssumption
<1>3. /\ commands' \in Seq(C)
      /\ Len(commands') = Len(commands) - 1
      /\ \A i \in 1 .. Len(commands') : commands'[i] = commands[i + 1]
      /\ Head(commands) = commands[1]
      /\ commands[1] \in C
  BY <1>1, <1>2
<1>4. commands' # <<>> <=> Len(commands') # 0
  BY <1>3, EmptySeq
<1> QED
  BY <1>1, <1>2, <1>3, <1>4 DEF Pending, C

LEMMA TimersStepTypes ==
  ASSUME TimersTypeOK, [TimersNext]_timerVars
  PROVE  TimersTypeOK'
<1> USE DEF TimersTypeOK
<1>1. ASSUME NEW u \in Users, NEW c \in Command, BeginTimerCall(u, c)
      PROVE  TimersTypeOK'
  BY <1>1 DEF BeginTimerCall
<1>2. ASSUME NEW u \in Users, EndTimerCall(u) PROVE TimersTypeOK'
  BY <1>2, PostFacts DEF EndTimerCall, Post
<1>3. ASSUME NEW u \in Users, BeginDelete(u) PROVE TimersTypeOK'
  BY <1>3 DEF BeginDelete
<1>4. ASSUME NEW u \in Users, Delete(u) PROVE TimersTypeOK'
  BY <1>4, PostFacts DEF Delete
<1>5. ASSUME NEW c \in Command, InterruptTimerCall(c) PROVE TimersTypeOK'
  BY <1>5, PostFacts DEF InterruptTimerCall, Post
<1>6. CASE Daemon
  BY <1>6, TailFacts DEF Daemon
<1>7. CASE Expire
  BY <1>7 DEF Expire
<1>8. CASE UNCHANGED timerVars
  BY <1>8 DEF timerVars
<1> QED
  BY <1>1, <1>2, <1>3, <1>4, <1>5, <1>6, <1>7, <1>8 DEF TimersNext

LEMMA StepDeleteIsLast ==
  ASSUME TimersTypeOK, DeleteIsLast, [TimersNext]_timerVars
  PROVE  DeleteIsLast'
<1> USE DEF TimersTypeOK, DeleteIsLast, Marked
<1>1. ASSUME NEW u \in Users, NEW c \in Command, BeginTimerCall(u, c)
      PROVE  DeleteIsLast'
  BY <1>1 DEF BeginTimerCall, Pending
<1>2. ASSUME NEW u \in Users, EndTimerCall(u) PROVE DeleteIsLast'
  <2>1. userPc[u] # "idle" /\ userPc[u] \in Command /\ userPc[u] # "delete"
    BY <1>2 DEF EndTimerCall, Command
  <2>2. CASE Post(userPc[u])
    BY <1>2, <2>1, <2>2, PostFacts DEF EndTimerCall, Post
  <2>3. CASE UNCHANGED commands
    BY <1>2, <2>1, <2>3 DEF EndTimerCall, Pending
  <2> QED
    BY <1>2, <2>2, <2>3 DEF EndTimerCall
<1>3. ASSUME NEW u \in Users, BeginDelete(u) PROVE DeleteIsLast'
  BY <1>3 DEF BeginDelete, Pending
<1>4. ASSUME NEW u \in Users, Delete(u) PROVE DeleteIsLast'
  <2> SUFFICES ASSUME ~overtaken_delete'
               PROVE  DeleteIsLast'
    BY DEF DeleteIsLast
  <2>1. /\ ~overtaken_delete
        /\ \A v \in Users : userPc'[v] = "idle"
        /\ ~handle'
        /\ handle
    BY <1>4 DEF Delete
  <2>2. CASE commands' = Append(commands, "delete") /\ HasRoom
    BY <1>4, <2>1, <2>2, PostFacts DEF Delete
  <2>3. CASE UNCHANGED commands
    BY <1>4, <2>1, <2>3 DEF Delete, Pending
  <2> QED
    BY <1>4, <2>2, <2>3 DEF Delete
<1>5. ASSUME NEW c \in Command, InterruptTimerCall(c) PROVE DeleteIsLast'
  <2>1. c # "delete"
    BY DEF Command
  <2> QED
    BY <1>5, <2>1, PostFacts DEF InterruptTimerCall, Post
<1>6. CASE Daemon
  <2> SUFFICES ASSUME ~overtaken_delete
               PROVE  DeleteIsLast'
    BY <1>6 DEF Daemon
  <2>1. commands # <<>> /\ commands' = Tail(commands)
    BY <1>6 DEF Daemon
  <2>2. alive /\ ~stray'
    BY <1>6, <2>1 DEF Daemon
  <2>3. \A i \in Pending' : commands'[i] = "delete" => i = Len(commands') /\ ~handle
    <3> SUFFICES ASSUME NEW i \in Pending', commands'[i] = "delete"
                 PROVE  i = Len(commands') /\ ~handle
      OBVIOUS
    <3>1. i + 1 \in Pending /\ Marked(i + 1) /\ i \in Int
      BY <2>1, TailFacts DEF Pending
    <3> QED
      BY <2>1, <3>1, TailFacts DEF Pending
  <2>4. ~alive' => commands' = <<>> /\ ~handle
    <3> SUFFICES ASSUME ~alive' PROVE commands' = <<>> /\ ~handle
      OBVIOUS
    <3>1. 1 \in Pending /\ Marked(1)
      BY <1>6, <2>1, <2>2, TailFacts DEF Daemon
    <3> QED
      BY <2>1, <3>1, TailFacts
  <2> QED
    BY <1>6, <2>2, <2>3, <2>4 DEF Daemon
<1>7. CASE Expire
  BY <1>7 DEF Expire, Pending
<1>8. CASE UNCHANGED timerVars
  BY <1>8 DEF timerVars, Pending
<1> QED
  BY <1>1, <1>2, <1>3, <1>4, <1>5, <1>6, <1>7, <1>8 DEF TimersNext

LEMMA StepLastIsAccepted ==
  ASSUME TimersTypeOK, LastIsAccepted, [TimersNext]_timerVars
  PROVE  LastIsAccepted'
<1> USE DEF TimersTypeOK, LastIsAccepted, Marked
<1>1. ASSUME NEW c \in Command, Post(c), UNCHANGED <<alive, active>>
      PROVE  LastIsAccepted'
  BY <1>1, PostFacts DEF Post
<1>2. ASSUME NEW u \in Users, EndTimerCall(u) PROVE LastIsAccepted'
  BY <1>1, <1>2 DEF EndTimerCall, Pending
<1>3. ASSUME NEW c \in Command, InterruptTimerCall(c) PROVE LastIsAccepted'
  BY <1>1, <1>3 DEF InterruptTimerCall
<1>4. ASSUME NEW u \in Users, Delete(u) PROVE LastIsAccepted'
  <2>1. CASE commands' = Append(commands, "delete") /\ HasRoom
    BY <2>1, PostFacts
  <2>2. CASE UNCHANGED commands
    BY <1>4, <2>2 DEF Delete, Pending
  <2> QED
    BY <1>4, <2>1, <2>2 DEF Delete
<1>5. CASE Daemon
  <2> SUFFICES ASSUME alive', \A i \in Pending' : commands'[i] # "delete"
               PROVE  /\ commands' # <<>> => commands'[Len(commands')] = accepted'
                      /\ commands' = <<>> /\ active' => accepted' # "stop"
    BY DEF LastIsAccepted
  <2>1. commands # <<>> /\ commands' = Tail(commands)
    BY <1>5 DEF Daemon
  <2>2. alive /\ Head(commands) # "delete"
    BY <1>5 DEF Daemon
  <2>3. \A i \in Pending : commands[i] # "delete"
    <3> SUFFICES ASSUME NEW i \in Pending, i # 1 PROVE commands[i] # "delete"
      BY <2>1, <2>2, TailFacts
    <3>1. i - 1 \in Pending' /\ (i - 1) + 1 = i
      BY <2>1, TailFacts DEF Pending
    <3> QED
      BY <2>1, <3>1, TailFacts
  <2>4. commands[Len(commands)] = accepted
    BY <2>1, <2>2, <2>3
  <2>5. CASE Len(commands) = 1
    <3>1. commands' = <<>> /\ Head(commands) = accepted
      BY <2>1, <2>4, <2>5, TailFacts
    <3> QED
      BY <1>5, <3>1 DEF Daemon
  <2>6. CASE Len(commands) # 1
    <3>1. /\ commands' # <<>>
          /\ commands'[Len(commands')] = commands[Len(commands') + 1]
          /\ Len(commands') + 1 = Len(commands)
      BY <2>1, <2>6, TailFacts
    <3> QED
      BY <1>5, <2>4, <3>1 DEF Daemon
  <2> QED
    BY <2>5, <2>6
<1>6. CASE Expire
  BY <1>6 DEF Expire, Pending
<1>7. CASE UNCHANGED <<commands, alive, active, accepted>>
  BY <1>7 DEF Pending
<1> QED
  BY <1>2, <1>3, <1>4, <1>5, <1>6, <1>7
     DEF TimersNext, BeginTimerCall, BeginDelete, timerVars

\* The invariant of the timers.
THEOREM TimersInvariant == TimersSpec => []TimersInv
<1>1. TimersInit => TimersInv
  <2> HAVE TimersInit
  <2>1. commands = <<>> /\ Len(commands) = 0 /\ Pending = {}
    BY DEF TimersInit, Pending
  <2>2. TimersTypeOK
    <3>1. commands \in Seq(Command \cup {"delete"}) /\ Len(commands) <= QueueLength
      BY <2>1, EmptySeq, TimersAssumption
    <3>2. accepted \in Command
      BY DEF TimersInit, Command
    <3> QED
      BY <3>1, <3>2 DEF TimersInit, TimersTypeOK
  <2>3. DeleteIsLast /\ LastIsAccepted
    BY <2>1 DEF TimersInit, DeleteIsLast, LastIsAccepted
  <2> QED
    BY <2>2, <2>3 DEF TimersInv
<1>2. TimersInv /\ [TimersNext]_timerVars => TimersInv'
  BY TimersStepTypes, StepDeleteIsLast, StepLastIsAccepted DEF TimersInv
<1> QED
  BY <1>1, <1>2, PTL DEF TimersSpec

\* The daemon is given a timer that is no more only if a thread was past its
\* test of the handle when another deleted it.
THEOREM NoCommandAfterDeleteCorrect == TimersSpec => []NoCommandAfterDelete
<1>1. TimersInv => NoCommandAfterDelete
  BY DEF TimersInv, DeleteIsLast, NoCommandAfterDelete
<1> QED
  BY <1>1, TimersInvariant, PTL

\* A timer whose last accepted command was to stop is stopped once the daemon
\* has caught up, whatever the length of the queue and the number of threads.
THEOREM StopIsCarriedOutCorrect == TimersSpec => []StopIsCarriedOut
<1>1. TimersInv => StopIsCarriedOut
  BY DEF TimersInv, TimersTypeOK, LastIsAccepted, StopIsCarriedOut, Pending
<1> QED
  BY <1>1, TimersInvariant, PTL
=============================================================================
