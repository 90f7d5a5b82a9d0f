-------------------------- MODULE ProvisioningPage --------------------------
(***************************************************************************)
(* prov.js, the page with which a browser provisions a device: its model,  *)
(* a state machine driven by the answers to its requests, and its view,    *)
(* which draws the page and keeps the timers.  One visit is modelled, from *)
(* the loading of the page until Home is clicked; the reset to             *)
(* provisioning cannot be reached, as its link is commented out.           *)
(*                                                                         *)
(* A request ends by an answer or by its timeout; one that is tried again  *)
(* stays in flight.  What the device answers is not modelled: any answer   *)
(* that some device may give, at any time.                                 *)
(***************************************************************************)
EXTENDS Integers

CONSTANTS Reachable,      \* whether the device answers
          SysFailures,    \* how often the first GET /sys may fail: 3
          PollFailures,   \* how often GET /sys and GET /sys/scan may: 5
          NotUpdated,     \* how often a configured device may deny it: 3
          MaxInFlight     \* bounds the requests of one kind in flight

Posts == {"region", "cert", "key", "thing"}
SysGets == {"first", "poll"}
Kinds == {"certGet", "scan", "network"} \cup Posts \cup SysGets

ASSUME PageAssumption ==
  /\ Reachable \in BOOLEAN
  /\ {SysFailures, PollFailures, NotUpdated, MaxInFlight} \subseteq Nat \ {0}

VARIABLES
  model,          \* ProvDataModel.state
  knownUuid,      \* whether obj.uuid is set
  connected,      \* whether obj.sys has status 2
  failedSysGet, failedScanGet,
  sysRequestAborted, scanListRequestAborted,
  configurednotupdated,
  flight,         \* the requests in flight, by kind
  shown,          \* whether the view listens to the model
  screen,         \* what the page shows
  scanListTimer,  \* the view's handle of the timer that lists the networks
  scanLost,       \* whether such a timer runs that no handle can stop
  sysTimer,       \* the same of the timer that polls the device
  sysLost,
  delayed         \* autoRefreshSys is to run in a second

pageVars ==
  <<model, knownUuid, connected, failedSysGet, failedScanGet, sysRequestAborted,
    scanListRequestAborted, configurednotupdated, flight, shown, screen,
    scanListTimer, scanLost, sysTimer, sysLost, delayed>>

\* The counters are properties that nothing sets before the first success:
\* counting up what is undefined gives NaN.  configurednotupdated is not
\* declared where it is used: reading it before it was assigned throws.
NaN == -1
Undeclared == -1
Ceiling == IF SysFailures > PollFailures THEN SysFailures + 1 ELSE PollFailures + 1
Counted(n) == IF n \in {NaN, Ceiling} THEN n ELSE n + 1

MaxFailures(kind) == IF kind = "first" THEN SysFailures ELSE PollFailures

\* A request is left out while MaxInFlight others of its kind are in flight.
Started(fl, kind) ==
  [fl EXCEPT ![kind] = IF @ < MaxInFlight THEN @ + 1 ELSE @]
Finished(fl, kind) == [fl EXCEPT ![kind] = @ - 1]

PageInit ==
  /\ model = "unknown"
  /\ knownUuid = FALSE
  /\ connected = FALSE
  /\ failedSysGet = NaN
  /\ failedScanGet = NaN
  /\ sysRequestAborted = FALSE
  /\ scanListRequestAborted = FALSE
  /\ configurednotupdated = Undeclared
  /\ flight = [kind \in Kinds |-> IF kind = "certGet" THEN 1 ELSE 0]
  /\ shown = FALSE
  /\ screen = "home"
  /\ scanListTimer = "undefined"
  /\ scanLost = FALSE
  /\ sysTimer = FALSE
  /\ sysLost = FALSE
  /\ delayed = FALSE

Timers == <<scanListTimer, scanLost, sysTimer, sysLost, delayed>>
Flags == <<sysRequestAborted, scanListRequestAborted>>
Counters == <<failedSysGet, failedScanGet, configurednotupdated>>
Device == <<knownUuid, connected>>

\* The view, if there is one, draws what the model notifies it of.
Render(what) == screen' = IF shown THEN what ELSE screen

ConnErrorScreen == IF model = "configured" THEN "connLost" ELSE "connError"

\* fetchSys returns at once when the polling was cancelled: for good.
FetchSys(fl, kind) == IF sysRequestAborted THEN fl ELSE Started(fl, kind)

-----------------------------------------------------------------------------
(* The view's timers. *)

\* autoRefreshScanList, which lists at once and then at intervals.
AutoRefreshScanList(fl) ==
  /\ scanListRequestAborted' = FALSE
  /\ flight' = Started(fl, "scan")
  /\ scanLost' = (scanLost \/ scanListTimer = "set")
  /\ scanListTimer' = "set"

\* Mutant: the answer on its way is not dropped.
CancelTimerOnly ==
  /\ scanListTimer' = "null"
  /\ UNCHANGED scanListRequestAborted

\* A handle that was never assigned is not null.
CancelAutoRefreshScanList ==
  IF scanListTimer = "null"
    THEN UNCHANGED <<scanListTimer, scanListRequestAborted>>
    ELSE scanListTimer' = "null" /\ scanListRequestAborted' = TRUE

\* cancelAutoRefreshSys
CancelAutoRefreshSys ==
  /\ sysTimer' = FALSE
  /\ sysRequestAborted' = (sysRequestAborted \/ sysTimer)

ScanTick ==
  /\ scanListTimer = "set" \/ scanLost
  /\ scanListRequestAborted' = FALSE
  /\ flight' = Started(flight, "scan")
  /\ UNCHANGED <<model, Device, Counters, sysRequestAborted, shown, screen, Timers>>

SysTick ==
  /\ sysTimer \/ sysLost
  /\ flight' = FetchSys(flight, "poll")
  /\ UNCHANGED <<model, Device, Counters, Flags, shown, screen, Timers>>

\* autoRefreshSys
RunDelayed ==
  /\ delayed
  /\ delayed' = FALSE
  /\ flight' = FetchSys(flight, "poll")
  /\ sysLost' = (sysLost \/ sysTimer)
  /\ sysTimer' = TRUE
  /\ UNCHANGED <<model, Device, Counters, Flags, shown, screen, scanListTimer,
                 scanLost>>

-----------------------------------------------------------------------------
(* The user. *)

\* The Provisioning button: the view attaches and starts the model again.
OpenProvisioning ==
  /\ screen = "home"
  /\ shown' = TRUE
  /\ screen' = "wait"
  /\ model' = "unknown"
  /\ connected' = FALSE
  /\ flight' = Started(flight, "certGet")
  /\ UNCHANGED <<knownUuid, Counters, Flags, Timers>>

\* setCert
SubmitCert ==
  /\ screen = "cert"
  /\ flight' = IF model = "unknown"
                 THEN Started(Started(Started(Started(flight, "region"), "cert"),
                                      "key"), "thing")
                 ELSE flight
  /\ UNCHANGED <<model, Device, Counters, Flags, shown, screen, Timers>>

\* Mutant: the timer goes on behind the page of the network.
SelectOnly ==
  /\ screen = "scan"
  /\ scanListRequestAborted' = TRUE
  /\ screen' = "select"
  /\ UNCHANGED <<model, Device, Counters, sysRequestAborted, flight, shown, Timers>>

\* scanEntrySelect
SelectNetwork ==
  /\ screen = "scan"
  /\ CancelAutoRefreshScanList
  /\ screen' = "select"
  /\ UNCHANGED <<model, Device, Counters, sysRequestAborted, flight, shown, scanLost,
                 sysTimer, sysLost, delayed>>

BackToScanList ==
  /\ screen = "select"
  /\ AutoRefreshScanList(flight)
  /\ screen' = "scan"
  /\ UNCHANGED <<model, Device, Counters, sysRequestAborted, shown, sysTimer,
                 sysLost, delayed>>

BackToSelectedNetwork ==
  /\ screen = "invalid"
  /\ screen' = "select"
  /\ UNCHANGED <<model, Device, Counters, Flags, flight, shown, Timers>>

\* submit_clicked, setNetwork
SubmitNetwork ==
  /\ screen = "select"
  /\ flight' = Started(flight, "network")
  /\ IF model = "unconfigured"
       THEN model' = "nw_posted" /\ screen' = "configuring"
       ELSE UNCHANGED <<model, screen>>
  /\ UNCHANGED <<Device, Counters, Flags, shown, Timers>>

-----------------------------------------------------------------------------
(* The answers. *)

\* certenabled: the certificate is there already, or is not supported, or has
\* to be asked for.
CertGetEnds ==
  /\ flight["certGet"] > 0
  /\ \/ /\ Reachable
        /\ flight' = Finished(flight, "certGet")
        /\ IF model = "unknown" THEN Render("cert") ELSE UNCHANGED screen
     \/ /\ flight' = IF model = "unknown"
                       THEN FetchSys(Finished(flight, "certGet"), "first")
                       ELSE Finished(flight, "certGet")
        /\ UNCHANGED screen
  /\ UNCHANGED <<model, Device, Counters, Flags, shown, Timers>>

\* configureRegion, configureCert, configureKey (which sends the thing's name)
\* and configureThing (which sends the key): the thing's events, and the failure
\* of the key, are none the model knows.
PostEnds(kind) ==
  /\ flight[kind] > 0
  /\ \/ /\ Reachable
        /\ flight' = IF model = "unknown" /\ kind # "thing"
                       THEN FetchSys(Finished(flight, kind), "first")
                       ELSE Finished(flight, kind)
        /\ UNCHANGED screen
     \/ /\ flight' = Finished(flight, kind)
        /\ IF model = "unknown" /\ kind \in {"region", "cert"}
             THEN Render("cert") ELSE UNCHANGED screen
  /\ UNCHANGED <<model, Device, Counters, Flags, shown, Timers>>

\* render, of a device that has just become configured: poll it, or be done.
DrawConfigured(isConnected) ==
  IF ~shown
    THEN UNCHANGED <<screen, delayed, sysTimer, sysRequestAborted>>
    ELSE IF isConnected
      THEN screen' = "connected" /\ CancelAutoRefreshSys /\ UNCHANGED delayed
      ELSE delayed' = TRUE /\ UNCHANGED <<screen, sysTimer, sysRequestAborted>>

\* A device that turns out not to be configured: list the networks.
Unconfigured(fl) ==
  /\ model' = "unconfigured"
  /\ IF shown
       THEN AutoRefreshScanList(fl)
       ELSE flight' = fl /\ UNCHANGED <<scanListRequestAborted, scanListTimer, scanLost>>

FirstSysData(fl, configured, isConnected) ==
  /\ model = "unknown"
  /\ \/ /\ ~configured
        /\ knownUuid' = TRUE
        /\ Unconfigured(fl)
        /\ UNCHANGED <<screen, delayed, sysTimer, sysRequestAborted>>
     \/ /\ configured
        /\ model' = "configured"
        /\ DrawConfigured(isConnected)
        /\ flight' = fl
        /\ UNCHANGED <<knownUuid, scanListRequestAborted, scanListTimer, scanLost>>
  /\ UNCHANGED configurednotupdated

OtherDevice(fl) ==
  /\ model = "configured"
  /\ knownUuid
  /\ Render("connError")
  /\ flight' = fl
  /\ UNCHANGED <<model, knownUuid, configurednotupdated, Flags, Timers>>

StillConfigured(fl, isConnected) ==
  /\ model = "configured"
  /\ configurednotupdated' = 0
  /\ IF shown /\ isConnected
       THEN screen' = "connected" /\ CancelAutoRefreshSys
       ELSE Render("connecting") /\ UNCHANGED <<sysTimer, sysRequestAborted>>
  /\ flight' = fl
  /\ UNCHANGED <<model, knownUuid, scanListRequestAborted, scanListTimer, scanLost,
                 sysLost, delayed>>

NoLongerConfigured(fl) ==
  /\ model = "configured"
  /\ \/ /\ configurednotupdated = Undeclared
        /\ flight' = fl
        /\ UNCHANGED <<model, configurednotupdated, scanListRequestAborted,
                       scanListTimer, scanLost>>
     \/ /\ configurednotupdated \in 0 .. NotUpdated - 1
        /\ configurednotupdated' = configurednotupdated + 1
        /\ flight' = fl
        /\ UNCHANGED <<model, scanListRequestAborted, scanListTimer, scanLost>>
     \/ /\ configurednotupdated = NotUpdated
        /\ Unconfigured(fl)
        /\ UNCHANGED configurednotupdated
  /\ UNCHANGED <<knownUuid, screen, sysTimer, sysRequestAborted, delayed>>

\* fetchDone of fetchSys: the same device or another one, configured or not, and
\* if so connected or not.
SysDone(kind) ==
  /\ flight[kind] > 0
  /\ Reachable
  /\ failedSysGet' = 0
  /\ LET fl == Finished(flight, kind) IN
       IF sysRequestAborted
         THEN /\ flight' = fl
              /\ UNCHANGED <<model, Device, configurednotupdated, Flags, screen, Timers>>
         ELSE \E other, configured, isConnected \in BOOLEAN :
                /\ isConnected => configured
                /\ connected' = isConnected
                /\ \/ FirstSysData(fl, configured, isConnected) /\ UNCHANGED sysLost
                   \/ other /\ OtherDevice(fl)
                   \/ configured /\ ~(other /\ knownUuid) /\ StillConfigured(fl, isConnected)
                   \/ ~configured /\ ~(other /\ knownUuid) /\ NoLongerConfigured(fl)
                      /\ UNCHANGED sysLost
                   \/ /\ model \in {"unconfigured", "nw_posted"}
                      /\ flight' = fl
                      /\ UNCHANGED <<model, knownUuid, configurednotupdated, Flags,
                                     screen, Timers>>
  /\ UNCHANGED <<failedScanGet, shown>>

\* fetchFailed: the failure that makes the counter reach its limit, and no other,
\* is reported; all others are tried again.
GetFails(kind, failed) ==
  /\ flight[kind] > 0
  /\ IF failed = MaxFailures(kind)
       THEN flight' = Finished(flight, kind) /\ Render(ConnErrorScreen)
       ELSE UNCHANGED <<flight, screen>>
  /\ UNCHANGED <<model, Device, configurednotupdated, Flags, shown, Timers>>

SysFails(kind) ==
  /\ failedSysGet' = Counted(failedSysGet)
  /\ GetFails(kind, failedSysGet')
  /\ UNCHANGED failedScanGet

\* fetchScanList: an answer that comes when the listing was cancelled is dropped.
ScanDone ==
  /\ flight["scan"] > 0
  /\ Reachable
  /\ failedScanGet' = 0
  /\ flight' = Finished(flight, "scan")
  /\ IF ~scanListRequestAborted /\ model = "unconfigured"
       THEN Render("scan") ELSE UNCHANGED screen
  /\ UNCHANGED <<model, Device, failedSysGet, configurednotupdated, Flags, shown, Timers>>

ScanFails ==
  /\ failedScanGet' = Counted(failedScanGet)
  /\ GetFails("scan", failedScanGet')
  /\ UNCHANGED failedSysGet

\* Mutant: only the answers are handled.
NetworkAnswered ==
  /\ flight["network"] > 0
  /\ flight' = Finished(flight, "network")
  /\ \/ model' = IF model = "nw_posted" THEN "configured" ELSE model
     \/ UNCHANGED model
  /\ UNCHANGED <<Device, Counters, Flags, shown, screen, Timers>>

\* The answer to POST /sys/network.
NetworkEnds ==
  /\ flight["network"] > 0
  /\ flight' = Finished(flight, "network")
  /\ \/ /\ Reachable
        /\ model = "nw_posted"
        /\ model' = "configured"
        /\ DrawConfigured(connected)
     \/ /\ Reachable
        /\ model = "nw_posted"
        /\ model' = "unconfigured"
        /\ Render("invalid")
        /\ UNCHANGED <<delayed, sysTimer, sysRequestAborted>>
     \/ /\ Render(ConnErrorScreen)
        /\ UNCHANGED <<model, delayed, sysTimer, sysRequestAborted>>
     \/ /\ Reachable
        /\ model # "nw_posted"
        /\ UNCHANGED <<model, screen, delayed, sysTimer, sysRequestAborted>>
  /\ UNCHANGED <<Device, Counters, scanListRequestAborted, shown, scanListTimer,
                 scanLost, sysLost>>

SysEnds(kind) == SysDone(kind) \/ SysFails(kind)
ScanEnds == ScanDone \/ ScanFails

PageNext ==
  \/ OpenProvisioning \/ SubmitCert \/ SelectNetwork \/ BackToScanList
  \/ BackToSelectedNetwork \/ SubmitNetwork
  \/ ScanTick \/ SysTick \/ RunDelayed
  \/ CertGetEnds \/ ScanEnds \/ NetworkEnds
  \/ \E kind \in Posts : PostEnds(kind)
  \/ \E kind \in SysGets : SysEnds(kind)

\* Each request has a timeout of 5 seconds.
PageFairness ==
  /\ WF_pageVars(CertGetEnds)
  /\ WF_pageVars(ScanEnds)
  /\ WF_pageVars(NetworkEnds)
  /\ \A kind \in SysGets : WF_pageVars(SysEnds(kind))

PageSpec == PageInit /\ [][PageNext]_pageVars /\ PageFairness

-----------------------------------------------------------------------------
(* What should hold. *)

\* Whatever is in flight, of which the answers may come late, and whatever timer
\* runs: from the page on which the user enters a network's passphrase only the
\* user's own clicks and the report that the device cannot be reached lead away.
EntryStays ==
  [][screen = "select" /\ screen' # "select"
     => BackToScanList \/ SubmitNetwork \/ screen' = "connError"]_pageVars

\* A timer that lists the networks is always one the view can still stop.
OneScanTimer == ~scanLost

\* A network that was posted is accepted, refused or reported as lost.
PostIsSettled ==
  model = "nw_posted" ~> model # "nw_posted" \/ screen = "connError"

\* "conn_err : Connection error; can't communicate with device": a device that
\* does not answer is reported to the user who opened the page.
UnreachableIsReported == screen = "wait" ~> screen # "wait"
=============================================================================
