----------------------------- MODULE NtpClient -----------------------------
(***************************************************************************)
(* ntpc_demo: the thread that sets the clock from an NTP server, and the   *)
(* Wi-Fi event that starts it.  An exchange is the steps of ntp_time_get,  *)
(* each of which may fail; a synchronisation is one exchange whose outcome *)
(* is not looked at and then a number of exchanges that must all succeed.  *)
(***************************************************************************)
EXTENDS Integers

CONSTANTS Wrap,           \* 2^32: timestamps are counted modulo this
          Epoch,          \* EPOCH_TIME_IN_SECS
          Stamps,         \* the transmit timestamps a server may send; 0 is that
                          \* of an answer too short to hold one
          Requests        \* the max_num_pkt_xchange ntpc_sync may be called with

DEFAULT_MAX_XCHANGE == 5

ASSUME NtpAssumption ==
  /\ Wrap \in Nat \ {0}
  /\ Epoch \in 0 .. Wrap - 1
  /\ Stamps \subseteq 0 .. Wrap - 1
  /\ Requests \subseteq Nat

VARIABLES
  is_time_sync_started,
  ntpPc,          \* where the thread is
  first,          \* whether this is the first exchange
  maxXchange,     \* max_num_pkt_xchange, once it has been adjusted
  cnt,
  transmit,       \* server_transmit_timestamp; Junk until it is assigned
  sockets,        \* the sockets open
  buffers,        \* the buffers allocated
  clock,          \* what the clock was last set to
  answers         \* history: the answers read since the first exchange

ntpVars == <<is_time_sync_started, ntpPc, first, maxXchange, cnt, transmit,
             sockets, buffers, clock, answers>>

Junk == -1
Unset == -1
ExchangePc == {"resolve", "socket", "send", "select", "alloc", "recv"}

NtpInit ==
  /\ is_time_sync_started = FALSE
  /\ ntpPc = "none"
  /\ first = TRUE
  /\ maxXchange = DEFAULT_MAX_XCHANGE
  /\ cnt = 0
  /\ transmit = Junk
  /\ sockets = 0
  /\ buffers = 0
  /\ clock = Unset
  /\ answers = 0

\* wlan_event_normal_connected: the thread is started once, and not again if it
\* could not be created.
StartTimeSync ==
  /\ is_time_sync_started' = TRUE
  /\ ntpPc' \in IF is_time_sync_started THEN {ntpPc} ELSE {"none", "idle"}
  /\ UNCHANGED <<first, maxXchange, cnt, transmit, sockets, buffers, clock, answers>>

Adjusted(n) == IF n = 0 \/ n > 10 THEN DEFAULT_MAX_XCHANGE ELSE n

BeginSync ==
  /\ ntpPc = "idle"
  /\ ntpPc' = "resolve"
  /\ \E n \in Requests : maxXchange' = Adjusted(n)
  /\ first' = TRUE
  /\ cnt' = 0
  /\ transmit' = Junk
  /\ answers' = 0
  /\ UNCHANGED <<is_time_sync_started, sockets, buffers, clock>>

\* Mutant: a failure is not looked at.
EndedUnchecked(success) ==
  IF first
    THEN first' = FALSE /\ ntpPc' = "resolve" /\ UNCHANGED <<cnt, clock>>
    ELSE /\ UNCHANGED first
         /\ cnt' = cnt + 1
         /\ ntpPc' = IF cnt' < maxXchange THEN "resolve" ELSE "idle"
         /\ clock' = IF cnt' = maxXchange
                       THEN (transmit' - Epoch) % Wrap ELSE clock

\* The end of an exchange: how the synchronisation goes on.
Ended(success) ==
  IF first
    THEN first' = FALSE /\ ntpPc' = "resolve" /\ UNCHANGED <<cnt, clock>>
    ELSE /\ UNCHANGED first
         /\ cnt' = IF success THEN cnt + 1 ELSE cnt
         /\ ntpPc' = IF success /\ cnt' < maxXchange THEN "resolve" ELSE "idle"
         /\ clock' = IF success /\ cnt' = maxXchange
                       THEN (transmit' - Epoch) % Wrap ELSE clock

Failed == UNCHANGED <<transmit, answers>> /\ Ended(FALSE)

ExchangeStep(from, to) ==
  /\ ntpPc = from
  /\ ntpPc' = to
  /\ UNCHANGED <<first, cnt, transmit, clock, answers>>

\* gethostbyname
Resolve ==
  /\ \/ ExchangeStep("resolve", "socket")
     \/ ntpPc = "resolve" /\ Failed
  /\ UNCHANGED <<is_time_sync_started, maxXchange, sockets, buffers>>

OpenSocket ==
  /\ \/ ExchangeStep("socket", "send") /\ sockets' = sockets + 1
     \/ ntpPc = "socket" /\ Failed /\ UNCHANGED sockets
  /\ UNCHANGED <<is_time_sync_started, maxXchange, buffers>>

CloseSocket == sockets' = sockets - 1

\* sendto, and the select that waits NTP_RESP_TIMEOUT seconds.
SendOrWait(from, to) ==
  /\ \/ ExchangeStep(from, to) /\ UNCHANGED sockets
     \/ ntpPc = from /\ Failed /\ CloseSocket
  /\ UNCHANGED <<is_time_sync_started, maxXchange, buffers>>

\* Mutant: the socket is not closed when there is no memory.
AllocLeaks ==
  /\ \/ ExchangeStep("alloc", "recv") /\ buffers' = buffers + 1
     \/ ntpPc = "alloc" /\ Failed /\ UNCHANGED buffers
  /\ UNCHANGED <<is_time_sync_started, maxXchange, sockets>>

Alloc ==
  /\ \/ ExchangeStep("alloc", "recv") /\ buffers' = buffers + 1 /\ UNCHANGED sockets
     \/ ntpPc = "alloc" /\ Failed /\ CloseSocket /\ UNCHANGED buffers
  /\ UNCHANGED <<is_time_sync_started, maxXchange>>

Recv ==
  /\ ntpPc = "recv"
  /\ \/ /\ transmit' \in Stamps
        /\ answers' = IF first THEN answers ELSE answers + 1
        /\ Ended(TRUE)
     \/ Failed
  /\ buffers' = buffers - 1
  /\ CloseSocket
  /\ UNCHANGED <<is_time_sync_started, maxXchange>>

NtpStep ==
  \/ BeginSync \/ Resolve \/ OpenSocket
  \/ SendOrWait("send", "select") \/ SendOrWait("select", "alloc")
  \/ Alloc \/ Recv

NtpNext == StartTimeSync \/ NtpStep

NtpSpec == NtpInit /\ [][NtpNext]_ntpVars

-----------------------------------------------------------------------------
(* What should hold. *)

NtpTypeOK ==
  /\ is_time_sync_started \in BOOLEAN
  /\ ntpPc \in {"none", "idle"} \cup ExchangePc
  /\ first \in BOOLEAN
  /\ maxXchange \in Nat
  /\ cnt \in Nat
  /\ transmit \in Stamps \cup {Junk}
  /\ sockets \in Int
  /\ buffers \in Int
  /\ clock \in (0 .. Wrap - 1) \cup {Unset}
  /\ answers \in Nat

\* An exchange gives back what it took on each of its ways out.
ExchangeLeavesNothing ==
  /\ sockets = IF ntpPc \in {"send", "select", "alloc", "recv"} THEN 1 ELSE 0
  /\ buffers = IF ntpPc = "recv" THEN 1 ELSE 0

\* ntpc_sync sets the clock only when every exchange after the first has been
\* answered, at least one of them, and to the time of the last answer: never to
\* the uninitialised timestamps a failed first exchange leaves, and also when
\* the difference to the NTP era wraps.
ClockIsServerTime ==
  [][ clock' # clock =>
        /\ answers' = maxXchange /\ maxXchange \in 1 .. 10
        /\ transmit' \in Stamps
        /\ (clock' + Epoch) % Wrap = transmit' ]_ntpVars
=============================================================================
