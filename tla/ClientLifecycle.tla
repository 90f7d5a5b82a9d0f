--------------------------- MODULE ClientLifecycle ---------------------------
(***************************************************************************)
(* The life cycle an application is promised by the MQTT client            *)
(* (sdk/external/aws_iot): a connection is attempted, comes up or fails,   *)
(* is closed at the application's wish or lost; a lost one is retried      *)
(* without being asked for, one the application closed is not.             *)
(***************************************************************************)
VARIABLES
  phase,   \* "offline", "connecting", "online", "closing", "lost", "retrying"
  parted   \* the application closed the connection and has not asked for another

vars == <<phase, parted>>

Init == phase = "offline" /\ parted = FALSE

\* The application asks for a connection, again or for the first time.
Ask == parted' = FALSE /\ UNCHANGED phase

Begin ==
  /\ ~parted /\ phase \in {"offline", "lost", "retrying"}
  /\ phase' = "connecting" /\ UNCHANGED parted
Up   == phase = "connecting" /\ phase' = "online" /\ UNCHANGED parted
Fail == phase = "connecting" /\ phase' = "lost" /\ UNCHANGED parted

Close == phase = "online" /\ phase' = "closing" /\ UNCHANGED parted
\* The DISCONNECT packet could not be sent.
Reopen == phase = "closing" /\ phase' = "online" /\ UNCHANGED parted
\* The application's disconnect, or yield's own, is done.
Closed == phase = "closing" /\ phase' = "offline" /\ parted' \in {parted, TRUE}

\* The connection turns out to be lost; then the client retries by itself.
Lose  == /\ ~parted /\ phase \in {"online", "offline"}
         /\ phase' = "lost" /\ UNCHANGED parted
Retry == ~parted /\ phase = "lost" /\ phase' = "retrying" /\ UNCHANGED parted

Next == Ask \/ Begin \/ Up \/ Fail \/ Close \/ Reopen \/ Closed \/ Lose \/ Retry

Spec == Init /\ [][Next]_vars
=============================================================================
