----------------------------- MODULE MCMqttClient -----------------------------
(* Instances of MqttClient for TLC: who calls what. *)
EXTENDS MqttClient

CONSTANTS app, other, third

\* One thread makes every call.
AloneThreads == {app}
AloneCalls == [t \in AloneThreads |-> ApiCalls]

\* One thread connects and yields, and all publish and resubscribe.
SharedThreads == {app, other, third}
SharedCalls == [t \in SharedThreads |->
                  {"publish", "resubscribe"} \cup
                    IF t = app THEN {"connect", "yield"} ELSE {}]

\* The demo: the application thread, and the Wi-Fi event handler, which
\* disconnects.
DemoThreads == {app, other}
DemoCalls == [t \in DemoThreads |->
                IF t = app THEN {"connect", "yield", "publish", "subscribe"}
                           ELSE {"disconnect"}]

\* One thread yields, another publishes; both receive messages.
PairCalls == [t \in DemoThreads |->
                IF t = app THEN {"connect", "yield", "subscribe"}
                           ELSE {"publish"}]

\* Two threads connect, yield and unsubscribe; one also publishes and
\* reconnects.
TwoThreadCalls == [t \in DemoThreads |->
                     {"connect", "yield", "unsubscribe"} \cup
                       IF t = other THEN {"publish", "reconnect"} ELSE {}]
=============================================================================
