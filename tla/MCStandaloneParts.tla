------------------------- MODULE MCStandaloneParts -------------------------
(***************************************************************************)
(* The parts of the system that share no state, for TLC: the applications, *)
(* of which a board is flashed with one, the page a browser provisions it  *)
(* with, two services of the operating system's header, and of the MQTT    *)
(* client the session and the lengths of packets.  One behaviour is that   *)
(* of one part while the others are at rest, so that one run explores the  *)
(* sum of their state spaces and not the product.                          *)
(***************************************************************************)
EXTENDS StarterDemo, ConnectedMaraca, NtpClient, UartEcho, I2cDemo, SspDemo,
        BoardPins, ProvisioningPage, OsHooks, OsTimers, MqttSession,
        PacketLength

CONSTANTS t1, t2

VARIABLE part

Parts == {"starter", "maraca", "ntp", "uart", "i2c", "ssp", "boards", "page",
          "hooks", "timers", "session", "length"}

MCDraws == <<2, 1, 4, 0, 3, 5, 1>>

\* The session with two topics and, five calls deep, with one: only there do two
\* opposite requests for one topic end in the wrong order.
SessionWithin ==
  \/ Len(calls) <= 3 /\ Len(toBroker) + Len(toClient) <= 2
  \/ /\ t2 \notin Handled \cup broker
     /\ \A i \in DOMAIN calls : calls[i].topic # t2
     /\ \A i \in DOMAIN toBroker : toBroker[i].topic # t2

\* The parts that are at rest have one initial state each.
PartsInit ==
  /\ part \in Parts
  /\ StarterInit /\ MaracaInit /\ NtpInit /\ UartInit /\ I2cInit /\ SspInit
  /\ BoardInit /\ PageInit /\ HooksInit /\ TimersInit
  /\ SessionInit /\ LengthInit
  /\ part # "i2c" => role = "master"
  /\ part # "boards" => board = "mw302_rd" /\ app = "hello_world"
  /\ part # "timers" => ~active
  /\ part # "length" => sent = 0

Only(one) ==
  /\ part = one
  /\ UNCHANGED part
  /\ one # "starter" => UNCHANGED starterVars
  /\ one # "maraca" => UNCHANGED maracaVars
  /\ one # "ntp" => UNCHANGED ntpVars
  /\ one # "uart" => UNCHANGED uartVars
  /\ one # "i2c" => UNCHANGED i2cVars
  /\ one # "ssp" => UNCHANGED sspVars
  /\ one # "boards" => UNCHANGED boardVars
  /\ one # "page" => UNCHANGED pageVars
  /\ one # "hooks" => UNCHANGED hookVars
  /\ one # "timers" => UNCHANGED timerVars
  /\ one # "session" => UNCHANGED sessionVars
  /\ one # "length" => UNCHANGED lengthVars

PartsNext ==
  \/ Only("starter") /\ StarterNext
  \/ Only("maraca") /\ MaracaNext
  \/ Only("ntp") /\ NtpNext
  \/ Only("uart") /\ UartNext
  \/ Only("i2c") /\ I2cNext
  \/ Only("ssp") /\ SspNext
  \/ Only("boards") /\ BoardNext
  \/ Only("page") /\ PageNext
  \/ Only("hooks") /\ HooksNext
  \/ Only("timers") /\ TimersNext
  \/ Only("session") /\ SessionNext /\ SessionWithin'
  \/ Only("length") /\ LengthNext

partsVars == <<part, starterVars, maracaVars, ntpVars, uartVars, i2cVars,
               sspVars, boardVars, pageVars, hookVars, timerVars,
               sessionVars, lengthVars>>

\* Fairness is of the part that runs: the page waits for an answer even at rest.
PartsFairness ==
  /\ StarterFairness /\ MaracaFairness /\ I2cFairness /\ TimersFairness
  /\ part = "page" => PageFairness

PartsSpec == PartsInit /\ [][PartsNext]_partsVars /\ PartsFairness
=============================================================================
