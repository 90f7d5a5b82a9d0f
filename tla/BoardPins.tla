----------------------------- MODULE BoardPins -----------------------------
(***************************************************************************)
(* The boards: which pins each gives to a peripheral, a button or a LED,   *)
(* and the start of each application, which initialises its peripherals    *)
(* one after the other.  Nothing tells a program that a board has no pins  *)
(* for a peripheral, nor that it takes them from another.                  *)
(***************************************************************************)
EXTENDS Integers, Sequences

VARIABLES
  board,
  app,            \* the application in the flash
  setup,          \* what main has yet to initialise
  configured,     \* what it has initialised
  pinmux          \* the peripheral each pin is switched to

boardVars == <<board, app, setup, configured, pinmux>>

Boards == {"aw_cu300_evb", "knit_v1", "mw302_rd", "vd_iot_evalkit"}
Pins == 0 .. 49
Unused == <<"unused", 0>>

\* A peripheral is a name and a number.
UartPins(b, id) ==
  CASE id = 0 -> {2, 3}
    [] id = 1 /\ b = "mw302_rd" -> {13, 14}
    [] id = 2 /\ b = "vd_iot_evalkit" -> {9, 10}
    [] OTHER -> {}

I2cPins(b, id) ==
  CASE id = 0 /\ b # "vd_iot_evalkit" -> {4, 5}
    [] id = 1 /\ b = "mw302_rd" -> {17, 18}
    [] id = 1 /\ b = "vd_iot_evalkit" -> {25, 26}
    [] OTHER -> {}

\* Mutant: SSP1 on the pins of SSP0.
SspPinsOfZero(b, id) ==
  CASE id \in {0, 1} /\ b = "mw302_rd" -> {0, 1, 2, 3}
    [] id = 2 /\ b = "vd_iot_evalkit" -> {46, 47, 48, 49}
    [] OTHER -> {}

\* With or without a chip select the same pins are switched.
SspPins(b, id) ==
  CASE id = 0 /\ b = "mw302_rd" -> {0, 1, 2, 3}
    [] id = 1 /\ b = "mw302_rd" -> {11, 12, 13, 14}
    [] id = 2 /\ b = "vd_iot_evalkit" -> {46, 47, 48, 49}
    [] OTHER -> {}

\* Channels 2 and 3 would need the pins that control the radio.
AdcPins(channel) == IF channel \in {2, 3} THEN {} ELSE {42 + channel}

LedPins(b, n) ==
  CASE b = "mw302_rd" /\ n \in {1, 2} -> {39 + n}
    [] b = "knit_v1" /\ n = 2 -> {40}
    [] b = "vd_iot_evalkit" -> CASE n = 1 -> {0} [] n = 2 -> {1} [] n = 3 -> {4}
                                 [] OTHER -> {}
    [] OTHER -> {}

ButtonPins(b, n) ==
  CASE b \in {"aw_cu300_evb", "mw302_rd"} -> CASE n = 1 -> {26} [] n = 2 -> {24}
                                               [] OTHER -> {}
    [] b = "knit_v1" -> IF n = 1 THEN {16} ELSE {}
    [] b = "vd_iot_evalkit" -> CASE n = 1 -> {39} [] n = 2 -> {22} [] OTHER -> {}

PinsOf(b, peripheral) ==
  LET id == peripheral[2] IN
  CASE peripheral[1] = "uart" -> UartPins(b, id)
    [] peripheral[1] = "i2c" -> I2cPins(b, id)
    [] peripheral[1] = "ssp" -> SspPins(b, id)
    [] peripheral[1] = "adc" -> AdcPins(id)
    [] peripheral[1] = "led" -> LedPins(b, id)
    [] peripheral[1] = "button" -> ButtonPins(b, id)

Console == <<"uart", 0>>

\* What the mains initialise, in their order.
Setups ==
  [ hello_world |-> <<Console>>,
    wifi_basics |-> <<Console>>,
    ntpc_demo |-> <<Console>>,
    aws_starter_demo |-> <<Console, <<"button", 2>>, <<"button", 1>>,
                           <<"button", 2>>, <<"led", 1>>, <<"led", 2>>>>,
    connected_maraca |-> <<Console, <<"i2c", 0>>, <<"button", 2>>>>,
    uart_echo_demo |-> <<Console, <<"uart", 1>>>>,
    i2c_demo |-> <<Console, <<"i2c", 1>>>>,
    ssp_demo |-> <<Console, <<"ssp", 1>>>>,
    adc_demo |-> <<Console, <<"adc", 0>>>>,
    gpio_demo |-> <<Console, <<"led", 2>>, <<"button", 2>>>> ]

BoardInit ==
  /\ board \in Boards
  /\ app \in DOMAIN Setups
  /\ setup = Setups[app]
  /\ configured = {}
  /\ pinmux = [p \in Pins |-> Unused]

Configure ==
  /\ setup # <<>>
  /\ LET peripheral == Head(setup) IN
       /\ pinmux' = [p \in Pins |-> IF p \in PinsOf(board, peripheral)
                                      THEN peripheral ELSE pinmux[p]]
       /\ configured' = configured \cup {peripheral}
  /\ setup' = Tail(setup)
  /\ UNCHANGED <<board, app>>

BoardNext == Configure

BoardSpec == BoardInit /\ [][BoardNext]_boardVars

-----------------------------------------------------------------------------
(* What should hold. *)

BoardTypeOK ==
  /\ board \in Boards
  /\ app \in DOMAIN Setups
  /\ \A p \in Pins : pinmux[p] \in configured \cup {Unused}

\* On no board does an application take a pin from a peripheral it has already
\* initialised: least of all from its console, which shares pins with SSP0 on
\* one board.
PinsKept ==
  \A peripheral \in configured :
    \A p \in PinsOf(board, peripheral) : pinmux[p] = peripheral
=============================================================================
