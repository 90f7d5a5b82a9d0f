# A verification of the EZ-Connect Lite cloud client

EZ-Connect Lite is an SDK for the 88MW30x Wi-Fi microcontroller (FreeRTOS,
lwIP, mbedTLS).  What it has of logic of its own, in source, is the AWS IoT
client in `src/sdk/external/aws_iot`, the applications in `src/sample_apps` with
the web page that provisions a device, the board files, and the part of the
operating system's interface that is code in a header (`wm_os.h`).  This directory
holds TLA+ specifications of these, the TLC configurations that check them, and
proofs that TLAPS checks.

Modules are checked with `tlc -config X.cfg M` (the configuration of a run and
its module are listed in `PROJECT.json`) and proofs with `tlapm M.tla`.

## Inventory

Paths are under `src/sdk/external/aws_iot/` unless they start with `src/`.

| Part | State it keeps | Operations | Where |
|---|---|---|---|
| MQTT client life cycle | `clientState`, ping flag, network, per-call saved state | connect, disconnect, yield, attempt_reconnect, publish, subscribe, unsubscribe, resubscribe, delivery of messages | `src/aws_iot_mqtt_client*.c` |
| MQTT session | handler table, packet ids, read and write buffers | serialise, `cycle_read`, `wait_for_read`, deliver, acknowledge | `src/aws_iot_mqtt_client_common_internal.c`, `_publish.c`, `_subscribe.c`, `_unsubscribe.c` |
| Thing shadow | `AckWaitList`, `SubscriptionList`, version, delta tokens | update, get, delete, acks, timeouts, deltas | `src/aws_iot_shadow*.c` |
| Shadow JSON | none | build and parse documents | `src/aws_iot_shadow_json.c`, `aws_iot_json_utils.c` |
| Platform | TLS session, tick timer, mutexes | read, write, countdown, lock | `platform/wmsdk/` |
| aws_starter_demo | button counters, reported counts, the thread handle | button interrupts, Wi-Fi events, the cloud thread | `src/sample_apps/aws_starter_demo/src/main.c` |
| connected_maraca | `device_state`, the previous readings | Wi-Fi events, the cloud thread, the accelerometer | `src/sample_apps/connected_maraca/src` |
| NTP client | socket, buffer, time stamps, the clock | one synchronisation of several exchanges | `src/sample_apps/net_demo/ntpc_demo/src` |
| UART, I2C and SSP demonstrations | line buffer; semaphore; the two random streams | read and echo; transfer and signal; write, read and verify | `src/sample_apps/io_demo` |
| Boards | the function of each pin | `board_*_pin_config`, as the applications call them | `src/sdk/src/boards` |
| OS hooks and timers | `g_os_tick_hooks`, `g_os_idle_hooks`; timer handles | set up, remove; activate, change, reset, deactivate, delete | `src/sdk/src/incl/platform/os/freertos/wm_os.h` |
| Provisioning page | the model's state and counters, requests, the view's timers | answers, failures, clicks, timer ticks | `src/sample_apps/aws_starter_demo/www/prov.js` |
| lwIP port | semaphores, mailboxes, thread timeouts | `sys_*` | `src/sdk/external/lwip/contrib/port/FreeRTOS` |
| Sensor framework | list of sensors | register, poll | `src/sdk/external/sensors` |
| FreeRTOS, lwIP, mbedTLS, drivers, boot loader, tools | | vendored, or of the board | not modelled |

How they interact.  The application's threads call the shadow, the shadow calls
the MQTT client, and the client calls the network and the timers.  The client
calls back: a message that arrives while any call waits for its acknowledgement
is handed, in that wait, to the handler of its topic, and the handler (the
shadow's, or the application's) may call the client again.  When yield finds the
connection gone it calls the application's disconnect handler, which the header
invites to reconnect.  Threads share one client: `aws_iot_mqtt_set_client_state`
compares and sets the client state in one critical section, and that is all that
keeps them apart.  In the demonstration the Wi-Fi event handler calls
`aws_iot_shadow_disconnect` while the cloud thread is in its loop, and the button
interrupts write counters that the cloud thread reads.

What is hard.  A call reads the state, claims it with a compare-and-set, and puts
back on return what it read; calls nest through callbacks to any depth, each in
the wait of another; two direct writes of the state bypass the compare; in
trylock mode the compare-and-set itself may fail and its result is sometimes
ignored; locks, pings, reads and reconnects of one thread run in the middle of a
request of another.  `PROJECT.json` lists these hazards, each at its line.

What makes each part correct:

* life cycle: the state always says what the client is doing; a busy state has a
  call that will end it; no two threads are in the client at once; a client the
  application disconnected stays disconnected; an offline client holds no
  connection; yield never runs in a callback.
* session: an acknowledgement answers the request that waits for it; after a
  reconnect every handler's topic is subscribed; a message goes to each handler
  whose filter matches and to no other.
* shadow: each request gets exactly one answer (accepted, rejected or timeout);
  a topic is subscribed while an answer to it may come; no record leaks; no old
  delta is applied and no new one is lost.
* starter demonstration: what is recorded as reported is what was put in the
  document, though interrupts count in between; what was delivered stands in the
  shadow; every press is put in a document in the end.
* maraca: one cloud thread; a client that was disconnected is connected again; no
  movement larger than the threshold goes unpublished, however slow.
* NTP: the clock is only set to a time a server sent; every exit gives everything
  back.
* I/O demonstrations: no overrun and no lost character in the echo; the reading
  thread never runs ahead of the writing one; two streams stay in step.
* boards: no application takes a pin from a peripheral it has configured.
* hooks and timers: a function that was set up is in its table, and in it once; no
  command reaches a deleted timer; what was accepted last is carried out.
* page: nothing but the user and an unreachable device takes the page of a network
  away while its passphrase is being entered; every timer can be stopped; a post is
  settled; an unreachable device is reported.

## Modules

| Module | What it is |
|---|---|
| `ClientLifecycle` | what the client promises: a small machine of phases (offline, connecting, online, closing, lost, retrying) |
| `MqttClient` | the client life cycle, detailed |
| `MCMqttClient` | the instances TLC checks: who calls what |
| `ShadowRecords` | the shadow's requests, its two lists and the handler table |
| `MCShadowRecords` | its instances |
| `MqttSession` | the client's handler table and the broker's subscriptions, with the packets between them |
| `PacketLength` | the encoding of a packet's remaining length, and its two decoders |
| `MqttClientProofs` | type correctness, for every value of the constants, and how the calls of a client used by one thread nest |
| `MqttClientLifecycle` | the theorems about a client used by one thread that need its connection, and the refinement of `ClientLifecycle` |
| `MqttClientSharing` | the theorem about a client shared by many threads |
| `ShadowRecordsProofs` | the theorems about the shadow's requests |
| `ShadowSubscriptions` | the theorems about its subscriptions and the handler table |
| `StarterDemo` | the starter application |
| `ConnectedMaraca` | the maraca application |
| `NtpClient` | the NTP demonstration |
| `UartEcho`, `I2cDemo`, `SspDemo` | the I/O demonstrations |
| `BoardPins` | boards, and what the applications configure on them |
| `OsHooks`, `OsTimers` | the hook tables and timers of `wm_os.h` |
| `ProvisioningPage` | the model and view of `prov.js` |
| `MCStandaloneParts` | the instance of the modules above: their sum |
| `MqttSessionProofs` | the theorems about `MqttSession` and `PacketLength` |
| `ApplicationProofs` | the theorems about `StarterDemo`, `ConnectedMaraca`, `ProvisioningPage`, `OsHooks` and `OsTimers` |
| `DemoProofs` | the theorems about `NtpClient`, `I2cDemo`, `UartEcho`, `SspDemo` and `BoardPins` |

`MqttClient` has the client state (`state`), the connection (`link`), the ping
flag (`pingOut`), whether the broker has a subscription (`subscribed`), and for
every thread a stack of frames and the return code it computed last (`stack`,
`rc`).  A frame is one active call: the call (`op`), the point it has reached
(`pc`) and the state it read on entry (`saved`: `clientState` in
`aws_iot_mqtt_publish` and its like, `currentState` in `deliver_message`).  Every
action is the code between two accesses to the state the threads share, so that
any two calls interleave wherever the code lets them:

* `Enter` is the check at the head of each call, with the code it refuses with.
  The code reads the state twice there; the model reads it once, since a change
  between the two only trades one refusal for another.
* `CompareAndSet` is `aws_iot_mqtt_set_client_state`.  With `BlockOnLock` it
  succeeds or finds another state; without it (trylock) it may also fail when
  another thread stands at a critical section of its own (`LockTaken`).
* `Claim`, `SendRequest`, `AwaitAck`, `Release` are the four requests, which have
  the same skeleton; `UndoUnsubscribe` is what unsubscribe alone does.
* `ReadPublish`, `BeginCallback`, `CallFromCallback`, `EndCallback` are the
  delivery of a message in the wait of any call, and the calls its handler makes.
* `BeginConnect` ... `SettleConnect`, `SendDisconnect` ... `RestoreAfterDisconnect`
  and `Reconnect...` are connect, disconnect and `attempt_reconnect`.
* `Yield...` are the loop of `_aws_iot_mqtt_internal_yield` with its keep-alive,
  its handling of a lost connection, the disconnect handler and its exits.
* `LinkLost` is the network.

Timers are abstract: wherever the code asks one, both answers are possible.
Packets, topics and handlers are left to `MqttSession`.

`MqttSession` has the handler table (`messageHandlers`), the calls in progress of
one thread (`calls`), the packets under way in both directions (`toBroker`,
`toClient`) and the broker's own list of the client's topics (`broker`).
`Subscribe` and `Subscribed`, `Unsubscribe` and `Unsubscribed`, `Reconnected` and
`Resubscribed` are the two halves of each request, cut at its wait; what is known
before the wait, as the place of the new handler and the end of the
resubscription, is kept in the call.  An acknowledgement is its type and no more,
since the code compares nothing else.  `Callback` is a message that arrives in a
wait or in yield, in which the handler may make requests; `DropAck` is a read of an
acknowledgement nobody waits for; `RequestFails` is a timeout or a lost connection.
The broker and the network are external.  Acknowledgements are reordered by nothing,
as TCP keeps them in order, and the session is a clean one, as
`aws_iot_shadow_connect` asks for.  The history variable `disturbed` says whether,
since the connection was made, a request failed or was refused by the broker, a
handler was overwritten by a call that had chosen the same place, the
resubscription left a handler out or read one that was free, or a request was made
in the wait of the opposite one for the same topic.

`PacketLength` encodes one length byte by byte, then decodes it as
`_aws_iot_mqtt_internal_decode_packet_remaining_len` and as
`aws_iot_mqtt_internal_decode_remaining_length_from_buffer` do, in integers modulo
`Word`.

`ShadowRecords` has `AckWaitList` (`acks`) with the timers that have run out
(`late`), `SubscriptionList` (`subs`), and the MQTT client's handler table
(`handlers`), of which an entry is the index of the `SubscriptionList` entry whose
topic string it points at: the code passes that string to `aws_iot_mqtt_subscribe`,
which keeps the pointer, so an entry that is given back and used again changes the
topic of a handler left behind.  Answers not yet read are `sent`; `accepted` and
`told` are history.  The calls in progress are a stack of frames, cut at the waits
of subscribe and unsubscribe and at the application's callback, which is where the
code can read another message or make another request:

* `Request`, `Subscribe`, `Subscribed...`, `Clear`, `EndClear`, `Publish` are
  `aws_iot_shadow_internal_action` with `subscribeToShadowActionAcks`.  The record
  is chosen in the first and filled in by the last.
* `Deliver` and `Yield` enter the callback from `AckStatusCallback` and
  `HandleExpiredResponseCallbacks`; `EndCallback`, `Unsubscribe`,
  `EndUnsubscribe` with `Proceed` are what follows it, and differ in when they
  give the record back.
* `TimeOut` is time; `Reconnect` is another `aws_iot_shadow_connect`.

An MQTT call may fail on its own if it is in `Failing`, and a subscribe fails when
the handler table is full.  An answer may come late or never, and once: the topics
are subscribed with QoS 0.  A request without a callback, or with a document that
has no client token as in the demonstration, only publishes and is left out.

The applications.  Each is the code of one image, so each module stands alone and
takes the MQTT client, a driver or a bus as its environment.

* `StarterDemo`: `value` and `prev` are the counters and `led_1_state` with their
  `_prev`; `Press` is the interrupt; `CompareField`, `FormatField`, `RecordField`
  and `Send` are `aws_publish_property_state`, cut wherever an interrupt may come;
  `LinkEvent` and `ConnectedEvent` are the Wi-Fi events; `FactoryReset` reboots.
  `session` is what the client makes of its connection; `shadow` is the cloud's
  copy, and `stale` the fields whose last report did not get there.
* `ConnectedMaraca`: every read and write of `device_state` is a step;
  `MaracaStep` is the cloud thread, from `MaracaStart` to `PublishChange`;
  `WifiEvent` is the event thread.  Readings are decoded from the registers.
* `NtpClient`: `Resolve` ... `Recv` are `ntp_time_get`, with each of its exits;
  `Ended` is what `ntpc_sync` does with the outcome; a time stamp that was never
  assigned is `Junk`.
* `UartEcho`, `I2cDemo`, `SspDemo`: one action per step of the loops.  A failed
  UART read leaves `temp` as it was; the semaphore is binary and created full; the
  SSP programs draw from one sequence and the bus cuts messages into any parts.
* `BoardPins`: the boards' `board_*_pin_config` as sets of pins, and the order in
  which each application configures its peripherals.
* `OsHooks`: each test and each write of a table entry is a step of a thread, and any
  thread sets up and removes any function.  History variables note who stored an entry
  (`by`), which functions two threads were setting up at once (`setUpAtOnce`) or had
  any calls about at once (`contended`), and whether two wrote one entry (`raced`).
  `OsTimers`: a call tests the handle in one step and posts its command in another;
  `Delete` is one, as its critical section makes it; interrupts post at once; the
  timer daemon of FreeRTOS is external.
* `ProvisioningPage`: `model` is `ProvDataModel.state`, `flight` the requests in
  flight; the actions are the answers (`...Ends`), the timers' ticks and the
  user's clicks; `screen` and the two timers are the view's.  JavaScript's
  `undefined` and `NaN` are values of the counters, as one of them matters.

## Runs

| Run | Instance | What it shows |
|---|---|---|
| `client_alone` | one thread makes every call, its callbacks publish, subscribe, unsubscribe and try to yield; auto-reconnect | types; yield never claims the client in a callback; a manual disconnect holds; an offline client holds no connection; the client implements `ClientLifecycle` |
| `client_nested` | as above, trylock, and the handlers also connect and reconnect | `StateMatchesStack`: the state is the innermost call's, and at rest without one |
| `client_shared` | three threads publish and resubscribe, one also connects and yields; trylock | `Exclusive`: no two threads inside a claimed call |
| `client_two_threads` | two threads connect, yield and unsubscribe, one also publishes and reconnects; auto-reconnect, blocking locks | even where unsubscribe undoes claims that are not its own and two threads connect at once, no busy state is left without a call and no transient state without an owner |
| `client_pair_yield` | one thread yields, one publishes, messages arrive | violated: yield claims the client while a callback of the other thread runs |
| `client_demo_busy` | the cloud thread, and the Wi-Fi handler's disconnect | violated: the client stays busy with no call in it |
| `shadow_records` | three requests, two records, room for two pairs of topics and three handlers; all MQTT calls may fail, callbacks request, the application reconnects | the lists keep their types; a request whose call failed is never answered |
| `shadow_answers` | the application's thread requests, publishing may fail, enough handlers | `AnsweredOnce`, `NothingLost`, `WaitingIsSubscribed`, `HandlersNameLiveEntries`; every accepted request is answered in the end |
| `shadow_full` | one handler too few for the second pair of topics | violated: failed requests use up the list, and then a request succeeds with nothing subscribed |
| `shadow_callback` | callbacks make requests | violated: a callback's request takes the record already chosen, and is never answered |
| `standalone_parts` | the applications, the boards, the page, the OS services, the MQTT session and the packet lengths, one at a time | 24 properties, below |
| `page_unreachable` | the page with a device that never answers, with the code's own bounds | violated: the page waits for ever and says nothing |

`standalone_parts` explores the sum of twelve state spaces and not their product:
`part` chooses one, and the others rest in one initial state.  Its properties:
`ReportIsRecorded`, `ShadowIsCurrent`, `PressIsReported` (starter);
`OnlyTheRaceStrands`, `NoSilentDrift`, `OneCloudThread`, `ReturnIsActedOn`
(maraca); `ExchangeLeavesNothing`, `ClockIsServerTime` (NTP); `LineIsEchoed`
(UART); `FollowsATransfer`, `PutIsFollowed` (I2C); `SameSequence` (SSP);
`PinsKept` (boards); `OneScanTimer`, `EntryStays`, `PostIsSettled` (page);
`OnlyOverlapHooksTwice`, `SetUpIsHooked` (hooks); `NoCommandAfterDelete`, `StopIsCarriedOut`,
`DeleteEnds` (timers); `SessionIsExact` (session); `LengthSurvives` (packet
lengths).  Several say precisely where the code is safe and name the
race it is not: `OnlyTheRaceStrands` leaves out a link lost during a
reconnection, `OnlyOverlapHooksTwice` two threads that set up one function at once,
each of which may store it, `SetUpIsHooked` two writes of one entry and functions two
threads have calls about at once, `NoCommandAfterDelete` a thread past its test of the
handle, `SameSequence` a lost byte or a failed read, `LineIsEchoed` a failed read,
`ShadowIsCurrent` a report that did not arrive.  What the code does there is in the
models, and wrong; the properties do not show it, they bound it.

`SessionIsExact` says the same of the session, with what `disturbed` records: as long
as no request fails, acknowledgements matched by type alone are nearly harmless.
With nested requests answers are taken by another call than the one that asked, but
each is an answer to a request that was carried out, and when the client is idle on
an undisturbed connection its handlers are exactly the broker's topics and no answer
is left over.  Nearly: a subscribe in whose wait a callback unsubscribes the same
topic, and is itself interrupted, may end after it, and leaves a handler for a topic
the broker no longer has.  And once a request has failed, an answer that comes late
ends the next request of its type before the broker has seen it: subscribe compares no packet identifier (`aws_iot_mqtt_client_subscribe.c:249`), so
that it may return success while its request is still under way.

Met while modelling, and not given a run of its own: resubscribe ends at the first
free handler (`aws_iot_mqtt_client_subscribe.c:345`), so that topics behind one that
was unsubscribed are lost with a reconnect, though the header speaks of the topics
with active subscriptions (`aws_iot_mqtt_client_interface.h:124`); a subscribe made
by a callback in the wait of another takes the place the other has chosen, and is
overwritten (`:237`); a subscription the broker refuses gets a handler, since the
granted QoS is not looked at (`:249`); a message for several handlers is compared
with a topic in the read buffer, which a request made by the first of them
overwrites (`aws_iot_mqtt_client_common_internal.c:474`); the count of length bytes
is where the network read stores the one byte it read, so that a length of more than
four bytes is not refused (`aws_iot_mqtt_client_common_internal.c:331`); two threads that set up one
function at once store it twice (`wm_os.h:565`); an unsubscribe that could not
claim the client undoes another thread's claim and reports success
(`aws_iot_mqtt_client_unsubscribe.c:228`); a disconnect handler that reconnects
leaves an open connection behind DISCONNECTED_ERROR
(`aws_iot_mqtt_client_yield.c:64`; `OfflineIsClosed` holds only without it); the
page reads `configurednotupdated` before it was ever assigned, which throws
(`prov.js:107`), never clears `sysRequestAborted` and so never polls again
(`prov.js:181`), and takes the success of any one of its four certificate posts
for that of all (`prov.js:261`); the starter's cloud thread is not started again once
a yield has failed for good (`main.c:406`); the NTP event marks the synchronisation
as started though its thread could not be created (`main.c:101`).

Each violated property is a sentence of the code's own comments or headers;
`PROJECT.json` quotes it with its line.

Bounds.  `MaxDepth` bounds the nesting of calls in one thread: 7 frames hold a
yield that delivers a message whose handler publishes, waits and is interrupted
by another message, which is the whole pattern twice; a deeper stack repeats it,
and the proof of `StateMatchesStack` needs no bound.  Two threads are enough for
each violation, and for one thread's claim to be undone by the other's; three show that `Exclusive` does not depend on there being one
publisher, and its proof holds for any number.  There are no counters to bound.

Of the shadow, three requests on two topics and two records are the least with
which a topic is counted up and down, a record is used again, and another request
is answered in the wait of an unsubscribe; four requests let `shadow_full` leak
the list empty.  The real list has 20 entries and the handler table 5, of which
delta and delete notifications take two: the leak takes more failures, and needs
nothing else.  `MaxRequests` bounds the token's sequence number, `MaxDepth` the
nesting.

Of the standalone parts: one button and a count modulo 3 are enough, as the field
loop treats each button alike and a count modulo 3 wraps; one axis, with registers at
the edges of the six bits (0, 31, 32, 63, 64) and around the threshold; time stamps
around the epoch and the wrap, and requests below, within and above the limit of ten
exchanges; a buffer of six places, of which a line may fill three; four transfers, so that
two puts coalesce and are followed; a sequence of seven draws with a zero length,
and messages longer than what the ring has free; every board with every
application, which is all of them; two functions, two threads and two entries,
so that a function stored twice fills the table and leaves the other out; two threads and a queue of three.  For
the session two topics and two handlers, three calls in progress (a request, the
callback in its wait, and that callback's request) and two packets under way, enough
for a table that is full, has a hole, or holds a topic twice, and for an
acknowledgement that waits behind another; and, for one topic, five calls and three
packets, the least in which two opposite requests for it end in the wrong order
(`SessionWithin`).  A radix of 4 in place of 128 and a word
of 256 give every number of length bytes from one to four, with every length, as
the code treats digits alike; the word is the least that holds four digits.  For the
page `MaxInFlight` = 1 allows one request of each kind at a time (eight kinds run
side by side), and the failure bounds are 1, 2 and 1 for 3, 5 and 3;
`page_unreachable` takes the real ones and two requests of a kind.

Fairness.  `EveryRequestAnswered` assumes that a call in progress goes on (each
wait ends by the command timeout, callbacks return), that the application keeps
calling `aws_iot_shadow_yield`, as the demonstration's loop does and the header
asks for, and that timers run out.  It assumes nothing of the network: a lost
answer is timed out.  `StarterFairness`, `MaracaFairness` and `I2cFairness` assume
that a thread whose waits are all bounded goes on: the yield ends by its timeout and
gives up its retries, the sleeps end.  `PageFairness` assumes that each request ends,
since each has a timeout of five seconds; nothing is assumed of the user or of the
device.  `TimersFairness` assumes that the timer daemon runs: it has the highest
priority.  All other properties are safety properties.  Those about
busy and transient states say who will end them; that the call they name
does end is the network's and the timers' doing.

Deadlock is checked in every run of the client and the shadow: the application can
always call again, if only yield.  It is not checked in `standalone_parts` and
`page_unreachable`, where a thread may end, a page may be left on its last screen,
the bounds stop a session that is full of calls and packets, and an application's pins are configured once.

## Proofs

`ConstantsAssumption` types the constants; nothing else is assumed of them but
what a theorem says.

* `TypeCorrect` (`MqttClientProofs`): `Spec => []TypeOK`.  The type invariant is
  inductive; each kind of change of a stack (moving the top frame, returning,
  entering a call) has its lemma, and each action one step.
* `StateMatchesStackCorrect` (same module): if there is one thread and no
  message callback disconnects, the client state is always the one the innermost
  call put there (`Expected`), whatever the callbacks and the disconnect handler
  call, however deep, with or without auto-reconnect, in either lock mode.
  `StateMatchesStack` speaks of the top frame only and is not inductive: when a
  call returns, nothing says what the call below expects.  The invariant
  `NestInv` adds `CallsNest`: a waiting call and the one above it are `Linked`,
  which says what the upper one saved and will put back, and `Settled` keeps the
  two return codes that let yield leave without a compare-and-set away from the
  points where they would be wrong.  Three lemmas (`GotoNests`, `ReturnNests`,
  `EnterNests`) reduce a step to a fact about the top frame; then each action is
  one step.  `CallsNestCorrect`, `BusyHasOperationCorrect` and
  `TransientHasOwnerCorrect` follow from the same invariant.
* `MqttClientLifecycle`, under the same hypothesis of one thread.
  `NoYieldDuringCallbackCorrect`: yield never claims the client while one of its
  callbacks runs, from `CallbackInv`, which adds to `NestInv` that a frame in a
  callback keeps every frame above it out of yield.  The other three need the
  connection: `OfflineIsClosedCorrect` (a client that is not connected holds no open
  connection), `ManualDisconnectHoldsCorrect` (a client the application disconnected
  is not reconnected but by it), and `LifecycleCorrect`, that `MqttClient` implements
  `ClientLifecycle`.  The invariant `LifeInv` adds to `NestInv` the property
  `OfflineIsClosed` itself and what carries it through the calls that have closed the
  connection and not yet said so, or said so and not yet closed it: `PartedAtRest`,
  `LinkKnown` and `FramesFit`, of the four points at which a call below knows
  something of the connection.  A step then changes the state by one of the moves
  `StateMove` lists, and each is a step of `ClientLifecycle` or none
  (`MoveIsLifecycle`).  `OfflineIsClosedCorrect` and `LifecycleCorrect` also assume
  `HandlerStaysOffline`, that the disconnect handler neither connects nor reconnects:
  where it does, yield sets DISCONNECTED_ERROR over the new connection
  (`aws_iot_mqtt_client_yield.c:64`).
* `ExclusiveCorrect` (`MqttClientSharing`): any number of threads publish and
  resubscribe, one of them also connects and yields, the client does not
  reconnect by itself or from its handler: at most one thread is inside a call
  that has claimed the client.  The invariant `ShareInv` lists the frames a thread
  can have (`Kind`; only yield's own disconnect nests, as nothing is subscribed),
  ties an active frame to the states it can see (`Claimed`), and says that at most
  one frame is active.  The restrictions are needed: a client that reconnects by
  itself is IDLE between its connect and its resubscribe, one with subscriptions
  lets requests in during a callback, and a second thread that unsubscribes or
  disconnects undoes the claims of others, as the violated runs show.

* `ShadowRecordsProofs` is about `ShadowRecords` with lists of any size, any
  actions, calls nested to any depth, and whatever MQTT calls fail.
  `TypeCorrect`: the types hold.  `OnlyAcceptedCorrect`: a callback runs only for a
  request whose call returned success, callbacks that make requests and reconnects
  included; its invariant adds that a record in use is of an accepted request
  (`Backed`).  `AnsweredOnceCorrect` and `NothingLostCorrect`: without requests from
  callbacks and without reconnects, each callback runs at most once and an accepted
  request keeps its record until then.  Neither is inductive: the invariant
  `ExactInv` says what each call in progress knows of its record (`FrameFits`: a
  request's is still free when it comes to fill it in, an answered one is in use
  until its topics are unsubscribed, an expired one only during its callback), that
  only answers interrupt and only waits are interrupted (`StackFits`), that no two
  answers hold one record (`SlotsApart`), and that a record whose request was told is
  in the hands of the call that ends it (`RecordsFit`).  The restrictions are
  needed: `shadow_callback` violates `NothingLost` with requests from callbacks, and
  a reconnect empties `AckWaitList`.
* `ShadowSubscriptions` is about `SubscriptionList` and the client's handler table.
  `WaitingIsSubscribedCorrect`: both answer topics of a request that waits keep a
  handler.  `HandlersNameLiveEntriesCorrect`: no handler points at the topic string of
  an entry that was given back.  Each topic has a count, raised by a request and
  lowered at its end, and an end waits for the broker between its two topics, while
  answers of other requests run to completion.  The invariant `SubInv` adds to
  `ExactInv` what the counts mean.  `Supplied`: a topic counts at least as many as it
  has holders (the records that wait, and the calls that have yet to give it up; a
  publish that failed leaves the count higher).  `Paired`: the two topics of an action
  count alike, except that an end which is between them has lowered one.
  `EntriesApart`: the search for a topic finds the entry in use and not an earlier one
  that still holds its string.  `HandlersFit`: the handlers are the entries in use
  whose subscribe has ended, one each.  `OpeningFits`: what a request knows while it
  opens its topics.  The conditions are `RoomForAll`, which the run `shadow_answers`
  meets: neither list fills up, only publishing fails, fewer requests than a count
  can hold (255), no requests from callbacks, no reconnect.  `shadow_full`
  shows what is lost without the first; a failed publish on a persistent topic leaves
  its count one too high each time, which the byte bounds; a reconnect empties both
  lists and leaves the handlers.  The handler table of the code has
  five entries (`aws_iot_config.h:36`), so the room is there for two of the three
  kinds of request of one thing; for the third it has to be enlarged, as that file
  itself advises.

* `MqttSessionProofs`.  `SessionIsExactCorrect`: for any topics, handlers, nesting and
  number of packets under way.  `SessionIsExact` speaks of an idle client;
  `SessionInv` says what holds in between, as long as nothing disturbed the
  connection: `AnswersAreAwaited`, that there are never more requests and
  acknowledgements of a type under way than calls that wait for that type (they are
  counted, and the lemmas on `Number` say how a count changes when a packet or a call
  comes or goes); and that every topic is `Agreed`: whether the broker has it once it
  has read what is on the wire, which the last request for the topic decides, is
  whether the client has a handler once the calls in progress have ended.  It was
  this invariant that showed the opposite requests for one topic: `SessionIsExact`
  without them had held within the bounds of a smaller run.
  `LengthSurvivesCorrect`: for every radix and every length of at most four digits
  both decoders return what was encoded, and read as many bytes.  `LengthInv` says
  that the digits written so far and the rest are worth the length, and the same of
  those read; the products are in four lemmas of their own.

* `ApplicationProofs`.  The starter, for any number of buttons and any width of the counters:
  `ReportIsRecordedCorrect` and `ShadowIsCurrentCorrect`.  `StarterInv` adds
  `OnePressAhead`, that the interrupt's own guard keeps a count at most one ahead of
  what was recorded, and `CountHeld`, that a count that differs from what was recorded
  therefore stays as it is from its test to its copy.  For the page, with any bounds:
  `OneScanTimerCorrect` and `EntryStaysCorrect`, from `ListInv`, which ties the
  handle of the timer and the aborted flag to the screen and the model's state.
  `EntryStays` is about the page of the selected network; the page in which the
  certificate is entered is replaced by the list of networks when a scan is answered,
  and has no property.
  The maraca: `OneCloudThreadCorrect`, from `NotYetCreated` (the state is
  INITIAL only as long as there is no thread or the event that creates it runs);
  `OnlyTheRaceStrandsCorrect`, from `ReturnsTold`, which says where the event thread
  is when the client is closed and nobody has been told; `NoSilentDriftCorrect`.
  The OS services: `OnlyOverlapHooksTwiceCorrect` and `SetUpIsHookedCorrect`, for
  tables of any size, any threads and any functions: `OverlapsNoted` says that the
  histories have every two calls that are about one function at once, `CallsKnow` what
  the entries a call has passed (`Passed`) tell it of its function, unless another
  call about it came in between, `WritesFit` what the entry it is about to write
  holds.  `NoCommandAfterDeleteCorrect` and
  `StopIsCarriedOutCorrect`: `DeleteIsLast` says nothing follows a delete in the
  queue, `LastIsAccepted` that the last command in it is the one accepted last.
* `DemoProofs`: `ExchangeLeavesNothingCorrect`, `ClockIsServerTimeCorrect` (from
  `ExchangesCounted`, which counts the answers since the first exchange, and a lemma
  on the two epochs modulo the wrap), `FollowsATransferCorrect` (from `BootOrder`:
  no thread before the semaphore was taken), `LineIsEchoedCorrect` (from
  `LastPlaceKept`).  `SameSequenceCorrect`, for any generator and any size of the
  buffers: `InStep` says there is a history of messages, each starting where the one
  before ended (modulo the length of the generator), in which the master is at one
  message and the slave at another, and what is under way (read, in the ring, to be
  written) is the data of those between, cut anywhere.  The slave can also be the one
  ahead, by messages without data.  The history is a bounded function that a lemma
  continues (`HistoryGrows`), so nothing is proved by induction over data.
  `PinsKeptCorrect`: `SetupsApart` compares the pins of what each application
  initialises, board by board, and `BoardInv` says that what is configured is the
  beginning of the setup.

Only model-checked: `TransientHasOwner` and `BusyHasOperation` with two threads, and every
liveness property (`EveryRequestAnswered`, `PressIsReported`, `ReturnIsActedOn`,
`PutIsFollowed`, `PostIsSettled`, `DeleteEnds`), which are beyond the prover.

## Limits

With one thread `NoYieldDuringCallback`, `ManualDisconnectHolds`, `OfflineIsClosed`
and `StateMatchesStack` are about what a thread's own nested calls do to each other.
With a second thread TLC refutes the first three: the first in `client_pair_yield`;
`ManualDisconnectHolds` when the other thread yields, and its drop overwrites a manual
disconnect; `OfflineIsClosed` when two threads connect.  `BusyHasOperation` and
`TransientHasOwner` hold with two threads, with blocking locks, without callbacks and
as long as neither disconnects by itself: in trylock mode a failed release leaves its busy state behind,
and `client_demo_busy` shows what a disconnect does.  Of two connects the model has
the one connection that the later handshake leaves, not two that share a network
object.  A keep-alive is one step, so that a ping flag set for a connection that
another thread has replaced meanwhile is not seen.  `SessionIsExact` is about
connections on which nothing in `disturbed` happened; after it the code is wrong, as
told above.  `LengthSurvives` is about lengths of at most four bytes.
`PressIsReported` ends where a press is put in a document, which may then be lost.
`ReturnIsActedOn` is about a maraca whose cloud thread exists: one that was never
created is not seen.  The entries of `PROJECT.json` under hazards say the same at each
line.

## Not modelled

The life cycle abstracts packets, topics, the handler table and timer values.  The
session leaves out topic filters with wildcards, packet identifiers (sent, and never
compared), publishes with their acknowledgements, and a second thread; its callbacks
make requests and do not connect.  `PacketLength` takes lengths the protocol allows
and not those of a peer that breaks it.
`aws_iot_mqtt_autoreconnect_set_status` is a constant here: auto-reconnect does
not change while the client runs.  JSON text, the vendored stacks, drivers, the
boot loader and the build system are out of scope; `PROJECT.json` gives the reason
for each.  The wlan and TLS demonstrations call the binary Wi-Fi library and print
what it returns.  Of `wm_os.h`, threads, queues, mutexes and memory are single calls
of FreeRTOS, and the reader-writer locks are in the binary library: there is nothing in
source to model.

Lines covered.  Outside `external` directories almost all C code of the repository is
headers of registers, clocks and the core's intrinsics, the driver headers of a binary
library, and declarations: they have no behaviour, and no definition here stands
for them.  The programs in source there (the applications, the board files, the
code in `wm_os.h`) are modelled as listed; the aws_iot client, which is the bulk of
the models, is under `external`.

## Plan

What is left.  Modules, in order, each with its MC module, configuration and proofs:

1. `MqttSession` composed with the skeleton of `MqttClient`, with publishes of QoS 1
   and the second thread; the shared write buffer (requests serialise before they
   lock).
2. The shadow's versions and deltas, in a module of their own.
3. `SysArch` (mailboxes over FreeRTOS queues), the tick timer's wrap.

Proofs: the handler table of `ShadowRecords` when a subscribe fails;
`TransientHasOwner` and `BusyHasOperation` for several threads.
