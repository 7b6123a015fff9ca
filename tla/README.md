# Verification of the koti devices

This directory models the programs of this repository in TLA+: home automation
sensors on PIC microcontrollers, a bridge and a controller on Linux, and an
ESP32 light. TLC checks the models on small instances; TLAPS proves the
most important properties for every value of the parameters.

To check a run: `tlc -config MCKotiLink.cfg MCKotiLink.tla`; to check the proofs of a
module: `tlapm KotiLinkTheorems.tla`. `PROJECT.json` lists the runs, the source
lines behind every definition, the hazards, the findings and the theorems.

## 1. The system

```
 th, water-usage, click        proxy/nrf24l01p            proxy/mqtt
 (PIC or host, C)              (Linux, C)                 (Linux, Python)
 fill, koti_send ---radio---> bridge ---LAN datagrams---> decrypt, publish ---> MQTT broker
        \------------------------------ LAN (host builds) ----^                    |
                                                                                   v
 button/generic (Linux, C): HTTP server for switches          esp32/led-6ch (C) <--+
```

| Component | State | Operations | Modelled by |
|---|---|---|---|
| Radio protocol `common/nrf24l01p/nrf.c`, `nrf.h` | sequence number; the caller's buffer, sealed in place | `nrf24l01p_koti_send`, `_recv` | `KotiPacket`, `KotiLink` |
| Controller `proxy/mqtt/*.py` | keys of `config.yaml` | `parse_header`, `decrypt`, the publications of the loop | `KotiPacket`, `KotiNetwork` |
| Bridge `proxy/nrf24l01p/main.c` | none between two turns | radio to LAN, LAN to radio | `KotiNetwork` |
| Temperature and humidity sensor `th/` | driver found, last readings, buffer | probing, `send_th`, `send_battery`, `send_debug` | `KotiNetwork` |
| Click sensor `click/` | buffer | `send_click`, `send_battery` | `KotiNetwork` |
| Water meter `water-usage/main.c` | two hardware timers, four counters, power of the hall sensor, total | the wake-up loop; `send_usage`, `send_battery` | `WaterMeter`; its packets in `KotiNetwork` |
| LED light, connection `esp32/led-6ch/main.c` | two event bits, the MQTT client, credentials; with the broker, the states it retains | `mqtt_connect`, `mqtt_event_handler`, `mqtt_publish`, the button, restarts | `LedConn`, `LedTopics` |
| LED light, channels, same file | `ch[]`, the PWM outputs | `adjust_all_channels` and the other sweeps; the commands | `LedLights`; what they publish in `LedTopics` |
| Web interface of the buttons `common/httpd/httpd.c`, `button/generic/{web,button}.c` | list of addresses, sessions, requests, switches | registration, the request handler, completion, stop | `Httpd`, `ButtonService` |
| Linked list macros `common/linkedlist.h` | first, last, next | `LL_APP`, `LL_GET` | inside `Httpd` |
| Option parser `common/opt.c` | the program's table: value, owner and callback of each option | `opt_init`, `opt_set`, `opt_set_callback`, `opt_parse`, `opt_get*`, `opt_quit` | `Options`, `OptionStore` |
| MQTT client of the Linux proxy `proxy/nrf24l01p-mqtt/` | a queue nothing fills | - | not modelled, see 8 |
| `button/dual-pic8`, `testing/nrf`, `ping`, `jsmn`, `pyRC5` | - | not modelled, see 8 | - |

How the parts interact: the sensors, the bridge and the controller exchange packets
and have nothing else in common but the packet's layout, once in C and once in
Python. The light and the web server share memory between two threads or
tasks without a lock. The water meter shares timer registers with the hardware.

What is hard:

* **One layout, three implementations.** `nrf.c` encrypts blocks that overlap and
  are chained; `decrypt.py` must undo exactly that; `nrf24l01p_koti_recv` does
  something else. No test has two of them.
* **A buffer encrypted in place and reused**, over packets of different types.
* **A medium that loses, duplicates and reorders**, a bridge that relays in
  both directions with no check, sensors that lose everything in a power cycle.
* **Hardware that moves between two statements** of the water meter's loop.
* **Tasks without locks**: `ch[]` and the PWM of the light, the event bits, the
  web server's list of addresses.
* **No retry anywhere**: the light restarts to recover; the sensors never wait
  for an answer.
* **State kept elsewhere**: the broker retains what the light published before
  a restart in which the light forgot it.
* **Ownership by convention**: an option's string belongs to the parser or to the
  program's text according to a number beside it.
* **Handlers called in pieces** by libmicrohttpd, with connections that
  break off between any two calls, and a start-up and a stop that run beside them.

What makes each part correct:

| Part | Properties |
|---|---|
| Protocol | the controller recovers exactly what the sender summed, at every level (`ControllerRecovers`); what must stay in the clear does (`ClearBeyondBlocks`) |
| Network | only what a sensor set out to report is published, whole and under its name (`Authentic`); no packet of a registered sensor is dropped (`Readable`) |
| Water meter | never more than was seen (`NoOverCount`), and little less (`LossBounded`); the sensor is not cut off while water runs (`NotCutOff`); one packet per wake (`OnePacketPerWake`); overflows reach the total, reports go on (`OverflowIsMetered`, `ReportsKeepComing`) |
| Light | one client per boot (`SingleClient`); no waiting for a client that is not there, but after mDNS (`StrandedByMdns`); nothing retained from another boot (`NoOldState`); each operation leaves its topics true (`Answered`); recovery, of the connection and of the topics (`CatchesUp`); outputs that follow the array (`DutyFollows`); a thermal sweep that meets no command only dims (`DimsAlone`); cooling down (`CoolsDown`) |
| Options | freed once and never a literal (`MemorySafe`), lost only by `opt_set` (`OnlySetLeaks`), filtered (`GivenPasses`), and the last setting counts (`KeepsSettings`) |
| Web | nothing freed twice or used after, and exactly what is in use allocated as long as the process lives (`MemorySafe`), sessions count their requests (`ActiveCounts`), each request switches a button once (`Serves`) and ends, unless a crash cuts it off (`RequestsEnd`) |

## 2. Modules

| Module | What it is |
|---|---|
| `KotiPacket` | the packet and the three routines that seal and open it, as operators; the byte operations of the libraries are CONSTANT operators |
| `KotiPacketTheorems` | the assumptions on those operators (`ByteOps`, `Cipher`); round-trip theorems |
| `KotiLink` | one sender, the controller, one C listener; all encryption levels |
| `KotiNetwork` | sensors, radio, LAN, bridge, controller, restarts |
| `RadioLibs` | eight-bit stand-ins for the libraries: xor, the dallas crc bit by bit, a Feistel network for RC5 |
| `WaterMeter` | the metering loop and the hardware around it |
| `LedConn`, `LedLights` | the two halves of the ESP32 light |
| `LedTopics` | `LedConn` with two tasks that assign and publish, and the broker's retained messages |
| `OptionStore` | abstract: what the option parser promises a program |
| `Options` | the option parser, shown to implement `OptionStore` |
| `ButtonService` | abstract: what a user of the web interface is promised |
| `Httpd` | the web server, shown to implement `ButtonService` |
| `...Theorems` | the proofs about the module they are named after |
| `MC...` | the instance TLC checks |

`KotiLink` and `KotiNetwork` both extend `KotiPacket`. `KotiNetwork` composes the
sensors, the bridge and the controller; of the water meter it takes only that the
total grows and is reported, and `WaterMeter` has the loop that makes it grow.
The two halves of the light touch at one point, the PWM outputs and the start of the
client, which `LedLights` reduces to the variable `client`. `LedTopics` extends `LedConn`: it takes its
actions and adds the operations on the channels as programs of assignments and messages. Each of its steps is one of
`LedConn`'s or leaves the connection alone, so that the invariants of the connection are proved of the whole.

Definitions whose comment calls them *a mutant* are not part of a specification.
Each is one definition with a plausible bug in it; put in the place of the original it must
make TLC report the property it is listed with in `PROJECT.json`.

## 3. State and actions against the code

### KotiPacket

A packet is eight words of four bytes, because the cipher and the chaining never
look at less. The flags byte is held as two fields `enc` and `ttl`: every routine
takes it out of the packet before it computes and puts it back after; what a routine
puts there meanwhile (zero, or `rand` in the listener) is the third byte of word 0.

`koti_send` is `Stamp` (sequence, random bytes, flags and crc zero), `Summed`
(crc stored), `Encrypt`, then ttl at its maximum. `Encrypt` has a line for each `if` on the
level. `decrypt` is `decrypt.py`. `koti_recv` is the listener with its `switch` that falls
through. The word list of each `EXCEPT` is the byte range of the source.

### KotiLink

`Send` is a call of `nrf24l01p_koti_send` with any content and any level 0..7 the
three bits can hold. `ControllerOpens` and `ListenerOpens` read a copy of the last
packet. `Restart` clears the static variables. `sealed` is a history variable: the
buffer at the moment the crc was stored, before it is encrypted in place.

### KotiNetwork

Each sensor runs one of six programs (three firmwares, PIC and host). `pc[d]` is the last
thing it did; the order of the host loops is fixed by it. In the PIC loops the timers
decide what is sent, so any report may come next. `Filled` is the fill of a buffer:
`memset` of all but the uuid, then each field; the result does not depend on what the
buffer held, which is encrypted leftovers. `Transmit` is `koti_send` and the transmission. `SendStaleTh` is
`main.c:204` of `th`: the read failed, the variables go out all the same.

`air` and `lan` are the packets that were ever on that medium. A reader takes any
of them, once, twice, late or never: loss, duplication and reordering at once.
`RadioToLan`, `LanToRadio` and `Receive` are the bridge's two directions and the
controller's loop. `built` is a history variable that records the *arguments* of each
report, apart from the packet, so that `Authentic` compares what the firmware meant
with what the broker got; `Meaning` is written from the topics and units, not from
the packet layout. Payload floats are opaque words.

### WaterMeter

An action is one access of the loop to a register the hardware writes (`HallMoved` and
`HallLatch` are the two reads of `TMR1L`; `Overflow` and `Reload` the acknowledgement and the
preload) or a step with none. `Edge` and `Tick` are the hardware and may come between any two. A
transmission is the time between `Count` and `SendUsage` or `SendBattery`. `edges`, `fresh`
and `quiet` are history variables.

### LedConn

`main`, `client` and `wifi`/`smartconfig` are the three actors. `Spec` has no fairness; `LedTopics` states it. The two bits are set
and cleared by separate actions (`OnConnected`, `OnConnectedDone`). `os_restart` is the
conjunction every path to `os_restart()` shares. The MQTT client reports
a failed attempt and a lost connection alike, as `MQTT_EVENT_DISCONNECTED`, and that
event restarts the device. wifi, mDNS and the client are libraries outside the
repository, modelled from what `main.c` relies on.

### LedTopics

Of `ch[]` only facts are kept: what a message says is what `ch[]` now holds, or it is not. An
operation is a program, the sequence of its assignments (`Assign`), readings (`Read`, the `sprintf`) and
messages (`Publish`) in the order of the source: `AdjustProgram` is `adjust_all_channels`, `ConnectedProgram` the
states published at `MQTT_EVENT_CONNECTED`, and so on. `todo[k]` is what task `k` has before it, a step of it one access, and
the tasks interleave between any two. `PublishStep` is `mqtt_publish`: nothing while the bit is clear, lost while the
network is gone. `retained[t]` is `"old"` (from an earlier boot), `"fresh"` (it says what `ch[]`
holds) or `"stale"`. `ForgetAll` is a restart: the programs end, `ch[]` is as compiled, and every message is old.
`promise` is a history variable: the topics an operation is there to bring up to date, or none if an operation of the other task under way at the same
time has a step before it that disturbs one of them (`Spared`).

### LedLights

A step writes `ch[]` once, reads what a duty is computed from, or calls `pwm_set_duty`, with the value in
between held in `reg`. Two accesses fall into one step where a duty is read with its switch (`MainEval`, `LedEval`, `RgbEval`) and where
`RgbSwitch` stores a switch and reads the value beside it. `main` and `handler` are the program counters of the two tasks: the operation, its
argument, the place in it, the channel. `overlap` and `clean` are history variables that
say which outputs were last driven by an operation on single channels with the other task idle.

### Options

An entry of the table is its short name; entries without one are not in the instance (two of them, or one beside
`getopt_long`'s zero, would be told apart by nothing). `value[o]` is a pointer: `NULL`, `LITERAL` (the string in the table)
or a cell of the heap; `used[o]` is the source's 0, 1, -1, and `Owned` the condition under which both `opt_quit` and
`opt_parse_single` free. `fault` remembers a free of a literal or of a free cell. `opt_parse` begins a run of
`ParseOption`, `ParseUnknown`, `ParseEnd` in any order, which is what `getopt_long` can hand out; `Reject`, `ShowHelp` and
`ParseUnknown` end the program as the source does. `strtol` and `strtod` are CONSTANT operators; `AsInt` is the cast of `opt_get_int` from `long` to `int`, which wraps at `IntSpan`. Memory is never exhausted.

`OptionStore` has no pointers: an option has a setting, and was given or not. The refinement maps a pointer to the text behind it.

### Httpd

`main` is the main thread (`web_init`, then `httpd_quit`), `daemon` the handler call
in progress in libmicrohttpd's thread and its place in the list of addresses, `at[c]` how far connection `c` is. `httpd_request_find`
is the first call for a request, with its two failures (no session, no request);
`Continue`, `Serve`, `Expect`, `Default` the loop through the addresses, the last with the file that is there or not; `Piece`
and `Finish` the later calls for a body; `httpd_request_completed` the completion callback,
which comes however the connection ended. `heap` is the set of allocations, each named by
the connection, address or session it belongs to; `Malloc` and `Free` keep it, and `fault` remembers a
free of something not in it.

Every allocation may fail. Most are checked, and the connection is closed or the program ends. Two are not, and there
the process ends (`Crash`: `main` is `"crashed"`, open connections are `"cut"`). `PieceNull` is the `realloc` of a body (`httpd.c:250`), whose
null result takes the place of the pointer and is written through in the next line. The `strndup` of a substring (`httpd.c:285`) may fail for any of them: `restr` is the
set of those that were copied, and a handler that needs one that was not (`atoi(restr[1])`, `web.c:30`) is `ServeNull` in a `GET`, `FinishNull` at the end of a body.
An answer that cannot be created or queued closes the connection (`MHD_queue_response`).

`ButtonService` knows no threads, list, sessions or pieces: a request is asked, takes
effect at one instant or not at all, and is answered with the state it leaves (a `PUT` that names no
operation is answered "off", as `web_req_button` does). The refinement maps
the switch number of a request to what a byte keeps of it. `known` makes the promise
that survives a start-up beside requests: an address that answered once is not
answered with 404 later.

## 4. What each run checks

Every property of a passing run has a mutant in `PROJECT.json`: a plausible bug in one
definition that makes TLC report the property violated.

| Run | Config | Checks | Shows |
|---|---|---|---|
| `link` | `MCKotiLink.cfg` | `TypeOK`, `ControllerRecovers`, `ClearBeyondBlocks` | every level round-trips from C to Python, over restarts and a wrapping sequence number; the uuid is untouched up to level 2 |
| `net` | `MCKotiNetwork.cfg` | `TypeOK`, `Authentic`, `Readable` | two households: PIC sensors on the radio behind the bridge, with failed reads and power cycles; the host builds of all three, one sensor on the radio and two on the LAN, one not registered |
| `water` | `MCWaterMeter.cfg` | `TypeOK`, `NoOverCount`, `LossBounded`, `NotCutOff`, `OnePacketPerWake`, `OverflowIsMetered`, `ReportsKeepComing` | the metering loop against edges and ticks between any two of its steps |
| `led_conn` | `MCLedConn.cfg` | `TypeOK`, `SingleClient`, `StrandedByMdns`, `TopicsTypeOK`, `NoOldState`, `Answered`, `CatchesUp` | both ways of finding the broker, with sweeps and commands under way; only an unanswered mDNS search leaves the light waiting for nothing; with a fixed broker it always recovers, and the broker then holds nothing from before |
| `led_lights` | `MCLedLights.cfg` | `TypeOK`, `DutyFollows`, `DimsAlone`, `CoolsDown` | sweeps and commands over the shared channels; `DimsAlone` is what is left of `ThermalOnlyLowers`, which `led_thermal` refutes |
| `options` | `MCOptions.cfg` | `TypeOK`, `MemorySafe`, `GivenPasses`, `OnlySetLeaks`, `KeepsSettings` | the table of `proxy/nrf24l01p-mqtt/main.c` and its filter, under any order of calls and arguments; it implements `OptionStore` |
| `httpd` | `MCHttpd.cfg` | `TypeOK`, `MemorySafe`, `ActiveCounts`, `Serves`, `RequestsEnd` | two connections against a server that starts, registers, runs out of memory, crashes and stops; it implements `ButtonService` |

Five runs are expected to end in a counterexample. Each checks a statement of
the source that its code does not keep:

| Run | Property | Counterexample |
|---|---|---|
| `listener` | `ListenerAccepts` | `nrf.h:51` says the crc is taken with `flags` set to `rand`; `koti_send` takes it with zero, `koti_recv` checks it with `rand`, and deciphers blocks 2 and 1 without the chaining. A C listener rejects what a C sensor sends. |
| `led_mdns` | `ComesOnline` | two mDNS queries go unanswered, `mqtt_connect` returns at `main.c:308` with `MQTT_CONNECTING_BIT` set, and `main.c:468` never calls it again: no retry and no restart. `main.c:417` means an absent broker to lead to a restart. |
| `led_thermal` | `ThermalOnlyLowers` | the sweep reads a channel, a command stores a lower value, the sweep writes the old value less one: brighter, against `main.c:487`. |
| `led_group` | `OtherGroupUntouched` | a command on `rgb1`, "second RGB channel" (`main.c:102`), drives PWM channels 0-2 (`main.c:156`, `167`). |
| `options_range` | `IntInRange` | the port `0099` passes its filter as 99 (base 10, `opt.c:264`) and `opt_get_int` reads 0 (base 0, `opt.c:211`), below the minimum for which `opt.c:270` says "too small value". |

### Bounds, and why they are enough

* **link**: two-bit bytes, two keys, a cipher and a crc that meet the assumptions
  (TLC evaluates `ByteOps` and `Cipher` for every key and block). Four buffer contents, all
  eight levels, a sequence that wraps after two. The property is about the order in which
  blocks are undone, which the width of a byte does not touch; the theorems have no bound.
* **net**: real eight-bit codes, crc and xor (`RadioLibs`), since the psu branch
  of the controller compares codes with one another. `MaxSent` is two packets per sensor (one of the
  click sensor): two packets of one sensor, of different types, are what it takes to mix them, to
  overtake or to leave stale ciphertext. One reading, voltage and text each: they are told
  apart by where they come from, and two PIC readings differ after a restart (zero). `Adc` has
  a value below 137 and one above. `MaxMetered` is one decilitre. `Installation` are the
  two sets of sensors looked at one at a time: programs do not differ in who else is there, only media and controller are shared.
* **water**: three pulses per decilitre for 60, `TimerSpan` 16 with `ByteSpan` 8 for 2^16 and 2^8,
  so that the low byte does not repeat between preload and overflow, as with the real numbers.
  `SEND_DELAY * TIMER_HZ = 4` and `SEND_DELAY_BATTERY = 6` keep the ratio 400 : 600 of the source on which
  `OnePacketPerWake` rests. `MaxEdges = 12` is three decilitres and a rest; what
  `LossBounded` says it hardly tests beyond the first, and the theorem `MeterLossBounded` covers the rest. `EdgesPerTurn` is less than a decilitre:
  between two turns of the loop (a wake lasts milliseconds, with one transmission) fewer
  pulses come than a decilitre has. That is a fact about water pipes, not about the code, and
  is stated as a parameter. The theorem `MeterNeverOverCounts` does not use it.
* **led_conn**: the connection is finite as it is; the number of clients stops at 2, one more than allowed. One channel per group: the
  topics of a group then speak of one channel and those of two groups are still told apart. One sweep and one command in each boot (`MaxSweeps`,
  `MaxCommands`; boots are not counted) are one operation of each task, so that both interleave with each other, with the states published
  after connecting and with the loss of the connection. `led_mdns` has neither: its counterexample needs none.
* **options**: four entries: a choice of two texts, the source's port with its filter, a flag, and the help entry, which has its short name here. Four
  cells: one each for the two options with an argument, and two that `opt_set` may lose (`MaxSets`). Four texts: in range, too large, not a number, and one with
  a leading zero. `IntSpan` is narrow for TLC's integers, but its `int` still holds their numbers in base 0. Cells are symmetric, and none of the properties names one.
* **led_lights**: one channel per group and values 0..2 for three and 0..255. A channel's steps never
  look at its neighbours but for the group's first switch, which is its own here; `OtherGroupUntouched` tells
  the groups apart. `Payload` has a number in range and one that wraps to 0. `MaxSweeps` bounds the motion
  and smartconfig sweeps, not the thermal ones, which `CoolsDown` is about.
* **httpd**: two connections are enough for one request to come between two calls of another,
  or between a registration and the next. One switch, and four requests: a toggle, a question that names the switch by a number a byte
  cannot tell from its own, the count and a file. A switch that does not exist and a `PUT` that names no operation are left to the theorem `HttpdServes`, which has any requests.
  `MaxSessions` bounds the sessions; any other allocation may fail at any time.

`CHECK_DEADLOCK FALSE` is set where the model may stop: the network when every sensor has used up
`MaxSent` or is not powered, the web server after the program ended.

### Fairness

* `WaterMeter`: weak fairness of `Tick` (timer 0 runs from its own oscillator) and of `Loop` (the loop waits for
  nothing but the flags, and a transmission takes a bounded time). None of `Edge`: water need not flow.
* `LedTopics`: weak fairness of each step of a program and of `WifiUp` (the driver keeps trying); strong fairness of `MainFree` and
  of the client's events. Both tasks are scheduled by FreeRTOS and neither blocks for ever; a sweep or a command disables them for
  its time, but the main loop gets to its connection check in every round (`main.c:461`) and the client to its next event after every handler. None of the button, of
  smartconfig, of sweeps, of commands or of the network; the liveness properties assume `Settled` instead.
* `LedLights`: weak fairness of a sweep and a command that has begun; strong fairness of `BeginAdjust`, which
  the main loop reaches once a second whatever happened before (`main.c:487`), while motion sweeps may keep making the task busy in between.
  None of commands.
* `Httpd`: weak fairness of the handler call in progress (it runs to its end); strong fairness of
  `Daemon(c)`, since the daemon's epoll loop serves every ready connection in turn while others disable it
  meanwhile; weak fairness of `Receive(c)`: the browser reads its answers. That a body announced is sent
  or the connection closed is part of `Daemon(c)`: the server sets no connection timeout, so a browser
  that does neither would hold its request open for ever, and `RequestsEnd` does not speak of it.

## 5. What is proved

TLAPS checks these for every value of the constants that meets the named assumptions.

| Theorem | Says | From |
|---|---|---|
| `RoundTrip` | undoing any level gives the packet back, for every key and content | `ByteOps`, `Cipher` |
| `SealedOpens` | what `koti_send` seals, `decrypt` accepts and returns | the same |
| `UuidStaysClear` | at level 2 or lower the uuid is as it was put in | none |
| `LinkTypes`, `LinkControllerRecovers`, `LinkClearBeyondBlocks` | `TypeOK`, `ControllerRecovers`, `ClearBeyondBlocks` of `KotiLink` | and `LinkAssumption` |
| `NetworkTypes`, `NetworkAuthentic`, `NetworkReadable` | `TypeOK`, `Authentic`, `Readable` of `KotiNetwork`, for any number of sensors, programs, packets, deliveries, restarts | and `NetworkAssumption` |
| `MeterNeverOverCounts`, `MeterTypes` | `NoOverCount`, `TypeOK`, for all widths, periods and interleavings | `WaterAssumption` |
| `MeterLossBounded` | `LossBounded`: `100 * edges` is at most `EdgesPerDecilitre * (millilitres + 100)` | and that a turn brings fewer edges than a decilitre |
| `MeterNotCutOff` | `NotCutOff` | and `LowAssumption` |
| `MeterOnePacketPerWake` | `OnePacketPerWake` | and `PeriodAssumption` |
| `LedTypes`, `LedSingleClient`, `LedStrandedByMdns` | `TypeOK`, `SingleClient`, `StrandedByMdns` of `LedConn`, with all that `LedTopics` adds | `DiscoveryAssumption` |
| `TopicsTypes`, `TopicsNoOldState`, `TopicsAnswered` | `TopicsTypeOK`, `NoOldState`, `Answered` of `LedTopics`, for any number of channels, sweeps and commands | and `TopicsAssumption` |
| `LightsTypes`, `LightsDutyFollows`, `LightsDimsAlone` | `TypeOK`, `DutyFollows`, `DimsAlone` of `LedLights`, for any number of channels and any payloads | `LightsAssumption` |
| `OptionsTypes`, `OptionsMemorySafe`, `OptionsGivenPasses`, `OptionsOnlySetLeaks` | the invariants and the action property of `Options`, for any table | `OptionsAssumption` |
| `OptionsKeepSettings` | `Options` implements `OptionStore` | the same |
| `HttpdTypes`, `HttpdMemorySafe`, `HttpdActiveCounts` | `TypeOK`, `MemorySafe`, `ActiveCounts` of `Httpd`, for any number of connections, switches and sessions and any requests | `HttpdAssumption` |
| `HttpdServes` | `Httpd` implements `ButtonService` | the same |

The assumptions: `ByteOps` says that results are bytes and that xor cancels itself; `Cipher` that a key
permutes the blocks. Nothing is assumed of the crc: what is proved is acceptance of good packets,
not rejection of bad ones. `NetworkAssumption` has distinct uuids and a `config.yaml` that holds the
key compiled into the firmware. `LowAssumption` is what makes comparing the low byte enough: the timer's span is a multiple of a byte, and a
decilitre with one turn of the loop is less than a byte. `PeriodAssumption` is the 400 : 600 of the water meter: later battery periods are
a multiple of half the usage period.

`HttpdAssumption` has finitely many connections (a machine has no others, and `ActiveCounts` counts them), whose names are not those the model gives to nothing, addresses and sessions, no more switches than a byte tells
apart, and no operation in a `GET`: the operation is the body, and libmicrohttpd uploads none for a `GET`. The refinement is false without the last.
`TopicsAssumption` has at least one channel in a group.

The arguments:

* **Packet.** `FirstBlockInverse` and `ChainedBlockInverse`: one block undone right after it was applied
  gives the words back, as a block changes none of the words it is chained to. `RoundTrip` strings them
  together from the last block to the first, the order in which blocks 1 and 2, which share a word, must be undone.
* **Link.** `ControllerRecovers` speaks of the moment the controller opens a packet, long after it was sealed. `Sealed`
  (the buffer *would* open to its recorded contents) carries the fact from `Send` to `ControllerOpens`.
* **Network.** `Authentic` speaks of what was published; what keeps it is `AllGenuine`, that every packet in
  flight is genuine (it opens under its sensor's key and its publications are among
  the meaning of some report). Relaying keeps it since it copies packets, a send adds one genuine
  packet (`SendStep` and a `...Means` lemma per type), and reports are never forgotten. `Readable` follows from it.
* **Water.** `NoOverCount` is not inductive: `Reload` raises the total and not the edges. `Credit` puts a value
  on what will be metered: the progress of timer 1, a decilitre for the flag, and one for the
  program counter between acknowledgement and reload. An edge raises it by at most one, the loop never raises it.
  `LossBounded` bounds the other side: `EdgesPerDecilitre` is a decilitre's pulses and what the two turns around an overflow may bring that the preload writes over; the same three
  places hold the edges not yet paid for, and since a turn brings less than a decilitre no second overflow comes before the first is acknowledged.
  `NotCutOff` needs that equal low bytes mean no edges: between two looks the timer moved by less than a byte, or was reloaded
  and moved by a decilitre and a turn at most. `OnePacketPerWake` is a congruence: both counters go down together, and the difference of their remainders modulo half the usage period never becomes zero.
* **LED lights.** `DutyFollows` speaks of the moments both tasks are idle. In between, a clean channel follows its output unless
  a task is at work on it (`Follows`), a task that works alone holds in `reg` what the array says (`Evaluated`), two busy tasks
  have set `overlap` (`Overlapped`), and a group command has given up every channel it may touch (`GivenUp`).
  `DimsAlone`: what a sweep has read it still finds when it writes (`Remembered`), since a command that is at work meanwhile has set `overlap`.
* **Options.** Every pointer into the heap is owned, points to a string, and is the only one to it; a literal has `used = 0`. Freeing what `Owned` says
  keeps this, since the next thing that happens to the entry is a new pointer or `NULL`. For the refinement each action is one of `OptionStore`'s or leaves settings,
  given options and status alone; freeing one option's string changes no other's text because none shares it.
* **LED topics.** A step of a program changes nothing of the connection but `client` from `"up"` to `"lost"`, which is `Lose`.
  `Answered` and `NoOldState` rest on what the programs contain. `Tells(p, t)` says that program `p` publishes `t` at some place, that a step before it
  gives the task the facts of `t` with no other reading in between, and that no later step disturbs them. There is a lemma per program (`ConnectedTells`, `RgbTells`,
  `AdjustTells`, ...): it is put together from `TellsBefore`, `TellsAfter` and `TellsAtEnd` (a program followed or preceded by another) and, for the loops over `ch[]`, `InTurnTells`
  (a topic one round tells and no other round disturbs), for any number of channels. The invariant cuts programs off: `WillSay` is
  `Tells` of what is left of a program, from what its task holds already (`WillSayTail`), `Kept` is that or a message that is true and will be left alone, `Promised` that a connected task
  keeps every topic of its promise, and `Apart` that the other task has nothing before it that disturbs one: a step of the task itself keeps `Kept` (`KeptOn`), and so does one of the other
  (`KeptBeside`). The states published at `MQTT_EVENT_CONNECTED` name every topic and end the other task's promise, whose first messages may have been dropped.
  With nothing left `WillSay` is false, so the topic is true: `Answered`. `Renewed` says that a topic from an earlier boot is
  one the client's task still has to publish: the answer to `MQTT_EVENT_CONNECTED` names all topics, and a command begins only after it.
* **Web.** `MemorySafe` and `ActiveCounts` need to know what each connection is in the middle of (`Stands`): a request the handler has not finished looking up is
  empty (`Opened`), one with a body belongs to a registered address and has received what is no longer left (`Uploading`), and a completed one holds nothing. `Exact` says
  that the heap is what requests, addresses and sessions hold: each handler call adds or removes the allocations of one connection (and a session), `LL_APP` and `LL_GET_LOOP` those of one address.
  All this holds while the process lives; what is left of it after a crash is `Ruin`, which no action disturbs, and `Inv` is one or the other. `ActiveCounts` is a
  cardinality, kept as connections enter and leave a session one at a time. `ListShape` is what the list can be while it grows in one thread
  and shrinks in another. For the refinement `Answerable` says that an address answered once is registered until the daemon has stopped, and was not passed by the scan that
  stands beyond it: without it the 404 of `Default` could be one `ButtonService` forbids. Every step then is one of its steps or leaves switches, requests, answers and known addresses alone.
* **LED connection.** While a client exists one of the bits is set, since the handler sets `CONNECTED` before
  it clears `CONNECTING` (`BitHeld`, `HandlerSet`); while the main task is inside `mqtt_connect` there is no client
  (`NoneInside`) and `CONNECTING` stands for the one to come (`InsideSet`). For `StrandedByMdns`: only a search
  (`AskedMdns`) gives up with a bit set, and `CONNECTED` is set only while there is a client.

## 6. What is only model-checked

Every invariant and every safety property of the passing runs, and both refinements, are theorems. Left to TLC are

* the liveness properties: `OverflowIsMetered` and `ReportsKeepComing` of the water meter, `CatchesUp` and `CoolsDown` of the light, `RequestsEnd` of the web server.
  Liveness under fairness, and `ENABLED`, are outside the reach of the prover;
* what a recursive function computes for every input, which takes an induction over data: the crc table of `RadioLibs`. No theorem depends on it;
* that the mutants violate their properties.

`ListenerAccepts`, `ComesOnline`, `ThermalOnlyLowers`, `OtherGroupUntouched` and `IntInRange` are false of the code.

## 7. Findings beside the five counterexamples

Seen while modelling and kept in the models as the code has them. For three of them the source says otherwise:

* `opt_set` does not free the string it replaces (`opt.c:189`), although `opt.h:34` says of a string set as a default that it should be freed. `OnlySetLeaks` says that nothing else leaks.
* The thermal sweep publishes the values of the first group under the comment "second RGB channel" and on its topic (`esp32/led-6ch/main.c:352-354`). `Answered` leaves that topic out of
  the sweep's promise.
* The table of `proxy/nrf24l01p-mqtt/main.c:10` says of `--help` "display this help and exit", but gives it the short name 0, and `opt.c:223` recognises the help option by `'h'`: `--help` shows nothing.
  That program is not modelled (see 8); the instance of `Options` gives the entry its short name.

For the others there is no statement in the source to hold against them:

* The battery period of the water meter is `SEND_DELAY_BATTERY` ticks after the first report, where the first one
  is `SEND_DELAY_BATTERY * TIMER_HZ`: half a minute, not ten.
* The controller's psu branch rebinds `type`, and later tests run on the power supply's code. `Authentic`
  holds because no code in use is also a packet type; the mutant `LithiumAsTh` shows how close that is.
* Edges between an overflow and the preload are lost: the meter's error is one-sided (`NoOverCount`), and small (`LossBounded`).
* A failed read of a t&h chip goes out as a reading. `Authentic` allows it: the sensor did report it.
* A cookie that is not a uuid gets no answer, and so is never replaced. Sessions are never dropped, and not freed when the program ends.
* When both tasks have a hand in the same topic, the one that composed its message first may publish it last: the broker then retains the older state until the next operation. `Answered` says that topics and channels only one of them has a hand in are safe.
* `opt_get_int` of a flag that was given reads a null pointer: `used` is 1 and there is no value (`opt.c:207`). So does a call after `opt_quit`.
* The `realloc` of a body is not checked (`httpd.c:250`): when it fails the body so far is lost and line 251 writes through a null pointer. `MemorySafe` promises an exact heap only as long as the process lives.
* The `strndup` of a substring is not checked (`httpd.c:285`): when it fails for the number of a button, `atoi` gets a null pointer (`web.c:30`).
* A registration whose second pattern does not compile leaks the first (`httpd.c:393`). It takes a lack of memory, and the program ends after it; `Httpd` treats an address with its patterns as one allocation.

## 8. What is not modelled, and why

* `proxy/nrf24l01p-mqtt`: `main.c` uses fields of the packet that `nrf.h` no longer has. It subscribes to no topic, so the callback that fills the queue of
  `mqtt.c` never runs, and `mqtt_update`, which would drain it, has no caller: there is no behaviour to model. Its option table is the instance of `Options`.
* `LL_INS`, `LL_POP` and `LL_RM` of `linkedlist.h` have no user.
* `button/dual-pic8` and `testing/nrf` are written for the older packet layout; the packet
  `button_send_state` sends is as well, so `Httpd` stops at the switch.
* `ping` is an empty loop; `jsmn` and `pyRC5` are vendored, and RC5 is any keyed permutation here.
* SPI traffic, pins, ADC, PWM timers and power saving: single steps, or left out. `t_active` of a session
  is written and never read. Formatting of numbers and logging: left out.
* The rates of the media: the bridge prefers the radio, and a radio that never falls silent would
  starve the LAN; the model takes either side at any time, which contains both.
* Two threads on one C variable are a data race. `LedLights` interleaves single accesses of aligned words and bytes,
  `Httpd` those of `LL_APP`: sequential consistency is what the models take the build to give. A compiler could do worse.
* A `PUT` with an empty body would compare a null pointer in `web_req_button`. `site.js` never sends one, and
  the requests of the model have a body.
* The temperature the light publishes: a mean nothing else depends on.
* Of the web server: the root directory's string, the file descriptor when a response for it cannot be created, and what libmicrohttpd and pcre allocate for themselves.
* `opt_help` prints and changes nothing. An option table with two entries of one short name, or with nameless ones, makes `opt_parse` overrun
  its array of long options when a choice of names is passed; no program here has such a table with a choice.

## 9. Plan

Done: all the modules of section 2 and the theorems of section 5. Left, in the order of importance:

1. What is retained on a topic both tasks of the light had a hand in: `Answered` gives up all topics of an operation then.
2. Theorems about what a duplicated or late packet can do to the order of what the controller publishes, which `Authentic` does not restrict.
3. The start-up and the signals of the bridge.

None of these adds a run.
