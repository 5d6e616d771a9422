# Verification of the mesh visualization system

TLA+ models of the firmware in `src/firmware/platformio` (ESP32-C3 boards in an
ESP-WiFi-Mesh, each running a small cellular automaton), checked with TLC, with
theorems proved by TLAPS. Line numbers below refer to
`src/firmware/platformio/src/` unless a path is given.

## 1. The system

Boards form an ESP-WiFi-Mesh. One is elected root, gets an IP address and
connects to an MQTT broker. A Node.js server collects what the root publishes,
serves it to browsers over WebSocket, and publishes operators' commands.

Every board computes a binary *value* once per `STATE_UPDATE_INTERVAL` from the
values of boards it hears nearby, a nine-entry *kernel* and a list of
*activation rules*. Kernel and rules can be changed by operators and have to
reach every board: each carries a sequence number, travels in the state frames
boards exchange, and a board adopts what is newer than its own.

### Tasks on a board

The ESP32-C3 has one core; there are no locks.

| task | priority | runs |
| --- | --- | --- |
| main loop (`app_main`) | 1 | watchdog, automaton step, reports, neighbor cleanup, UDP, TCP clients |
| `mesh_rx` (`mesh_receive_task`) | 5 | frames from other boards |
| MQTT client task | 5 | operators' commands, connection events |
| default event loop | 20 | mesh and IP events |
| Wi-Fi task | 23 | beacons (promiscuous callback) and ESP-NOW status frames |

A task of higher priority preempts the main loop between any two stores and never
the other way round; `mesh_rx` and the MQTT task, of equal priority, alternate.

### Components

| component | state | operations | talks to |
| --- | --- | --- | --- |
| State manager (`state_manager.cpp`) | `node_state`, `manual_value_hold_until_ms`, blob `"state"/"cfg"` in NVS | setters, `load_preset`, reset/toggle of the value, `adopt_neighbor_rules`, `update_state`, `init_state` | called by every task; reads the neighbor table; writes flash |
| Spreading (`mesh_node.cpp` 526-970) | cached root address | `broadcast_state`, `send_state_to_neighbors`, `mesh_receive_task`, `send_mesh_command_to_node` | other boards' `mesh_rx` |
| Command input (`mqtt_handler.cpp` 67-249, `main.cpp` 240-350) | none | `handle_mqtt_command`, `handle_tcp_client` | state manager, spreading |
| Local neighbor table (`mesh_node.cpp` 195-340, 637-677) | `neighbor_list`, `last_neighbor_cleanup` | `update_neighbor_list`, `local_status_recv_callback`, `cleanup_inactive_neighbors` | filled by the Wi-Fi task, emptied by the main loop, read by the automaton and the reports |
| Beacon parsing (`beacon_monitor.cpp`) | counters | `process_beacon_frame` | neighbor table |
| Automaton (`state_manager.cpp` 26-121, 383-455) | the inputs of one step | `load_preset_data`, `apply_activation_function` | reads the neighbor table and the kernel |
| Watchdog and mesh events (`main.cpp` 79-186, 432-512; `init_mesh`) | `mesh_initialized`, four time stamps, cached root | `check_mesh_health`, `mesh_event_handler`, `ip_event_handler` | mesh stack, MQTT client |
| MQTT client (`mqtt_handler.cpp` 251-563) | `mqtt_client`, `mqtt_connected` | `init_mqtt`, `mqtt_disconnect`, event handler | broker, through esp-mqtt |
| Reports (`mqtt_handler.cpp` 351-563) | text buffers | `mqtt_publish_node_state_with_neighbors`, `mqtt_publish_topology` | server, over the broker |
| esp-mqtt (`managed_components/espressif__mqtt`) | connection state, outbox, buffers | `esp_mqtt_task`, publish, enqueue, subscribe, start, stop | the application's event handler, broker |
| UDP frames (`mesh_node.cpp` 433-509, `main.cpp` 352-380) | none | `prepare_udp_message`, `forward_to_visualization` | server |
| Visualization server (`src/visualization/app/server.js`) | `nodes` map, MQTT client, WebSocket clients | message handlers, stale cleanup, reconnection, command API | broker, browsers |
| Browser views (`public/script.js` of `app` and `app2`) | `nodes`, links, pause, slider | WebSocket messages, `updateSimulation`, `togglePause`, `onMinRssiChange` | server |
| Monitor, scripts | | | not modelled |

### What is hard, and what makes each component correct

* **Spreading.** No acknowledgement and no retry: frames get lost, wait in the
  mesh and overtake each other; a child sends to a root address it has cached,
  which may no longer be the root's; two roots may coexist; boards reboot with
  what flash holds. Correct means: no board goes back to an older configuration
  or swaps contents under one number; one number means one configuration
  everywhere; the commander's next command is newer than anything about; flash gets
  ahead of RAM by no save that fails; on a mesh that delivers, every command arrives.
* **Value and hold.** A toggled value is held against the automaton for
  `COMMAND_VALUE_HOLD_MS`, while commands, frames and reboots change it too, and
  `value_sequence` counts toggles and resets in one number. The main loop
  checks the hold, clears it and stores the automaton's value without a lock, and
  the tasks that toggle preempt it. Correct means that a toggle loses its value or
  its hold to at most the pass it falls into, and to no later one; what the
  documents promise beyond that the code does not keep (section 6).
* **Neighbor table.** A table of `MAX_NEIGHBORS` slots, filled from the Wi-Fi task
  while the main loop removes silent boards in three unsynchronised stores, with a
  32-bit millisecond clock. Correct means: no board in two slots, no slot whose
  valid state belongs to another board, no silent board left behind, and no
  board removed that was just heard (which fails, section 6).
* **Watchdog.** Time stamps are written by the event task and subtracted by the main
  loop, which read its clock earlier; a stop is reported after the call that caused
  it; calls fail. Correct means: a detached board keeps trying, one that was
  attached a moment ago is left alone, a running stack is known to run, a board
  without a parent has no root address, and every requested report is sent, the
  topology at the latest with the next heartbeat. A stack that cannot be stopped
  ends all of this (section 6).
* **MQTT client.** One task destroys it while another asks whether it exists;
  inside the library a publisher preempts the client task, answers race timers
  and links die without an error. Correct means: a root with an address ends up
  with a client, nothing accepted with QoS 1 or 2 leaves the outbox before the broker
  has passed it on (or has lost it with the session), nothing of QoS 2 comes twice, the flag `mqtt_connected` is not left set, subscriptions come back.
* **Formats.** Reports are cut off where a buffer ends, packets are written in
  one place and read in another, beacons and status frames name one board by two
  addresses, the presets encode rules as numbers.
* **Server and pages.** Freshness comes from messages that mention a node rather
  than come from it; records are rebuilt from parts by messages in any order;
  pages mirror them over connections that break, and d3 fails on links to nodes
  that are not there yet, which the slider for weak links may bring in as well.
* **Tasks inside one handler.** `node_state` is read and written field by field
  by three tasks (section 7).

`PROJECT.json` lists each hazard at its line with the properties that cover it,
and says of the others why none does yet.

## 2. Modules

| module | contents |
| --- | --- |
| `StateSync` | configuration and value of every board, flash, commands, frames: the core |
| `VersionGossip` | abstract specification: how one numbered part spreads |
| `MCStateSync` | the commands operators send in each run |
| `StateSync_proofs` | theorems about `StateSync` |
| `NeighborTable`, `MCNeighborTable`, `NeighborTable_proofs` | the table of one board and its clock; signal strengths, view and symmetry; theorems, those about `BeaconFilter` included |
| `MeshBridge`, `MeshBridge_proofs` | one board between mesh and broker: main loop, watchdog, events, the life of the MQTT client; theorems |
| `MqttOutbox` | the operators of `mqtt_outbox.c` on a sequence of items |
| `MqttClient`, `MCMqttClient`, `MqttClient_proofs` | esp-mqtt's task, publishers, link and broker, with the firmware's event handler; the messages of the run; theorems |
| `MqttDelivery` | abstract specification: what a publisher is promised |
| `MqttMsg` | layout and reading of MQTT packets, with theorems |
| `Reports` | lengths of the two reports in their buffers, layout and reading of the UDP frames, with theorems |
| `VizServer`, `MCVizServer`, `VizServer_proofs` | the server's node map and the pages that mirror it; the signals of the run; theorems |
| `BeaconFilter` | which beacons enter the neighbor table and under which address |
| `Automaton` | one step of the automaton under the presets, with theorems |

`MqttClient` refines `MqttDelivery`, `StateSync` refines `VersionGossip` twice.
`MeshBridge` and `MqttClient` meet in three facts: a handle exists or not
(`Recreate` and `Stop` of `MqttClient` are what `init_mqtt` and `mqtt_disconnect`
do to it), `mqtt_connected` is set by the library's events only, and the event
handler subscribes anew on every connection. `MeshBridge` takes the flag as set
and cleared at any time; `FlagSound` says when it is in truth.

### StateSync

| variable | in the code |
| --- | --- |
| `config[n]` | `node_state.kernel`, `.activations`, `.activation_count` with `kernel_sequence`, `activation_sequence` |
| `value[n]`, `value_sequence[n]` | the fields of the same name |
| `hold[n]` | `now < manual_value_hold_until_ms` |
| `nvs[n]` | the blob under `"state"/"cfg"`, or `NoConfig` |
| `roots` | boards for which `esp_mesh_is_root()` is true |
| `frames`, `toggles` | `mesh_message_t` and `mesh_command_t` on their way |
| `pass[n]` | where the main loop is in `update_state`: before the clearing of the hold, before the store, or not in it |
| `late` | history: boards toggled since their pass checked the hold |

| action | handler |
| --- | --- |
| `MqttConfig` | `handle_mqtt_command`: preset, kernel, activations, value, reset, then `broadcast_state` |
| `TcpCommand` | `handle_tcp_client`: one setting, nothing sent |
| `ToggleSelf`, `RouteToggle` | `send_mesh_command_to_node`, for this board and for another |
| `ReceiveToggle`, `ReceiveFrame` | `mesh_receive_task` |
| `PeriodicSend` | the main loop's `send_state_to_neighbors` |
| `BeginUpdate`, `ClearHold`, `StoreValue` | a pass of `update_state`: the check of the hold (490), its clearing (495), the store of the value (454) |
| `HoldElapses` | time |
| `Restart` | power cycle: `init_nvs_storage`, `init_state` with `load_state_config` and `save_state_config`, each of which may fail by itself |
| `ChangeRole` | election (external) |

Choices a reader should know:

* One action is one run of a handler, except a pass of `update_state`: the main loop
  has the lowest priority, and the handlers of the other tasks run between its steps.
  `Updating` are the boards whose automaton runs. A crash in the middle of one is a handler
  whose sends were lost, followed by `Restart`; with `FlashFaulty` flash may hold
  any blob the handler wrote, or the one before. A boot may then find flash erased,
  or fail to read a blob that stays; it saves what it booted with, and that may fail.
* Kernels, rule lists and presets are opaque. The automaton's sum and the rules
  are a choice of either value, so nothing proved depends on the arithmetic.
  Sequence numbers are naturals: 2^32 commands are out of reach.
* `frames` is a set: a frame is received in any order, or never. With
  `MeshFaulty` any subset of a handler's sends may fail, roles change and boards
  reboot at any time; a child's cached root may be any board that can be root.
  Identical frames in flight are one element, which loses no behaviour:
  receiving the second of two identical frames changes nothing.
* `parse_number_field("value")` searches the whole text, so a command that carries
  rules as objects also sets the value from a threshold; rules written as pairs
  do not have the name. `FoundValues` is the set of what may be found.
* The client of a former root stays connected, so `Commanded` does not depend on
  `roots`; what a command does (broadcast or send up) does.
* The four-level `.state`, the LED, highlight and the sensors are left out: no
  property reads them and they feed back only through the automaton's choice.

### NeighborTable

`slots` is `neighbor_list`; `owner` is a history of the code's `state` field, the
board whose status is stored there. A Wi-Fi callback (`Beacon`, `LocalStatus`) is
one action, because the main loop cannot run inside it. The cleanup is one action
per store (`StartCleanup`, `CheckSlot`, `DropActive`, `DropState`, `DropRssi`), so
that a callback can come between any two; `index` and `sampled` are its loop
counter and its `now`. `last_neighbor_cleanup`, set from a clock read a few
instructions earlier in the same pass, is identified with `sampled`. The clock is
taken modulo `ClockMod` (in the code 2^32), and `Since` is unsigned subtraction.
`Tick` assumes that the main loop is not kept away for as long as the clock takes
to come round (49.7 days), neither for a board in the table nor since the last
cleanup began, and that one cleanup takes no longer than `MaxCleanup`.
The active Wi-Fi scan is compiled out (`ENABLE_WIFI_NEIGHBOR_SCAN 0`).

### VersionGossip

Boards hold numbered versions. `Issue` creates one numbered above all there are,
`Adopt` moves a board to a version with a higher number that is about, `Forget`
drops copies. `StateSync` implements it twice, once for kernels and once for rule
lists, with `held` the part each board runs and `pool` the parts that are run or
carried by a frame. A preset issues in both instances in one step.

### MeshBridge

One board. `stack`, `attached`, `root`, `ip` are what the ESP stack answers to
`esp_mesh_init`/`start`, `esp_mesh_get_layer() > 0`, `esp_mesh_is_root()` and
`has_ip_address()`; the other variables have their names from the code. `pc` and
`lag` are where the main loop is and how old its `now` is. Ages replace absolute
times: `Due` subtracts as the code does, so that a time stored after the clock was
read looks very old. `gone`, `owed` (which messages a request is owed), `served` and
`unstopped` (a call of `esp_mesh_stop` on a running stack has failed) are history.

| actions | code |
| --- | --- |
| `ParentConnected` ... `OtherMeshEvent`, `MeshStopped` | `mesh_event_handler`, one per event that differs |
| `GotIp`, `LostIp`, `MqttConnected`, `MqttDisconnected` | `ip_event_handler`, the client's events |
| `NoCheck`, `RetryInit`, `ReadLayer`, `CheckRoot`, `ClientDestroyed`, `ClientCleared`, `Reconnect`, `NoRestart`, `Restart`, `Restarted` | `check_mesh_health`, a step wherever an event makes a difference |
| `Decide`, `Report`, `NoTcpClient`, `TcpAccept`, `TcpClose` | the rest of a pass of `app_main` |
| `Tick` | the clock |

* A change of the mesh and the run of its handler are one action: the event task
  (priority 20) runs before any other task of the board can look.
* `MESH_EVENT_STOPPED` is the exception. It is posted by a call of the main loop
  itself, so it is a pending event that any step but `Restarted` may precede; that
  it is handled within the 500 ms the code waits is assumed there.
* `init_mesh` and `init_mqtt` may fail and are one step each. So may `esp_mesh_stop`,
  whose error is logged and ignored: `StopMesh` then leaves the stack running, and
  marked as not initialised.
* Where `init_mesh` meets an error inside `ESP_ERROR_CHECK` the board reboots. That is
  another behaviour, from `Init` on.
* A report is one of the state, and of the topology unless a change alone was due when
  `Decide` looked (`main.cpp` 628).

### MqttClient

The library (`mqtt_client.c`) with the firmware's event handler. The task holds
`api_lock` for a pass of its loop and releases it while it polls, so a function
called by another task is one action that needs the lock free; an event handler
runs in the task, under the lock. Timers are not counted: what may be due is due
or is not, which is more than any setting of the timers allows. `link` may be up,
broken (writes fail) or dead (writes succeed and go nowhere). The broker replies as
MQTT 3.1.1 asks and starts a new session on every connection; `Onward` says
on which packet it passes a message of QoS 2 on: at PUBREL, as Mosquitto
(`src/fix_mqtt_and_start.sh`) and aedes (`start_mqtt_broker.sh`) do, or at PUBLISH.
What it has received and not passed on is `Held`; a new session forgets that
(`NewSession`), which the history `lost` notes. A PUBREL that cannot be written is no
reason for the code to give the connection up (`AnswerWithPubrel`). `MqttOutbox` keeps the outbox's
own flaws: items are found by identifier alone, `outbox_dequeue` does not remove.
`Reuse` says whether `append_message_id` may draw an identifier that is in use, which
nothing in the code prevents and 65535 identifiers make rare: with it neither
`AtMostOnce` nor `KeptUntilDelivered` holds (a second message takes the answers of the
first), so the run and those two theorems are for `Reuse = FALSE`.
The firmware itself publishes with QoS 0 and subscribes to two topics with QoS 0;
QoS 1 and 2 are checked because the library's outbox exists for them.

### VizServer

`nodes` is the server's object of that name and `receivedAt` the age of each
record's field; `silent` is history. A JavaScript object is a function on the fields
it has, so that a missing field and an empty one differ; `Assign` is the merge
(`Object.assign`, spread). Of the fields those are kept that reports treat differently. A
page has `view`, its own map, and `toPage`, what is under way to it. `Neighbor` are the entries of
neighbor lists, a board and a signal strength. `updateSimulation` makes links of those
that are at least `minRssi` strong (`Links`) and hands them to d3, which throws on the
first whose node it does not know, and looks up the links it was given before first
(`Draws`, `LeftOf`). A message, a resumed page, the slider (`OnMinRssiChange`) and whatever else
draws (`OnWindowResize`) come to it. `After` is what a page holds when it has read
what is under way to it. `fresh` are the pages of `app2`, which
replace their map on `full_state` instead of merging. UDP frames change nothing
(`Reports`), so they are not an action.

### The theorem-only modules

`MqttMsg`, `Reports`, `BeaconFilter` and `Automaton` are pure algorithms
without state, stated for every input the code can meet; TLC has nothing to enumerate
there. Text is its length (`Reports`; a UDP frame its fields and their offsets), a packet its bytes up to the payload (`MqttMsg`),
floats are halves, exact for the presets (`Automaton`).

## 3. Runs

| run | instance | checked | shows |
| --- | --- | --- | --- |
| `config` | 3 boards, 2 that can be root, 1 commanded by MQTT and TCP; 2 kernels, a preset, rules; every command, every mesh fault | `WriteThrough`, `Agreement`, `CommanderLeads`, `ImplementsKernelGossip`, `ImplementsActivationGossip` | one number names one configuration whatever is lost, late, rebooted or elected; the refinement of `VersionGossip` |
| `flash` | 2 boards, both commanded; loads and saves fail too | `NvsBehindRam`, `OnlyForward` | failed saves and erased flash only ever lead back to an own older configuration; only a boot that can neither read nor replace the blob leaves flash ahead of RAM |
| `value` | 2 boards, both commanded, one with its automaton; toggles, resets, value overrides | `TypeOK`, `HeldAgainstAutomaton` | a toggle loses its value or its hold to no pass of `update_state` but the one it falls into |
| `deliver` | 1 root, 2 children, no mesh fault, fair `mesh_rx` | `Propagates` | every command reaches every board, children rebooting meanwhile |
| `neighbors` | 3 boards, 2 slots | `TypeOK`, `NoDuplicates`, `StateIsOwn`, `NoSilentNeighbor` | the table under a preempted cleanup and a clock that comes round |
| `bridge` | 1 board, a call that fails, a TCP client | `TypeOK`, `ForgetsRoot`, `KnownToRun`, `RestartGrace`, `WatchdogActs`, `ClientComesBack`, `ClientPauses`, `RequestsServed`, `TopologyServed` | when the stack is restarted, that the watchdog gives up in one case only, when the client exists, that no request of a report is lost, and when the topology it is owed comes |
| `client` | a message of QoS 0, 1 or 2, a topic, a lost link, a stop, an expiry | `TypeOK`, `AtMostOnce`, `FlagSound`, `KeptUntilDelivered`, `OutboxDrains`, `DeadLinkNoticed`, `Resubscribes` | nothing accepted leaves the outbox before it is passed on or lost with its session, QoS 2 comes once, the outbox drains, a dead link is noticed, the topics are subscribed to again |
| `server` | 2 nodes that may each be root, one heard weakly, 1 page of either kind | `TypeOK`, `Mirrors`, `PlaceholderUnheard`, `DrawnWhenLinked`, `KeepsConfig`, `MentionedStays`, `StaleRemoved` | pages mirror the map, configurations survive topology reports, exactly the nodes not mentioned go |
| `toggle_held`, `config_value`, `reset_adoptable`, `fresh_neighbor` | as small as shows it | one each, violated | section 6 |

Bounds, and why they are enough:

* `Node`: adoption is between two boards; a third gives a bystander whose late
  frame, or whose role, interferes. Two root-capable boards give a split mesh and a
  stale root address.
* `Kernel = {k1, k2}`, `MaxKernelSeq = 2`, `MaxActivationSeq = 1`: two contents
  and two commands are what it takes for one number to name two configurations and
  for an older frame to arrive after a newer command.
* `MaxFrames = 2` (4 in `deliver`, which must not block a broadcast to two
  children after two commands; 1 in `flash`): two frames can overtake.
  A bounded action is disabled, not truncated.
* `MaxValueSeq = 3` in the runs about values; it is 0 in those about
  configurations, where the value plays no role.
* `Updating` is one board in `value`: a pass is the board's own affair, and the other
  toggles and resets it. It is empty in the other runs, where no property is about the
  automaton. The view of `config` and `flash` leaves the value out, which there no
  property reads and no guard or other variable depends on.
* Two slots and three boards make the table full, make a board wait outside and
  let a slot be taken over while it is being freed. Three strengths: below the
  threshold, at it, above. `NeighborTimeout = 2`, `ClockMod = 6`: entries can be
  fresh, at the limit and expired, and the clock wraps between any two of these.
* Symmetry is used in `neighbors` only, over boards no constant tells apart, and with
  safety properties.
* The view of `neighbors` keeps ages instead of times, since the code only
  subtracts, and of a slot what is ever read: an inactive slot's address, rssi and
  time are not. No action or property distinguishes two states it identifies.

* `bridge`: with intervals of 1, 1, 2 and 3 ticks for check, reconnection, heartbeat and
  restart, a check may find a reconnection due or not, and several before a restart,
  and reports come for a change, a request, the heartbeat or several of these. A pass
  may take a tick, so that a clock is read before an event and used after it. One
  failing call lets each of `init_mesh`, `init_mqtt` and `esp_mesh_stop` fail where it matters; TCP clients hold up the loop for
  any time. Ages stop growing where no comparison can tell them apart (`Cap`).
* `client`: one message of either quality of service and a subscription share the
  outbox, which is what it takes for one item to be resent before another. A lost
  link, a stop, an expiry and two packets under way give every order of an answer,
  a retransmission and a failure; a second failure only repeats the recovery from a
  state the first already reaches. Eight identifiers are never exhausted.
* `server`: two nodes are a root and a node it names, in both orders, and either may
  be heard, named or silent. `MaxQueued = 0` means that a report comes only to pages
  that have read the last one, which itself may be two updates; one disconnection,
  reload, pause or move of the slider, of a page of either kind. The weak entry is shown
  by `app2` from the start and by `app` once the slider is down. The map and the page's copy have the
  size of `SUBSET` of the nodes squared, so more is out of reach within minutes.

## 4. Fairness

| run | fair | why |
| --- | --- | --- |
| `deliver` | `ReceiveFrame` (weak) | `mesh_receive_task` does nothing but loop on `esp_mesh_recv` at a priority above the main loop; that a frame is delivered is the assumption of that run |
| `bridge` | `MainLoop`, `Tick`, `MeshStopped` (weak) | the other tasks wait for events most of the time; a posted event is handled by the task of highest priority; `TcpClose` is part of the loop: TCP clients close some time, or the loop stands still |
| `client` | `TaskStep`, `BrokerReceives` (weak) | the task loops for ever, TCP delivers while a link is up |
| | `ResendTransmitted`, `ResendPubrel`, `Ping`, `PingOverdue` without a link (strong) | what a timer makes due is looked at on every pass, and time goes on between passes: it cannot be too early every time |
| `server` | `Cleanup`, `Tick` (weak) | `setInterval` |

Nothing is assumed fair about commands, reboots, elections, mesh and broker events,
failures, publishers, pages or reports. `WF_vars(TaskStep)` lets a connection attempt
fail only as often as `MaxFailures` allows: that a server which can be reached is
reached is an assumption of `client`. TCP commands are excluded from `deliver` because the
code sends nothing after one, and a root never reports to its children by itself
(hazard at `mesh_node.cpp` 881).

## 5. Proofs

For every set of boards, commands, contents and every value of the bounds, from
the named assumptions on the constants and nothing else:

| theorem | states |
| --- | --- |
| `StateSync_proofs!TypeCorrect` | `[]TypeOK` |
| `NvsIsBehindRam` | `NvsBehindRam`, with any flash and mesh fault |
| `FlashIsWrittenThrough` | `[]WriteThrough` |
| `ConfigOnlyForward` | `OnlyForward` |
| `NodesAgree` | `[]Agreement` |
| `NobodyOvertakesCommander` | `[]CommanderLeads` |
| `KernelsGossip`, `ActivationsGossip` | `StateSync` implements `VersionGossip`, for kernels and for rule lists |
| `HeldValuesStay` | `HeldAgainstAutomaton` |
| `NeighborTable_proofs!TypeCorrect` | `[]TypeOK` |
| `BoardsAreDistinct` | `[]NoDuplicates` |
| `StatesAreOwn` | `[]StateIsOwn` |
| `NoSilenceIsLeft` | `[]NoSilentNeighbor` |
| `MeshBridge_proofs!TypeCorrect` | `[]TypeOK` |
| `RootIsForgotten` | `[]ForgetsRoot` |
| `MeshKnownToRun` | `[]KnownToRun` |
| `FailedStopIsForGood` | after a failed `esp_mesh_stop` the stack runs on marked as not initialised and is never restarted again (section 6) |
| `GraceIsKept` | `RestartGrace` |
| `MqttClient_proofs!TypeCorrect` | `[]TypeOK`, for any `Reuse` and `Onward` |
| `FlagIsSound` | `[]FlagSound`, likewise |
| `DeliveredOnce` | `[]AtMostOnce`, without `Reuse`, for any `Onward` |
| `KeptForDelivery` | `MqttClient` implements `MqttDelivery`, without `Reuse`, for any `Onward` |
| `VizServer_proofs!TypeCorrect` | `[]TypeOK` |
| `PagesMirror` | `[]Mirrors` |
| `PlaceholdersAreUnheard` | `[]PlaceholderUnheard` |
| `ConfigStays` | `KeepsConfig` |
| `TheMentionedStay` | `MentionedStays` |
| `PagesDraw` | `[]DrawnWhenLinked` |
| `MqttMsg!LengthRoundTrip` | the length written is the length read, for every packet MQTT allows |
| `HeadersAreValid` | every first byte written, duplicates included, passes the receiver's check |
| `WritesCarryPacket` | the writes of a fragmented publish make up the packet; one that fits is one write, and nothing follows exactly if the offset left before does not exceed its headers |
| `StaleOffset` | when an offset left by a publish that was never written does (section 6) |
| `DeliveredWhole`, `DeliveredInParts` | a received publish is handed on in one event if it fits the buffer, else in parts that make up the payload |
| `AcceptedAndUnread` | exactly which publishes pass the check although their topic cannot be read: those of QoS 0 whose topic is one or two bytes too long |
| `Reports!ReportsFit`, `RoutesFit`, `SevenNeighborsFit` | which reports and lists fit their buffers |
| `StateListsFit` | of a state report the neighbors always do, kernel and rules exactly if their numbers are short enough, which large floats are not (section 6) |
| `EightNeighborsAreCutOff` | a topology report of eight neighbors is not JSON |
| `Reports!FramesAreDropped`, `NoFrameIsAccepted` | the server takes no UDP frame (section 6) |
| `StrongestFirst` | the neighbors in a frame are ordered and distinct |
| `NeighborTable_proofs!BoardsKeptApart`, `BoardIsHeard`, `FewAreRefused` | one board has one address in the table, two have two |
| `Automaton!ConwayIsLife`, `NeighborsVote`, `Rule30IsRule126` | what the presets compute, for every neighbor table |

Argument for `StateSync`. `CommandEffect` and `AdoptedType` say what a command and
an adoption do to one board: each part stays or is replaced by one with a higher
number. `StepMovesForward` lifts this to every step but a reboot, `RestartLoads`
describes the reboot; the theorems on flash and `ConfigOnlyForward` follow.
`NvsBehindRam` is about steps because of the one boot that can neither read nor
replace the blob: it may leave flash ahead, and any step that writes there ends that
(`ForwardKeepsBehind`).

`Agreement` is not inductive: two boards that agree now could be about to adopt two
different late frames, and a command could pick a number some frame already
carries. The invariant is `LedByCommander`: the commanding board has the highest number
of all copies about (boards and frames), and from number 1 (kernels) or 0 (rules)
upwards a number determines the content. It is inductive by `StepOrigin` (every
version after a step was about before it or is the commander's new one) and
`LedStep` (a lead that stays, or is outnumbered only by its own next version, goes
on leading). Kernels numbered 0 are excluded because each board boots with a
random one.

The refinement of `VersionGossip` rests on the same lead. `StepKinds` says that a step
leaves the configurations alone and adds no copy, or one board adopts what a frame
carries, or the commander takes a command; a copy that a reboot or a lost frame takes
away is a `Forget`, an adoption an `Adopt`, a command an `Issue`, whose number is
above all there are because the commander leads. `HeldAgainstAutomaton` needs an
invariant of its own, `PassUnheld`: a pass under way works on a value that is not held
unless a toggle has fallen into it. `HeldSteps` then goes through the steps that change
a value or a hold.

`Agreement`, `CommanderLeads` and the refinement assume `OneCommander`: one board takes
all commands and flash works. With two commanding boards, or one that lost its flash and counts
from 0 again, numbers are reused and the claim is false; no document claims it.

Argument for `NeighborTable`. `Heard` changes a slot in one of three ways
(`HeardEffect`), at most one slot is chosen for a new board (`RoomIsOneSlot`), and
the stores of the cleanup only clear flags. `NoDuplicates` and `StateIsOwn` are then
inductive together with `TypeOK`. `NoSilentNeighbor` speaks of the table between two
cleanups; during one, `SilentInv` holds: what is in a slot was heard in time or the
cleanup has yet to look at the slot. A tick keeps it because ages count up by one as
long as the clock does not come round to them (`SinceTick`).

Argument for `MeshBridge`. `ForgetsRoot` is inductive as it stands: every way to lose the
parent clears the address, and `RootAddress` needs one. `KnownToRun` is not: it
needs that a stop is pending only while the loop waits to start the stack again
(`StopIsHandled`), which is where the 500 ms delay is used, and that a stack that could
not be stopped is never marked as initialised (`GivenUp`): `init_mesh` fails on it.
`FailedStopIsForGood` rests on `GivenUp` as well. `RestartGrace` relates two clocks:
how long the board has been detached, and how old `last_mesh_attached_ms` is. `GraceInv`
says that while the board was attached the time was noted at the last check or later
(`AttachedRuns`, `NotedSinceCheck`, `NotedWhileAttached`) and that what was noted
before the loss is at most an interval and two passes older than it
(`NotedBeforeLoss`); `RestartIsDue` concludes from the guard of `Restart`. The two
exceptions are where the argument breaks in the code: a TCP client that stops the
checks, and an attachment after the clock was read, whose unsigned difference wraps.

Argument for `MqttClient`. Its steps are of seven kinds (`StepKinds`): nothing new
(`Quiet`), a new session (`Renewal`), an item enters the outbox (`Entry`), is transmitted
(`Transmission`), a message is released (`Release`), one of QoS 0 passes the outbox by
(`Shot`), the broker receives. The invariants are kept kind by kind:

* `Identified`: in the outbox, on the wire and in the broker's session one identifier
  stands for one message and one message has one identifier. This is where `~Reuse`
  enters, and nowhere else.
* `OnceOfZero`: a message of QoS 0 is at one place only. `AtMostOnce` alone is not
  inductive, since nothing in it keeps such a message from being in the outbox
  and on the wire.
* `OnceOfTwo`: a message of QoS 2 that was delivered is still held by the session, or was
  released, and then no PUBLISH of it is left anywhere to come after its PUBREL (`Gone`,
  `Orderly`), although the task sends PUBLISH and PUBREL again on the same connection.
* `Acknowledged`: what a PUBREC, a PUBREL or an acknowledged item names is at the
  broker, held, passed on or lost, and what a PUBACK or PUBCOMP names was passed on or
  lost. With it an answer that takes a message off the outbox is a `Settle` of
  `MqttDelivery` (`SettledIds`).

The refinement is then a lemma per handler that touches the outbox (`ReceiveMaps`,
`ResendQueuedMaps`, `EntryMaps`, `LockMaps`, `ExitMaps`, `BrokerReceivesMaps`); every other
step stutters. `FlagSound` is inductive with the places of the task where the connection
may already be gone (`Flagged`).

Argument for `VizServer`. `Updated` says what a report does to the map, whatever its kind.
What a page will hold once it has read its queue is `After`; that it is what the page would
hold had it read each message when it was sent (`AfterConcat`, `BatchReflects`) makes
`Mirrors` inductive together with `Types`. `MentionedStays` needs that the age in
`receivedAt` is the time since the node was mentioned (`Ages`).

Recursive definitions: `After`, `outbox_delete_expired` and the first item of an outbox are
not induction over data in the library's sense, whose theorems take an operator. Where
a fact about them is needed, `SetInduction` proves it of the set of all indices up to
a bound, from the least element of what is missing (`LeastOf`).

The theorem-only modules have no temporal part; the lengths of packets are split by the
number of their length bytes, the addresses by the byte where the borrow stops, the
automaton's sums by the number of live neighbors.

Only model-checked: the liveness properties (`Propagates`, `WatchdogActs`,
`ClientComesBack`, `ClientPauses`, `RequestsServed`, `TopologyServed`, `OutboxDrains`, `DeadLinkNoticed`,
`Resubscribes`, `StaleRemoved`), which need fairness and `ENABLED`. Every safety property
that a passing run checks is also a theorem.

## 6. What the code does not do

| run | says | the code |
| --- | --- | --- |
| `toggle_held` | `docs/api.md:115`: a toggled value "is held for `COMMAND_VALUE_HOLD_MS`" | `adopt_neighbor_rules` draws a random value for any frame with a higher `value_sequence`, held or not; toggling two boards is enough |
| `config_value` | `docs/architecture.md:72` lists the value override as a field of its own | rules written as objects override the value as well (`mqtt_handler.cpp` 232) |
| `reset_adoptable` | `docs/api.md:263`: "child nodes can adopt the new sequence" | the root numbers a reset from its own counter, which a toggled child has passed |
| `fresh_neighbor` | `mesh_node.cpp:320`: the cleanup removes neighbors "that haven't been seen for NEIGHBOR_TIMEOUT_MS" | a beacon taken after the cleanup read its clock makes the unsigned difference wrap, and the freshest board is removed |

By theorem, without a run:

| theorem | says | the code |
| --- | --- | --- |
| `Reports!FramesAreDropped` | `docs/api.md:148`: the server "still accepts a compact binary UDP message"; `include/mesh_node.h:23`: "77 bytes total"; `docs/architecture.md:54`: the root forwards child state to the UDP path | the packed structure has 81 bytes, a forwarded mesh message 1440, and `server.js:757` returns on everything but 77 |
| `Reports!EightNeighborsAreCutOff` | `docs/architecture.md:94`: `MAX_NEIGHBORS` (8) is the neighborhood size of topology samples | eight entries do not fit the 512 bytes of `mqtt_handler.cpp:496`; the server cannot parse the report |
| `MeshBridge_proofs!FailedStopIsForGood` | `docs/architecture.md:83`: a board that stays detached after the grace period "stops and restarts the mesh stack, then resumes normal join attempts" | if `esp_mesh_stop` fails, `mesh_initialized` stays false with the stack running; every later check calls `init_mesh`, which fails on it, and returns (`main.cpp` 438-442) |
| `Reports!StateListsFit` | `docs/api.md:17`: `mesh/state` is JSON | a kernel of five weights near the largest float, or three such thresholds in eight rules, is cut off; no handler bounds them |
| `Automaton!Rule30IsRule126` | a preset named `rule30` | a function of the sum of three neighbors, which rule 30 is not |

Conditions under which a property holds, and what is outside them:

* `BoardIsHeard` needs a station address whose last byte is not 255: the driver adds one
  to that byte without carry, the firmware subtracts with borrow.
* `majority` is five of eight inputs, however many neighbors there are; a presence
  overwrites the first neighbor's input (`state_manager.cpp` 425).
* A former root keeps its MQTT client (`main.cpp` 448 stops it only for a root without an
  address), against `docs/architecture.md:162`; `MeshBridge` and `StateSync` both allow it.
* A report for a changed state renews the heartbeat's time without a topology
  (`main.cpp` 614), so that frequent changes put the topology of
  `docs/architecture.md:43` off, that of a mesh event as well if its request comes between
  615 and 620 with only a change due. `RequestsServed` claims the state only;
  `TopologyServed` claims the topology unless changes go on for ever.
* A toggle that falls between the check of the hold and the store of the automaton's
  value is overwritten at once, or loses its hold (`state_manager.cpp` 490, 495, 454).
  `HeldAgainstAutomaton` excepts that pass.
* `KnownToRun`, `WatchdogActs`, `ClientComesBack` and `ClientPauses` hold as long as
  `esp_mesh_stop` does not fail on a running stack.
* `NvsBehindRam` excepts a boot that reads nothing although there is a blob and cannot
  save: the board then runs on a random kernel numbered 0 beside a newer blob, which a
  later boot may find again.
* `KeptUntilDelivered` excepts what the broker loses itself. The link breaks between
  PUBREC and PUBREL, the next session, a clean one, knows nothing of the message, and
  its answer to the resent PUBREL takes the message off the outbox undelivered. With a
  broker that passes messages on at PUBLISH nothing is ever held and nothing lost.
* `StaleOffset`: a publish longer than the buffer that fails before it is written leaves
  `fragmented_msg_data_offset` behind (`mqtt_client.c` 2154, 2267), and a later, shorter one is
  followed by bytes that are not its own. The firmware never gets there: `ReportsFit`.
* A page whose link names a node it never gets stays undrawn until that node comes
  or the page is loaded again; `DrawnWhenLinked` excepts it.

## 7. Not modelled

* **Interleavings inside one handler.** `StateSync` takes a handler as one step, but for the
  pass through `update_state`. A frame
  torn by a preemption carries, with one commanding root, a number the commander
  already has, and is ignored by it; a former root that kept its client is the
  exception, and no document says what holds then. That `init_mqtt` checks the
  handle and assigns it later, and that `mesh_rx` may publish with a handle just freed,
  are of the same kind: without a lock, a model of them would restate the code. All are
  hazards in `PROJECT.json`.
* **esp-mqtt:** unsubscribe, disconnection and reconnection asked for by the user,
  `refresh_connection` and the transports; MQTT 5 is compiled out
  (`CONFIG_MQTT_PROTOCOL_5` is not set). A header that arrives byte by byte is a hazard.
* **Server:** the HTTP API, command publishing, and its own connection to the broker,
  where every close schedules another client (hazard at `server.js:414`).
* **Mesh stack:** elections, routing and the DHCP client are external; the repair of a root's
  DHCP client is part of `LostIp` and `GotIp`.
* LED, sensors, TX power (`adjust_tx_power` is called nowhere), opening of sockets, drawing
  and forms are hardware access, plain input and output, or rendering. The monitor
  and shell scripts keep no state of the system.

## 8. Checking

    tlc -workers 2 -config config.cfg MCStateSync.tla
    tlapm StateSync_proofs.tla

Each `.cfg` starts with a line that says what it instantiates; `PROJECT.json` lists
runs, theorems, the lines every definition translates, and for each property a
mutant of the code's model that breaks it (the operators commented "Mutant").

## 9. Plan

Done: all modules of section 2. Left, in order of importance:

1. A model of `node_state` field by field, with `StateSync`'s handlers as its abstract
   specification, once it is settled which of its races the system means to exclude.
2. The server's connection to the broker and its command API.
3. Proofs: the safety that the liveness properties rest on, as invariants of their own
   (a report that is owed is requested or about to be sent, in `MeshBridge`; a node
   past the timeout outlives at most one cleanup, in `VizServer`).
