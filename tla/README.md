# A TLA+ verification of the powersuit

The powersuit is a powered exoskeleton with nine nodes. Limb, flight and helmet
nodes (1 to 6) are ESP32s on two CAN buses. The chest hub (7) joins the buses,
carries the battery management and is the SPI slave of the orchestrator (8), a
Raspberry Pi running ROS 2. A cloud service (9) is reached from there.

This project models the parts with protocol state: what decides whether the suit may
apply force (the dead-man heartbeat, the e-stop with its latch, clear and re-arm, and
the paths their frames take), the nodes that apply it, the voice path and display of
the helmet, the cloud link and the black box. The modules are translated from the
code; the documents are only used for what they promise.

## How the parts interact

```
 operator ──service──▶ bridge (8) ──SPI──▶ hub gateway (7) ──CAN 1/2──▶ nodes 1–6
                        │  heartbeat every 10 ms, ESTOP x 3, CLEAR_ESTOP   │
                        │                    │ mirror of the suit state    │ safety core
                        │                    └── BMS: short latch, trips   │ per node
                        │                    (ESTOP on both buses and SPI) └ actuation gate
                        ├─ black box: ring of records, snapshot at an e-stop
                        ├─ AudioRelay ◀──voice both ways──▶ helmet (6)
 micro-ROS agent ◀─pty─ ├─ XRCE streams of nodes 1–6
 ROS 2 topics ◀──────── ├─ messages put together from telemetry
 cloud (9) ◀─websocket─ └─ cloud gateway: sessions, speech, choice of bearer
```

Every node runs the same safety core: it actuates only in OPERATIONAL, drops to
PASSIVE when the heartbeat fails and latches ESTOP on a report. The hub runs a
copy of the core (the mirror) for its LED, its SPI header and the re-arm of the
battery. Only the bridge makes heartbeats.

## Modules

| Module | Code | What a state and a step are |
|---|---|---|
| `SafetyStates` | `ps_safety_core.c` without clocks | The abstract machine users of a core rely on: state, latched, wants |
| `SafetyCore` | `ps_safety_core.c`, the lock and timer of `ps_safety_esp.c` | The fields of `ps_safety_core_t`, stamps as ages; one action per handler, the tick, one millisecond, a reset |
| `CanPort` | `ps_can.c`, `ps_can_txq.c` | The slot pool, class queues, `tx_task`, `service_link`, senders, ISRs and the external driver |
| `Router` | `ps_router.c`, `can_id.h` | Operators only: packing of an identifier, the routing decision |
| `Hub`, `MCHub` | `gateway_task.c`, `ps_spibridge.c` | Queues, two armed SPI slots, DATA_READY, the header's flags, the mirror (`SafetyStates`); five contexts with their priorities, each with the steps it has left, routing by `Router`; what the nodes of each bus have latched |
| `Bms` | `bms_task.c`, the clear path of `gateway_task.c` | The hardware latch and ISR, the BMS loop step by step, the strobe, the mirror (`SafetyStates`) |
| `Limb` | `node_limb/main`, `ps_safety_esp.c` (raise) | The control tick joint by joint, set-points and integrators as where they come from, command handlers, the transition callback on the other core |
| `Flight`, `MCFlight` | `node_flight/main` | One pair of flaps in integers: command, servo tick with clamp, exclusion and slew, callback, FLAP_STATE |
| `Bridge` | `main.cpp`, `heartbeat.cpp`, `estop_service.cpp` | The outbound queue, the two latches, the transport thread at one of three steps of its cycle, the service handler at one of its two steps |
| `EstopCounter` | `load_and_bump_counter`, `ps_safety_core_on_clear` | The two counter files, the process, the accepted counter of every node |
| `BlackBox` | `ringlog.py`, `blackbox_node.py` | The mapped file record by record and its header, the timer, snapshots with their temporary file, death between any two writes |
| `Xrce` | `xrce_demux.cpp`, its place in `main.cpp`; `ps_uros_transport_can.c`, `ps_uros_task.c` | One node's micro-ROS byte stream in both directions, a byte being its number: terminal, records, the overflow of a frame, the node's stream buffer; the session task with the objects it has initialised |
| `Synth` | `telem_synth.cpp`; the telemetry of `node_limb`, `node_flight` and `bms_task.c` | Accumulators filled frame by frame, a value being the number of the sample it is from; the bursts the nodes send, lost frames |
| `MCBridge` | | `Bridge`, `EstopCounter`, `BlackBox`, `Xrce` and `Synth` for one run: node 8 |
| `MCClear` | | `Bridge` with an observer of whether a clear followed the suit's e-stop |
| `Speaker` | `audio_relay.cpp` (down), its place in `main.cpp`, `audio_pkt.c` (receiver, ring), `audio_out_task` | Framing, SYNC, cycles of the transport thread with room for some of it and the rest put back, the lossy way, the decoder's state as a distance from the encoder, the ring index by index |
| `Mic` | `audio_in_task`, `energy_gate.c`, `audio_pkt.c` (packetizer), `audio_relay.cpp` (up) | Blocks of the microphone, the gate with hangover and cap, frames and SYNCs, the relay's decoder |
| `Hud` | `hud_model.c`, its writers and `hud_task` | The model behind a mutex made by the first caller, each caller at a step of a call |
| `Helmet` | | `Speaker`, `Mic` and `Hud` side by side |
| `Resume` | `ws_client.py`, `server.py`, `session.py` | Clients, connections and sessions, each coroutine between two awaits; hello, hello_ack, replay, detach, purge |
| `Speech` | `strategy.py` (`handle_voice_query`), `session.py` (credits), `ws_client.py` | A reply's chunks against its credits, grants, cuts, and replays of its `tts_meta`s among live messages |
| `Bearers` | `link_monitor.py`, `gateway_node.py`, `offline_queue.py` | What each bearer answers and what the monitor makes of it, the clients started and retired, queries that wait |
| `Cloud` | | `Resume`, `Speech` and `Bearers` one by one |
| `…Proofs` | | Theorems about the module of that name: `SafetyCore`, `Bms`, `CanPort`, `Limb`, `Flight`, `Router`, `Bridge`; `Node8Proofs` about `EstopCounter` and `BlackBox` |

Conventions. Names are the source's. Operators named `X_something` next to an
`X` are deliberately wrong variants of it: checking a property with `X` replaced
by the variant must fail, which shows that the property says something about
`X`. Variables commented *observer* record what happened and influence nothing the code
does; `issued` of `EstopCounter` and `missed` of `Synth` also serve as bounds.

`Helmet`, `Cloud` and `MCBridge` join parts that share no variable in the code (or
meet only through an event that each takes as a free choice: a connection is lost or
made). Their first state picks the part a behaviour is about, and the others rest, so
that the numbers of states add and do not multiply. A property of such a module speaks of
one part. `Resume` and `Speech` are two views of the same session, and make the same
assumptions of it: the handler is detached, acknowledging, replaying, in its loop or failed;
only the loop's end detaches; a replay sends one message at a time while others send live
ones, and may raise, which leaves the session attached. `Resume` follows the numbers of all
control messages of several sessions, `Speech` the `tts_meta`s of one.

### Time

`SafetyCore` keeps each `uint32_t` stamp as its age modulo `WORD`, so the signed
difference `elapsed` wraps as in C. One `Advance` is a millisecond, and the clock
does not pass a due tick (the 5 ms `esp_timer` is on time). `safety_rx` reads the
time before it takes the mutex; a beat can therefore be up to `LOCK_MS` old when
it reaches the core. `Bridge` counts transport cycles, `Mic` blocks, `Flight` servo
ticks, `Bearers` seconds. The others are untimed: every delay takes any number of
steps.

### Abstractions that matter

* A record on the bridge, the hub or the way to the helmet is its kind and a number.
  Commands, XRCE and audio are one kind on the bridge.
* BMS measurements are the set of families whose reading is critical in a loop,
  chosen freely. The debounce counter saturates at the threshold and not at
  0xFFFF; nothing tells the two apart.
* The CAN driver is external. It refuses frames while bus-off or recovering and
  aborts the frame on the wire at bus-off. The ISRs run on the core of the tasks
  (the port is opened from `app_main`, core 0), so a frame parked in the
  driver's own queue, the residual window described at `ps_can.c:211`, does not
  occur in the model.
* `service_link` sets `link_state` to RECOVERING in the same step as it starts
  the recovery: the controller needs 128 idle sequences for it.
* In `Limb` a set-point is none or a command, an integrator holds something from
  before the present period of operation or not, and a duty is what it was made of.
  The cascade's numbers are floating point and are not modelled.
* `Flight` is about one pair: flaps interact only within a pair of `PS_FLAP_PAIRS`,
  and the pairs are disjoint. Positions are in a coarser unit than permille.
* An audio frame is its number, and one sample of the ring. ADPCM is the distance of
  the decoder's state from the state the encoder had: 0 decodes right.
* A control message of the cloud link is a number of its session. Websockets are
  external: what was sent before a cut may or may not arrive, in order.
* A bearer is dead, takes TCP connections but no hello (`tcp`), works beyond its RTT
  budget (`slow`), or is good. A probe sees a TCP connection and its time
  (`gateway_node.py:130`), a client a hello_ack; a client's RTT counts as 1 ms until one is
  measured (`gateway_node.py:188`). The loss that `link_monitor.py:101` compares is 0 from every
  caller. A probe's answer is applied when it was asked for; one that comes after its bearer
  became active is left out, since `_evaluate_bearers` writes over it within a second.
* Losses on the way from the bridge to the helmet and from the nodes to the bridge are a
  free choice. The code has many: a failed exchange, a full queue of the hub, a bus that
  takes nothing in time.
* The nodes in `Hub` are what the safety cores on a bus have latched, and all of a bus
  hear the same; as in `SafetyCore`, a clear takes the latch back at once.

## Runs

Passing runs. A property with a "=" is the conjunction of the definitions behind it,
each with its own comment in the module.

| Run | Checks | Instance |
|---|---|---|
| `core` | `DeadMan`, `ExitsEarned` = `EstopExit`, `ForceEarned`; `ImplementsStates`, `Rearms` = `ClearReleases`, `PassiveRecovers` | Timeouts 1, 2, 2, 3 ms, tick 1 ms, lock wait 1 ms, counter of 8 values, one cause |
| `bridge` | `RecordsKept` = `TypeOK`, `BeatsInOrder`, `SafetyInOrder`; `EstopsAccounted`, `ClearsCount`, `BoxReads` = `RingReads`, `SnapshotsWhole`; `XrceKept` = `StreamsInOrder`, `SessionsWhole`; `MessagesTell`; `ThreadGoesOn` = `BeatsResume`, `NotHeldUp` | Frames of 2, 2 service calls, bursts of 0 or 2 records (a whole frame) in any cycle, at most 3 records queued, all outcomes of an exchange; 2 nodes, 3 clears; a ring of 3 records, 2 topics, 7 records written, 2 different seconds; frames of 1 record and 2 bytes, reads of up to 4 bytes, a buffer of 3 and a terminal of 1; 2 limbs, the flight node and the hub, 2 ticks in all, frames of one node lost |
| `bms` | `GateTold`, `RearmNeedsClear`, `TrippedRecovers`, `TripReported` | 2 families, debounce 2, 2 shorts at any time |
| `can_port` | `SlotsConserved`, `BusOffHandled` = `NothingLate`, `OffTold`; `SendOrder`, `SlotsReturn` | 2 slots, 2 senders, 2 classes, 3 frames, 1 bus-off |
| `hub` | `MirrorAgrees`, `SignalsTell` = `ReadyTells`, `FlagTells`; `UplinkKept` = `TypeOK`, `UplinkInOrder`, `OverflowKept`; `Drains` | 2 inputs of any kind and origin, queues and frames of 1 record, 1 corrupted frame |
| `limb` | `TripsHold` = `TypeOK`, `OvercurrentTrips`, `OneLateDuty`, `NeverResumes`; `KickNeedsOverlap`, `GoesLimp` | 2 joints, overcurrent after more than 1 tick |
| `flight` | `HornsApart`, `StopsInTime` = `OneLateMove`, `HomeInTime`; `RestIsHeard` | A pair with envelope 3, common limit 5, brake and slew 4, home in 2 ticks |
| `helmet` | `PlaysInOrder`, `LossesHeal` = `TypeOK`, `GapsAreReal`, `MuteEnds`, `UplinkInStep`, `SpoiltEnds`; `TalkBounded` = `CapHolds`, `NoiseBounded`; `HudWhole` = `TearsOnlyAtBoot`, `NewestKept`; `BannerFollows` | Numbers modulo 3, SYNC every 2, ring of 3, messages of 1, 5 frames down with 3 records under way, SPI frames of 1, any losses; cap 4 blocks of 2 frames, hangover 2, 24 frames up; 1 warning, 1 marker, 2 changes of state |
| `cloud` | `LossWindows`, `SessionsOwned` = `SoleOwner`, `SessionFreed`; `Bounded` = `TypeOK`, `BacklogBounded`, `ClientsBounded`; `QueriesGoOut`, `RepliesEnd`, `RecoversElsewhere` | Buffer of 2, 3 connections, 2 clients, 3 messages; 2 streams of 3 chunks, 2 initial credits, grants of 2, 2 cuts; 3 bearers, thresholds and linger of 1 s, 1 change of a bearer or close of the server; for the queries 1 of them and a queue of 1 |

What they show, in short:

* **Dead-man switch.** A node in OPERATIONAL has received a beat within the
  watchdog window plus one tick, 55 ms with the firmware's numbers, as long as no
  gap exceeds 2^31 ms. The bench log's 53 to 55 ms agree.
* **Latch and recovery.** An e-stop is left only for STANDBY, with a clear as latest
  report and a link that really was up for the re-arm time, or by a reset. The clear does
  not restart that time. Force begins, from whatever state, only with a link that is up and
  the operator's MODE_SET(OPERATIONAL) as their last word since the last e-stop. A node that
  is passive, or lost its force to a bad link however long ago, needs in addition a window
  without holes that contains a recent command. The one way around that window is the
  operator's own MODE_SET(STANDBY), besides an e-stop that was left again and a reset. With
  a healthy link both states do end.
* **Bridge.** No ESTOP is lost or doubled by the requeueing of overflow. Beats and
  safety records keep their order until a cycle gathers more than a frame holds.
  With both latches cleared and a healthy link beats come back, provided that the thread
  catches up with its queue again and again: XRCE and audio go ahead of the queue, and if
  they filled every frame a beat that was put back would never leave.
* **Clear counter.** A node has to reject an operator's clear only if the bridge
  died between truncating and writing the file, did not notice that the write
  failed, or was restarted after it had turned to the fallback file. All other
  restarts, resets, lost clears and the switch to the fallback are harmless.
* **Black box.** Whenever the recorder dies, a restart reads the latest records in
  order, but perhaps for the oldest of a full ring; a snapshot under its final name
  is whole.
* **micro-ROS.** The agent reads a node's bytes in order and none twice, over short writes
  and lost records; the node the agent's, until a cycle reads more than a frame holds. A
  session that is up has all its objects, one that is down has given back its support
  and executor. A terminal holds the transport thread up only while no agent reads it.
* **Telemetry.** A message holds the last part received of each kind, of the right node. If
  no frame of a node was lost, what it mixes is at most one sample apart, and no cell
  shows as 0 V.
* **BMS.** The firmware knows of every open gate, also when a short hits during
  the strobe, except for a short between the reading of the latch and the
  installation of its ISR at start-up; a strobe always follows a clear later than the
  BMS's own last e-stop; requests are not lost unless a short is latched.
* **CAN port.** Slots are neither lost nor freed twice, and all come back; at most one
  lower-class frame overtakes a queued one; nothing queued at bus-off is sent
  afterwards; the safety layer hears of a bus-off unless its report is reset unread.
* **Hub.** Reports and clears cross in the hub, the pump overtaking the downlink task
  wherever that waits for a bus, and may leave one bus latched and the other, or the
  mirror, cleared. Once nothing is under way and no SAFETY frame was lost, they agree
  or the Pi got an ESTOP after its latest clear, and so stops its beats
  (`main.cpp:333`). That depends on `hub_forward` sending to the buses before the SPI link:
  a variant that tells the Pi first fails. The BMS latches the mirror after the Pi is
  told (`bms_raise_estop`), and there the mirror may be left latched alone. DATA_READY can be low over
  a waiting record, so it is the poll at 1 kHz that makes delivery sure (`Drains`).
* **Limb.** After a trip at most one duty is still written, for the joint in hand, and
  no tick that begins after the trip's callback drives by a command from before. A tick that
  began earlier works from its copy, and drives its remaining joints by it if two MODE_SETs
  and a safety tick bring the suit back before it ends. An integrator's old term can kick
  a joint only if a tick ran across the transition callback.
* **Flight.** The horns of a pair keep their distance while both slew alike, are home
  in time, and the Pi learns of it though FLAP_STATE may be lost.
* **Helmet.** Down, the helmet mutes only after a loss, an overflow that put audio behind
  newer audio, or a message that ended within a frame, and until the next SYNC that
  arrives; up, the relay decodes wrong for no longer than that. Noise that does not end gets one utterance's worth of the bus.
  Nothing is played twice or out of order but for one race on the ring and for overflow.
  The display tears only if two first calls made its mutex.
* **Cloud.** Control messages are lost in five windows only (at `LossWindows`): a cut or a
  switch within a replay; a replay that raises; a resume that is refused; the first messages
  of the session begun in its place, up to the old session's number; a session that only a
  retired client knew. A session has one owner and is freed. A reply ends but for three
  cases (at `RepliesEnd`): its count was mixed up with another's, its sender missed a
  detach, or a replay raised. What a reply may have under way is bounded unless the client
  mixed it up with another. Clients stay bounded. The suit connects again and again as long
  as the bearer that `_best_healthy` picks works, which need not be the case while another
  one does.

Runs that show a disagreement between the code and something the repository says
about it (each is an entry of `findings` in `PROJECT.json`, with the quotation):

| Run | Property | In a sentence |
|---|---|---|
| `bridge_external` | `ClearBringsBeats` | A clear by the operator that follows the suit's e-stop does not bring beats back |
| `voice_sync` | `DecodesInStep` | A SYNC at the start or in the middle of a message carries the codec state of the message's end, so the helmet decodes the next frame with the wrong state, with nothing lost |
| `lossless` | `Lossless` | A client copied before the hello_ack of the one it replaces does not know that one's session, and what is on the way there is lost; the other four windows lose messages as well |

### Further disagreements

Met while modelling. Where a property names one as its exception, its name follows.

Safety core and bridge:

* `ps_safety_core.c:126`: a MODE_SET received while latched survives the clear, against
  `docs/safety.md:76-77` (`ForceEarned` counts it as the operator's word).
* `ps_safety_core.c:130`: PASSIVE, then MODE_SET(STANDBY), then MODE_SET(OPERATIONAL)
  reaches OPERATIONAL with one good beat, around the re-arm window (`ForceEarned`).
* `ps_safety_core.c:50`: a reset forgets the clear counter, against "persisted in RTC
  RAM across soft resets" (`docs/safety.md:73-75`).
* `ps_safety_core.c:179`: the second of beats that releases a node may lie before the
  clear, against "continuous beats required after CLEAR_ESTOP" (`docs/safety.md:44`;
  `EstopExit`).
* `main.cpp:296`: overflow goes to the back of the queue, so an ESTOP may follow a later
  CLEAR_ESTOP, against `main.cpp:59` (`SafetyInOrder`). A requeued beat goes out without
  asking the gate again, against "the single decision point" (`heartbeat.hpp:2`). XRCE and
  audio that fill every frame keep the queue, beats included, out for good (`BeatsResume`).
* `estop_service.cpp:46,52,63`: a crash after truncation, a failed write, or a restart
  after the fallback was used takes the clear counter back, against "strictly
  monotonic counter persisted to disk" (`estop_service.hpp:3`; `ClearsCount`).

* `xrce_demux.cpp:147`: a full read of 256 bytes is 32 records, one more than a frame
  holds; the last is requeued behind what the next cycle reads, against "CAN guarantees
  in-order delivery … so no sequence numbering is needed on this plane"
  (`ps_uros_transport_can.c:5-7`; `StreamsInOrder`).
* `xrce_demux.cpp:111`: with no agent reading, a full terminal blocks the transport thread
  and with it the heartbeat, though the real-time planes are not to depend on this one
  (`ps_uros_task.c:5-7`; `NotHeldUp`).
* `ps_uros_task.c:86-88`: where the executor cannot be initialised only the support is
  finalised and the node is initialised again (`SessionsWhole`).
* `main.cpp:287`: `heartbeat_ok` is whether this cycle emitted a beat, true in one cycle of
  ten, against "bridge heartbeat gate currently open and emitting" (`SafetyState.msg:13`).
  The cause published for an e-stop of the suit is the service's last one
  (`main.cpp:288`).

Hub, battery, CAN port:

* `gateway_task.c:81`: two contexts that publish the mirror can leave the header's
  ESTOP bit wrong, against `docs/network-map.md:219` (`SignalsTell`).
* `gateway_task.c:280-311`: a report and a clear that cross in the hub can leave the
  nodes of one bus latched and those of the other cleared, with every frame delivered;
  the Pi is always told of the report afterwards (`MirrorAgrees`).
* The route queue and the drop-oldest downlink queue may drop SAFETY frames, against
  `docs/safety.md:130` (`MirrorAgrees`). The overflow flag goes out after the slots
  that were already armed.
* `bms_task.c:311`: a re-arm request is consumed before the comparator may refuse it,
  and tripped families then stay unmonitored, against "latched until CLEAR_ESTOP +
  STANDBY re-entry" (`bms_task.c:233`; `TrippedRecovers`).
* `bms_task.c:529`: a short between reading the latch and installing the ISR raises
  no ESTOP, and the report says "armed" over an open gate (`GateTold`). Powered up
  into a tripped latch (`bms_task.c:533`) the hub sets SHORT_LATCH but raises no ESTOP.
* `bms_task.c:331`: the suit may leave STANDBY during the 10 ms of the strobe, against
  "we are in STANDBY by definition here" (`bms_task.c:330`).
* `bms_task.c:339`: fault bits survive the re-arm after a short, unlike in the other
  branch (`bms_task.c:316`).
* `ps_can.c:298-300`: recovery can start before the safety layer, which "has already treated
  bus-off as heartbeat loss", hears of it (`OffTold`).

Limb and flight:

* `safety_glue.c:32-34` of the limb: the stale integrator can kick the joint when a tick
  overlaps the callback (`KickNeedsOverlap`).
* The soft ramp of `docs/safety.md:55-56` and `docs/network-map.md:182-183` is not in the
  code; OPERATIONAL, STANDBY, OPERATIONAL goes on with the old set-point; a tick that
  saw a trip and the return from it drives its remaining joints by the set-points it had
  copied (`control_task.c:498`; `NeverResumes`); gains are not clamped, against
  `comms_task.c:169`.
* `ps_safety_esp.c:213`: raise_estop sends its three frames before it latches locally.
* `board_flight.h:60`, "|a| + |b| must stay at/below this", fails while a
  FLAP_CMD.rate_lim makes the two slew unlike (`HornsApart`); `flap_write` does not check
  the state, against `docs/safety.md:128`.

Helmet:

* `audio_pkt.c:100` "SPSC ring": the producer moves the consumer's index, and in one race
  the whole ring is played again (`PlaysInOrder`).
* `main.cpp:293-296`: audio that overflowed a frame leaves after newer audio, and a SYNC
  among it makes the helmet play it, out of order (`PlaysInOrder`, `GapsAreReal`).
* A short last chunk of a message takes a frame number and is ignored: a gap
  (`LossesHeal`). In ADPCM pass-through a SYNC takes the state of an encoder that has
  not encoded. The uplink relay ignores the frame number. After 256 lost frames the
  helmet locks on without noticing. AUDIO_CTL is not handled.
* `hud_model.c:1-2` "rendering never tears": two first calls make the mutex twice
  (`HudWhole`). DownlinkRouter publishes markers in a namespace, "cloud_advisory"
  (`downlink_router.py:42`), that `hud_marker_cb` ignores.

Cloud and black box:

* `server.py:213`: resume is refused while the old socket is attached, which make before
  break keeps for 5 s: a switch of bearers away from a connection that is up, or whose end
  the server has not noticed, begins a new session. The client keeps its last_rx_seq for it
  (`LossWindows`).
* A send that fails within the replay ends the handler without a detach: the session
  stays attached, against `session.py:23` (`SessionsOwned`). A live message between
  hello_ack and the list of the replay is delivered twice.
* websockets' ConnectionClosed is not a ConnectionError: `handle_voice_query` is killed by
  it, and neither abort nor end is sent. Two replies at once, a replayed "end" after the
  next live "start" (`ws_client.py:157-159`), a sender woken by a detach that sees the next
  connection, or one waiting when a replay raises, wait for good, against
  `session.py:115` (`RepliesEnd`). Grants for a stream that is closed are kept in
  `_pending_grants` (`session.py:106`) for as long as the session lives.
* The old client is retired 5 s after the start of the new one, connected or not
  (`gateway_node.py:168-169` against `docs/link-protocol.md:154-155`). The active bearer is
  neither probed nor returned to, and is judged by the newest client
  (`RecoversElsewhere`). A bearer that takes TCP connections and no hello is picked every
  second before one that works, since a probe is the TCP connection alone, against "TCP
  connect + WS ping" (`docs/link-protocol.md:151`; `RecoversElsewhere`). `_drain_queue`
  ignores failed sends; a query may be queued just after the drain (`QueriesGoOut`), or
  between its list and its clear and be gone.
* A voice query names no stream, so streamed audio is answered twice
  (`docs/link-protocol.md:88-90`, `server.py:300-313`).
* `freeze()` is never called, though "On an e-stop the recorder freezes and writes
  `blackbox-<iso8601>.bin`" (`orchestrator/systemd/README.md:58-59`). The snapshot is taken
  before the e-stop's own record is in the ring, two in one second overwrite each other,
  and the names in `params.yaml` are not those of the declared parameters. After a crash
  between a record and the header the oldest record read is the newest, against
  `ringlog.py:104` (`BoxReads`).

### Why the bounds are enough

The timing constants keep the order of the firmware's where it matters (watchdog
< command staleness, re-arm window < e-stop re-arm) and a counter that wraps
within the reachable ages; the proofs remove this bound. Two sequence numbers
suffice since a beat is compared with the last one only. A frame of 2 records with
`ESTOP_REPEAT` 2 overflows in every way one of 31 with 3 does: in the middle of a
call's records, at a beat, at a clear. A burst of 2 is a full frame, and comes in any
cycle, also in every one. A ring of 3 records written 7 times wraps twice.
A read of 4 bytes is two records where a frame holds one, and a terminal of 1 byte makes
every record of 2 a short write. Two ticks are two samples of one node, or one of two.
Two CAN slots and three frames let senders run out of slots, and let a frame wait while
two others pass or one is on the wire; one bus-off separates frames before, during and
after it. In the hub two inputs are an ESTOP and a clear from any two origins, or one of
them and a frame that fills the queue of one; more inputs add repetitions and are beyond
five minutes. Two joints tell the one in hand from the others. A pair's limit of 5 is odd,
so that halving the excess rounds. The frame numbers of voice wrap within a behaviour, and
any records may be lost, so also a whole round of numbers with the SYNCs in it; a frame of 1
record makes any two overflow. Two clients and three connections are the old and the new
bearer and a return; a buffer of 2 with 3 messages has two to replay, live ones between
them, and one that falls out. Two streams are two replies at once, two cuts one of them
within the replay after the other. Three bearers are the one given up, one that answers
without working and one that works: `CloudReach` lets the first be anything, the second
anything but slow, the third dead or good. The third starts good in the part without queries;
in the part with them only the first works at first.

Deadlock is not checked for `Bridge` (the transport thread stops at shutdown; the clears
and the records are bounded), `Hub`, `Helmet` and `Cloud` (their inputs are bounded, and
they rest when these are used up); everywhere else it is.

### Fairness

* `SafetyCore`: the periodic timer fires and time passes.
* `Bridge`: the transport thread runs (SCHED_FIFO; its one call without a time-out, the
  write to a terminal, is in `Xrce`) and a service call that has begun is finished. Nothing is assumed of
  the operator, the link or the traffic: `BeatsResume` has as premises a healthy link and
  that the thread finds its queue empty again and again (`CaughtUp`), which XRCE and audio
  decide and not the code.
* `Xrce`: the transport thread runs where it can, an agent that runs reads its terminal, the
  buses move on. That the agent runs is the premise of `NotHeldUp`.
* `Bms`: the loop runs; each wait in it is bounded by a tick or 10 ms.
* `CanPort`: `tx_task` wakes at least every 20 ms, a frame on the wire is finished
  by the controller, a sender's wait for a slot ends.
* `Hub`: the master clocks a frame (its poll at 1 kHz does not depend on DATA_READY) and
  a context that has work left and may run does.
* `Limb`: the control task and the callback run; raise_estop gets on whenever a slot
  comes free again and again (strong fairness).
* `Flight`: the callback and the servo task run, and the telemetry task's keepalive slot
  comes round with a send that succeeds.
* `Hud`: the display task and every caller run; a caller that waits for the mutex gets it
  if it is free again and again (strong fairness: a FreeRTOS mutex queues its waiters).
* `Cloud`: the event loops and timers run and a live connection delivers: senders, `Grant`,
  `Meet`, and `Serve`, which is the server's handler going on with its replay, failing in it
  or noticing the end, whichever it comes to. That a handler detaches is not assumed, nor
  that a client connects again. A bearer is not assumed to work; `RecoversElsewhere` has the
  one that is picked as premise.

## Proofs

For every value of the constants that satisfies the modules' named assumptions: windows
positive and half the counter's range larger than each (`SafetyCore`); numbers natural,
senders finite; a ring holds at least one record (`RingAssumption`); `HomeAssumption`, that
`HOME` full-rate moves at the slowest scale cover the envelope, which ties the number of
ticks `HomeInTime` allows to the slew rate.

| Module | Theorem | States |
|---|---|---|
| `SafetyCoreProofs` | `TypeCorrect`, `DeadManHolds` | `[]TypeOK`, `[]DeadMan` |
| | `StampsHold`, `LatestReportHolds` | The stamps agree with what happened; the latch follows the latest report or clear |
| | `EstopExitHolds`, `ForceEarnedHolds`, `ExitsEarnedHolds` | What precedes the end of an e-stop, and the beginning of force by whatever way |
| | `CoreImplementsStates` | Refinement of `SafetyStates` |
| `BmsProofs` | `TypeCorrect`, `GateToldHolds`, `RearmNeedsClearHolds`, `TrippedRecoversHolds` | Every safety property of `Bms` |
| `CanPortProofs` | `TypeCorrect`, `SlotsConservedHolds`, `NothingLateHolds`, `OffToldHolds`, `BusOffHandledHolds` | For any number of slots, senders, classes and bus-offs |
| `LimbProofs` | `OneLateDutyHolds`, `OvercurrentTripsHolds`, `TripsHoldHolds`, `KickNeedsOverlapHolds` | Every safety property of `Limb`, for any number of joints and any overcurrent limit |
| `FlightProofs` | `TypeCorrect`, `HornsApartHolds`, `OneLateMoveHolds`, `HomeInTimeHolds`, `StopsInTimeHolds` | Every safety property of `Flight`, for any limits, scales and commands |
| `BridgeProofs` | `EstopsAccountedHolds`, `RecordsKeptHolds` | Every safety property of `Bridge`, for any frame size, number of repeats, burst and range of the beat's number |
| `Node8Proofs` | `ClearsCountHolds` | `[]ClearsCount`, for any nodes and number of clears |
| | `BoxReadsHolds` | `[]BoxReads`, for a ring of any capacity |
| `RouterProofs` | `PolicyHolds`, `IdKeptHolds`, `ClassArbitratesHolds` | No echo, SAFETY to every other port, control to a bus only from SPI, no audio on CAN 2; unpacking undoes packing; a lower class wins arbitration |

The arguments.

* `SafetyCore`. `DeadMan` speaks of the true silence, which the code does not see: it
  sees wrapped differences of stamps. So the inductive invariant `IInv` contains
  `StampsTellTruth`, which ties the stamps to what happened while no gap has left
  the range of `elapsed`. Nor is the bound "window plus tick" inductive: between two
  ticks one must know how much of the tick is used up. `Watched` says the silence
  exceeds the window by no more than the time since the last tick; the tick itself
  re-establishes it. `LatestReportRules` ties the encoding "cause 0 while latched"
  to the order of reports. `WordKept` follows the operator's word and a loss of force
  through the states: the wish to be operational is never older than the last e-stop, and a
  node with a loss to settle is passive or latched, so only the window leads it back.
  `EstopExit` and `ForceEarned` then follow because only the tick grants
  (`OnlyTickGrants`). The refinement needs `CauseMeansEstop`, that a
  cause is stored only in ESTOP, so that a first report is the abstract `Report`.
* `Bms`. `RearmNeedsClear` needs that a request, or a clear about to become one, is
  about the latest e-stop the BMS reported, or the mirror is latched and so not in
  STANDBY (`RequestIsCleared`, `LatchedInEstop`); and that the strobe's steps are only
  reached with a short latched (`Strobing`).
* `CanPort`. A slot's place is one of four kinds. `Conserved` says that they partition the
  slots; with `Holding` and `Wire` (what the driver has is what `tx_task` waits for) each
  action moves one slot from one place to another. `Caught` says that a frame from before
  a bus-off can be queued or in flight only while the port is still off and a flush is due,
  which is why nothing is late.
* `Limb`. `TripsHold` is about what a tick does now; the invariant follows old data through
  the places that hold it. `Forgotten`: a command from before a trip is in the set-points
  until the callback, and in the task's copy until a tick has begun after that. Nothing is
  assumed of when the suit is OPERATIONAL again, hence the exception in `NeverResumes`.
  `LateOnce`: a late duty is one whose gate was passed. `Counted`:
  the counter of overcurrent ticks is the true one except while its e-stop is raised.
  `Clean`: without an overlap of tick and callback the integrators hold nothing old.
* `Flight`. The exclusion holds for targets; that the horns keep it while they slew alike
  follows from positions between the old ones and targets that keep it. For the way home,
  `Within` says that after `k` moves a horn is at most the envelope less `k` full-rate moves
  away, or there.
* `Bridge`. The properties are about a queue that is edited at both ends by two threads.
  They are stated by position (`Numbered`, `Fifo`), so that lemmas about concatenation and
  the splitting of a queue in frame and rest replace induction over it. `Accounted` alone is
  not inductive: a beat or a word must be known to be in one of the forms the thread makes
  (`Words`), and its number below the next one's. `Fits` says that unless a cycle was
  `displaced`, what overflows is at most the beat just made, which is why a requeued rest
  keeps the order. That the number wraps is carried by arithmetic of `%` (`ModPlus`).
* `EstopCounter`. Unless it was forgotten, the number last used is at hand: in the file,
  or in `next` while the file is empty (`AtHand`).
* `BlackBox`. `Ring` says of every index of the last `CAPACITY` that its slot holds it, but
  for the oldest while a record is put or was when the process died; two indexes no more
  than a ring apart share a slot only a ring apart (`SameSlot`), so a record overwrites the
  oldest only. `Copied` says that what a snapshot has so far is what the ring holds: one
  thread runs the callbacks, so nothing is put meanwhile.

Only model-checked: liveness (fairness is beyond the prover); the order of classes in
`SendOrder`, which compares positions in a queue before and after arbitrary removals; and the
invariants of the hub, the helmet, the cloud link, `Xrce` and `Synth`. For `Xrce`, `Speaker`
and `Resume` what is left needs induction over sequences that are flattened or filtered.

## Inventory

Every part of the system with its files is in `components` of `PROJECT.json`, the hazards
in `hazards`, each at its line. In short:

* *Firmware components*: `ps_safety`, `ps_router`, `ps_spibridge`, `ps_audio`, `ps_uros` modelled;
  `ps_can` sending and link supervision.
* *Firmware applications*: chest hub (gateway; BMS without the arithmetic of its
  measurements), limb, flight and helmet nodes (control, without the numbers of the
  cascade, the attitude filter and parameters; what they send as telemetry).
* *Orchestrator*: CAN/SPI bridge (transport, heartbeat, e-stop service, audio relay, XRCE streams,
  telemetry messages),
  cloud gateway (sessions, bearers, queue), black box.
* *Cloud*: sessions, server, and the sender of a spoken reply.

## Not modelled

* Floating point: `ps_ctl`, the limb's cascade, attitude filters, inverse kinematics, state
  estimation. TLA+ has no such numbers, and their properties are numeric.
* Stateless conversions: the units of `telem_synth`, the downlink router and uplink batcher, the Python
  wire formats, ADPCM and checksums, which the repository checks against vectors. The
  packing of identifiers is in `Router`.
* The protocol of the micro-ROS client above its byte stream, a library; what the bridge's
  safety timer publishes.
* Text and models: phrase matching, reasoning, speech recognition and its audio buffers.
* The limb's parameters, the BMS's warnings, the hub's LED, drawing on the display: they read state
  and change nothing a property is about.
* Receiving in `ps_can`, its opening and closing, and the frame parked in the driver's
  own queue; a store to `link_state` that overwrites the ISR's (`ps_can.c:306`), which the
  duration of a recovery excludes.
* A loss of power under the black box's mapping, and its choice of a directory.
* The simulator, a second and simpler implementation for tests; bench program and tools.
