-------------------------------- MODULE Hub --------------------------------
(***************************************************************************)
(* The chest hub as a gateway: the route queue and its pump, the SPI slave  *)
(* bridge with its two armed slots, the downlink task, the mirror of the    *)
(* suit state and the ESTOP_LATCHED bit of the SPI header                   *)
(* (apps/node_chest_hub/main/gateway_task.c, ps_spibridge.c, ps_router.c).  *)
(*                                                                          *)
(* Five contexts run the code.  The esp_timer, the pump, the downlink task  *)
(* and the bridge task share core 0 by priority; the BMS task has core 1.   *)
(* A context is the list of steps it has left (todo) on the frame it holds  *)
(* (item): the ports of hub_forward in order, then the unlocked steps of    *)
(* mirror_publish.  The suit's nodes appear as what the safety core of      *)
(* every node on a bus has latched, the Pi as what it has received.         *)
(***************************************************************************)
EXTENDS Router, SafetyStates, Sequences

CONSTANTS
  Inputs,        (* pairs <<origin, kind>> the world may feed in            *)
  Modes,         (* what MODE_SET frames ask for                            *)
  EVENTS,        (* bound: how many of them, and of timer callbacks         *)
  ROUTE_LEN,     (* GW_ROUTE_QUEUE_LEN                                      *)
  UPLINK_LEN,    (* uplink_queue_len                                        *)
  DOWNLINK_LEN,  (* downlink_queue_len                                      *)
  RECORDS,       (* PS_SPI_MAX_RECORDS                                      *)
  ESTOP_REPEAT,  (* PS_ESTOP_REPEAT                                         *)
  NOISE          (* bound: frames corrupted on the SPI link                 *)

(* The identifier of each kind of frame: its class and destination *)
Class == [estop |-> SAFETY, clear |-> SAFETY, mode |-> CONTROL, joint |-> CONTROL,
          telem |-> TELEM, audio |-> AUDIO, sync |-> MGMT]
Dest  == [estop |-> BROADCAST, clear |-> BROADCAST, mode |-> HUB, joint |-> 3,
          telem |-> ORCH, audio |-> ORCH, sync |-> BROADCAST]

Prio == [timer |-> 22, pump |-> 19, downlink |-> 18, spib |-> 17, bms |-> 0]
Contexts == DOMAIN Prio

VARIABLES
  todo, item,      (* per context: steps left, and the frame they are about *)
  seen,            (* per context: the `st' it publishes                    *)
  route_q, uplink_q, downlink_q,
  armed,           (* the slots queued with the SPI driver, oldest first    *)
  done,            (* what the master clocked into the finished slots       *)
  data_ready,      (* the GPIO                                              *)
  overflow,        (* s_overflow_pending                                    *)
  last_pub, flag,  (* s_last_pub_state (FAULT for 0xFF) and the sticky bit  *)
  node,            (* per bus: whether the nodes there are latched          *)
  pi,              (* records the Pi has received                           *)
  n, noise,        (* inputs and corrupted frames so far                    *)
  (* observers *)
  warned,          (* the Pi sent or got an ESTOP since its latest clear    *)
  lost,            (* a SAFETY frame was dropped, timed out or corrupted    *)
  untold,          (* a record was refused and the Pi has not been told     *)
  raced            (* what got in between two unlocked steps                *)

link == <<uplink_q, downlink_q, armed, done, data_ready, overflow>>
pub  == <<last_pub, flag, seen>>
seenByWorld == <<node, pi, n, noise, warned, lost, untold>>
vars == <<todo, item, route_q, link, pub, suit, seenByWorld, raced>>

Nothing == [origin |-> "local", kind |-> "telem", n |-> 0]
Empty   == [recs |-> <<>>, over |-> FALSE]

(* hub_gateway_start and ps_spib_start; or later, with nothing under way and
   the suit latched *)
Init ==
  /\ \/ SuitInit /\ last_pub = FAULT
     \/ state = ESTOP /\ latched = TRUE /\ wants = FALSE /\ last_pub = ESTOP
  /\ node = [b \in Buses |-> latched] /\ warned = latched
  /\ todo = [c \in Contexts |-> <<>>]
  /\ item = [c \in Contexts |-> Nothing]
  /\ seen = [c \in Contexts |-> BOOT]
  /\ flag = (last_pub = ESTOP)
  /\ route_q = <<>> /\ uplink_q = <<>> /\ downlink_q = <<>>
  /\ armed = <<Empty, Empty>> /\ done = <<>>
  /\ data_ready = FALSE /\ overflow = FALSE
  /\ pi = <<>> /\ n = 0 /\ noise = 0
  /\ lost = FALSE /\ untold = FALSE /\ raced = {}

Safety(i) == Class[i.kind] = SAFETY
At(c, step) == todo[c] # <<>> /\ Head(todo[c]) = step

(* A task of core 0 runs while every higher one has nothing to do or waits
   for room in a bus's transmit queue. *)
Running(c) ==
  \A d \in Contexts \ {"bms", c} :
    c # "bms" /\ Prio[d] > Prio[c] =>
      IF todo[d] = <<>> THEN TRUE ELSE Head(todo[d]) \in Buses

Begin(c, i, steps) ==
  /\ todo' = [todo EXCEPT ![c] = steps]
  /\ item' = [item EXCEPT ![c] = i]
Continue(c, steps) ==
  LET rest == steps \o Tail(todo[c])
  IN  Begin(c, IF rest = <<>> THEN Nothing ELSE item[c], rest)

(* mutant: the Pi is told before the buses *)
Forward_spi_first(mask) ==
  SelectSeq(<<"spi", "can1", "can2", "local">>, LAMBDA p : p \in mask)
(* hub_forward: buses, then SPI, then LOCAL *)
Forward(mask) == SelectSeq(<<"can1", "can2", "spi", "local">>, LAMBDA p : p \in mask)

(* What a node's safety core makes of a SAFETY frame (SafetyCore) *)
Hears(latch, kind) ==
  CASE kind = "estop" -> TRUE
    [] kind = "clear" -> FALSE
    [] OTHER -> latch

Has(recs, kind) == \E k \in DOMAIN recs : recs[k].kind = kind
SafetyIn(recs) == \E k \in DOMAIN recs : Safety(recs[k])

-----------------------------------------------------------------------------
(* The world.  A frame on a bus is heard by the nodes there and handed to
   gw_rx_cb, which drops it when the route queue is full. *)
GwRx(bus, kind) ==
  /\ n < EVENTS /\ <<bus, kind>> \in Inputs
  /\ n' = n + 1
  /\ LET i == [origin |-> bus, kind |-> kind, n |-> n + 1]
     IN  /\ route_q' = IF Len(route_q) < ROUTE_LEN THEN Append(route_q, i) ELSE route_q
         /\ lost' = (lost \/ (Safety(i) /\ Len(route_q) = ROUTE_LEN))
  /\ node' = [node EXCEPT ![bus] = Hears(@, kind)]
  /\ UNCHANGED <<todo, item, link, pub, suit, pi, noise, warned, untold, raced>>

Sent(recs) == Has(recs, "estop") \/ (warned /\ ~Has(recs, "clear"))

(* The master clocks the oldest armed slot: its frame reaches the Pi and the
   Pi's frame the slot, each intact or corrupted.  With no slot armed the
   Pi's frame is lost (ps_spibridge.c keeps two so that one always is). *)
Transfer(recs, up_ok, down_ok) ==
  /\ noise + (IF up_ok THEN 0 ELSE 1) + (IF down_ok THEN 0 ELSE 1) <= NOISE
  /\ noise' = noise + (IF up_ok THEN 0 ELSE 1) + (IF down_ok THEN 0 ELSE 1)
  /\ IF armed = <<>>
     THEN /\ lost' = (lost \/ SafetyIn(recs))
          /\ warned' = Sent(recs)
          /\ UNCHANGED <<armed, done, pi, untold>>
     ELSE /\ armed' = Tail(armed)
          /\ done' = Append(done, IF down_ok THEN recs ELSE <<>>)
          /\ pi' = IF up_ok THEN pi \o Head(armed).recs ELSE pi
          /\ untold' = (untold /\ ~(up_ok /\ Head(armed).over))
          /\ lost' = (lost \/ (~down_ok /\ SafetyIn(recs))
                           \/ (~up_ok /\ SafetyIn(Head(armed).recs)))
          /\ warned' = (Sent(recs) \/ (up_ok /\ Has(Head(armed).recs, "estop")))
  /\ UNCHANGED <<todo, item, route_q, uplink_q, downlink_q, data_ready,
                 overflow, pub, suit, node, raced>>

(* Idle polls, which carry nothing either way and find nothing to carry, are
   left out: they only trade one empty slot for another. *)
Poll ==
  \E up_ok, down_ok \in BOOLEAN :
    \/ /\ uplink_q # <<>> \/ overflow \/ \E k \in DOMAIN armed : armed[k] # Empty
       /\ Transfer(<<>>, up_ok, down_ok) /\ UNCHANGED n
    \/ /\ n < EVENTS
       /\ n' = n + 1
       /\ \E kind \in DOMAIN Class :
            /\ <<"spi", kind>> \in Inputs
            /\ Transfer(<<[origin |-> "spi", kind |-> kind, n |-> n + 1]>>, up_ok, down_ok)

Clock_on_ready == data_ready /\ Poll      (* mutant: poll only on DATA_READY *)
Clock == Poll

(* The Pi has an ESTOP newer than its latest clear, or one is on its way to it *)
Warned ==
  warned \/ Has(uplink_q, "estop") \/ \E k \in DOMAIN armed : Has(armed[k].recs, "estop")

InFlight ==
  \/ \E q \in {route_q, downlink_q} \cup {done[k] : k \in DOMAIN done} : SafetyIn(q)
  \/ \E c \in Contexts : todo[c] # <<>> /\ Safety(item[c])

-----------------------------------------------------------------------------
(* How each context takes up work. *)

(* gw_pump_task: a frame with nowhere to go is an anomaly, and dropped *)
Pump ==
  /\ todo["pump"] = <<>> /\ Running("pump") /\ route_q # <<>>
  /\ route_q' = Tail(route_q)
  /\ LET i == Head(route_q)
         mask == Route(i.origin, Class[i.kind], Dest[i.kind])
     IN  Begin("pump", IF mask = {} THEN Nothing ELSE i, Forward(mask))
  /\ UNCHANGED <<link, pub, suit, seenByWorld, raced>>

(* gw_downlink_task: HUB_LOCAL records (MODE_SET to the hub) skip the router *)
Downlink ==
  /\ todo["downlink"] = <<>> /\ Running("downlink") /\ downlink_q # <<>>
  /\ downlink_q' = Tail(downlink_q)
  /\ LET i == Head(downlink_q)
     IN  Begin("downlink", i,
               IF i.kind = "mode" THEN <<"local">>
               ELSE Forward(Route("spi", Class[i.kind], Dest[i.kind])))
  /\ UNCHANGED <<route_q, uplink_q, armed, done, data_ready, overflow,
                 pub, suit, seenByWorld, raced>>

(* safety_tick_cb and time_sync_cb, in the one esp_timer task *)
TimerFires ==
  /\ todo["timer"] = <<>>
  /\ n < EVENTS /\ n' = n + 1
  /\ \/ Begin("timer", Nothing, <<"local">>)
     \/ Begin("timer", [Nothing EXCEPT !.kind = "sync"], <<"can1", "can2">>)
  /\ UNCHANGED <<route_q, link, pub, suit, node, pi, noise, warned, lost, untold, raced>>

(* The BMS task: a report pushed up, or bms_raise_estop, which sends to both
   buses PS_ESTOP_REPEAT times and up the link before the mirror latches *)
BmsActs(kind) ==
  /\ todo["bms"] = <<>> /\ n < EVENTS /\ <<"local", kind>> \in Inputs
  /\ n' = n + 1
  /\ Begin("bms", [origin |-> "local", kind |-> kind, n |-> n + 1],
           IF kind = "estop"
           THEN [k \in 1 .. 2 * ESTOP_REPEAT |-> IF k % 2 = 1 THEN "can1" ELSE "can2"]
                  \o <<"spi", "local">>
           ELSE <<"spi">>)
  /\ UNCHANGED <<route_q, link, pub, suit, node, pi, noise, warned, lost, untold, raced>>

-----------------------------------------------------------------------------
(* The steps. *)

(* ps_can_send to a bus: queued and sent, or no room within two ticks *)
SendBus(c, bus) ==
  /\ At(c, bus) /\ Running(c)
  /\ Continue(c, <<>>)
  /\ \/ node' = [node EXCEPT ![bus] = Hears(@, item[c].kind)] /\ UNCHANGED lost
     \/ lost' = (lost \/ Safety(item[c])) /\ UNCHANGED node
  /\ UNCHANGED <<route_q, link, pub, suit, pi, n, noise, warned, untold, raced>>

(* ps_spib_uplink_push; its last line raises the GPIO in a step of its own *)
Refuse == overflow' = TRUE /\ untold' = TRUE

Push(c) ==
  /\ At(c, "spi") /\ Running(c)
  /\ IF Len(uplink_q) < UPLINK_LEN
     THEN /\ uplink_q' = Append(uplink_q, item[c])
          /\ Continue(c, <<"raise">>)
          /\ UNCHANGED <<overflow, untold, lost>>
     ELSE /\ Refuse /\ lost' = (lost \/ Safety(item[c]))
          /\ Continue(c, <<>>)
          /\ UNCHANGED uplink_q
  /\ UNCHANGED <<route_q, downlink_q, armed, done, data_ready, pub,
                 suit, node, pi, n, noise, warned, raced>>

Raise(c) ==
  /\ At(c, "raise") /\ Running(c)
  /\ data_ready' = TRUE
  /\ raced' = IF At("spib", "lower") THEN raced \cup {"gpio"} ELSE raced
  /\ Continue(c, <<>>)
  /\ UNCHANGED <<route_q, uplink_q, downlink_q, armed, done, overflow,
                 pub, suit, seenByWorld>>

(* The locked section of gw_local_safety, gw_local_control,
   hub_gateway_local_estop and hub_gateway_safety_tick.  Time sync and flow
   control (gw_local_mgmt) touch no state kept here. *)
MirrorChange(c) ==
  \/ c = "timer" /\ (LinkBad \/ LinkGood)
  \/ c # "timer" /\ item[c].kind = "estop" /\ Report
  \/ c # "timer" /\ item[c].kind = "clear" /\ Clear
  \/ c # "timer" /\ item[c].kind = "mode" /\ \E t \in Modes : ModeSet(t)

Publishing(c) ==
  \E k \in DOMAIN todo[c] : todo[c][k] \in {"compare", "flag", "store"}

Local(c) ==
  /\ At(c, "local") /\ Running(c)
  /\ \/ /\ MirrorChange(c)
        /\ Continue(c, <<"compare">>)
        /\ seen' = [seen EXCEPT ![c] = state']
        /\ raced' = raced
             \cup {r \in {"mirror"} : state' # state /\ \E d \in Contexts \ {c} : Publishing(d)}
             \cup {r \in {"latch"} : c = "bms" /\ ~Warned}
     \/ /\ Class[item[c].kind] = MGMT
        /\ Continue(c, <<>>)
        /\ UNCHANGED <<suit, seen, raced>>
  /\ UNCHANGED <<route_q, link, last_pub, flag, seenByWorld>>

(* mirror_publish: compare with the last state published, set the sticky bit,
   remember.  No lock is held. *)
Compare(c) ==
  /\ At(c, "compare") /\ Running(c)
  /\ Continue(c, IF seen[c] = last_pub THEN <<>> ELSE <<"flag", "store">>)
  /\ seen' = IF seen[c] = last_pub THEN [seen EXCEPT ![c] = BOOT] ELSE seen
  /\ UNCHANGED <<route_q, link, last_pub, flag, suit, seenByWorld, raced>>

SetFlag_sticky(c) ==   (* mutant: the bit is never taken back *)
  /\ At(c, "flag") /\ Running(c)
  /\ flag' = (flag \/ seen[c] = ESTOP)
  /\ Continue(c, <<>>)
  /\ UNCHANGED <<route_q, link, last_pub, seen, suit, seenByWorld, raced>>
SetFlag(c) ==
  /\ At(c, "flag") /\ Running(c)
  /\ flag' = (seen[c] = ESTOP)
  /\ Continue(c, <<>>)
  /\ UNCHANGED <<route_q, link, last_pub, seen, suit, seenByWorld, raced>>

Store(c) ==
  /\ At(c, "store") /\ Running(c)
  /\ last_pub' = seen[c]
  /\ seen' = [seen EXCEPT ![c] = BOOT]
  /\ Continue(c, <<>>)
  /\ UNCHANGED <<route_q, link, flag, suit, seenByWorld, raced>>

(* The receive loop of spib_build_tx: k records leave the uplink queue *)
Taken_peek(k) == UNCHANGED uplink_q        (* mutant: they are only looked at *)
Taken(k) == uplink_q' = SubSeq(uplink_q, k + 1, Len(uplink_q))

(* spib_handle_rx: a full downlink queue gives up its oldest record.
   spib_build_tx: drain the uplink queue, report the pending overflow once.
   Then the slot is armed again, and the queue length spib_update_data_ready reads ... *)
Serve ==
  /\ todo["spib"] = <<>> /\ Running("spib") /\ done # <<>>
  /\ done' = Tail(done)
  /\ LET q == downlink_q \o Head(done)
     IN  IF Len(q) > DOWNLINK_LEN
         THEN downlink_q' = Tail(q) /\ lost' = (lost \/ Safety(Head(q)))
         ELSE downlink_q' = q /\ UNCHANGED lost
  /\ LET k == IF Len(uplink_q) < RECORDS THEN Len(uplink_q) ELSE RECORDS
     IN  /\ armed' = Append(armed, [recs |-> SubSeq(uplink_q, 1, k), over |-> overflow])
         /\ Taken(k)
  /\ overflow' = FALSE
  /\ Begin("spib", Nothing, <<IF uplink_q' = <<>> THEN "lower" ELSE "raise">>)
  /\ UNCHANGED <<route_q, data_ready, pub, suit, node, pi, n, noise,
                 warned, untold, raced>>

(* ... and the level it then sets, when that is low *)
Lower ==
  /\ At("spib", "lower") /\ Running("spib")
  /\ data_ready' = FALSE
  /\ Continue("spib", <<>>)
  /\ UNCHANGED <<route_q, uplink_q, downlink_q, armed, done, overflow,
                 pub, suit, seenByWorld, raced>>

Step(c) ==
  \/ \E bus \in Buses : SendBus(c, bus)
  \/ Push(c) \/ Raise(c)
  \/ Local(c) \/ Compare(c) \/ SetFlag(c) \/ Store(c)

Next ==
  \/ \E bus \in Buses, kind \in DOMAIN Class : GwRx(bus, kind)
  \/ Clock
  \/ Pump \/ Downlink \/ TimerFires
  \/ \E kind \in DOMAIN Class : BmsActs(kind)
  \/ Serve \/ Lower
  \/ \E c \in Contexts : Step(c)

Work ==
  \/ Pump \/ Downlink \/ Serve \/ Lower
  \/ \E c \in Contexts : Step(c)

(* The scheduler never idles while a task has something to do, and the Pi
   clocks a transaction every millisecond. *)
Spec == Init /\ [][Next]_vars /\ WF_vars(Clock) /\ WF_vars(Work)

-----------------------------------------------------------------------------
TypeOK ==
  /\ state \in States /\ latched \in BOOLEAN /\ wants \in BOOLEAN /\ warned \in BOOLEAN
  /\ Len(route_q) <= ROUTE_LEN /\ Len(uplink_q) <= UPLINK_LEN
  /\ Len(downlink_q) <= DOWNLINK_LEN /\ Len(armed) + Len(done) <= 2
  /\ \A k \in DOMAIN armed : Len(armed[k].recs) <= RECORDS /\ armed[k].over \in BOOLEAN
  /\ data_ready \in BOOLEAN /\ overflow \in BOOLEAN /\ flag \in BOOLEAN
  /\ last_pub \in States /\ seen \in [Contexts -> States]
  /\ node \in [Buses -> BOOLEAN]
  /\ n \in 0 .. EVENTS /\ noise \in 0 .. NOISE
  /\ lost \in BOOLEAN /\ untold \in BOOLEAN /\ raced \subseteq {"gpio", "mirror", "latch"}

(* A report and a clear may cross in the hub, and then leave one bus latched
   and the other, or the mirror, cleared: the pump overtakes the downlink task
   between its buses, and the BMS runs beside both.  But a clear that crossed
   a report never has the last word unheard: with no SAFETY frame under way and
   none lost, both buses and the mirror agree, or the Pi got an ESTOP after its
   latest clear and so stops its beats (main.cpp:333).  hub_forward's order, buses before
   SPI, gives that.  hub_gateway_local_estop latches the mirror after the Pi is
   told, and is the exception: a clear may come in between. *)
MirrorAgrees ==
  ~InFlight /\ ~lost /\ "latch" \notin raced =>
    Warned \/ \A b \in Buses : node[b] = latched

(* ps_spibridge.h: "DATA_READY GPIO asserted whenever the uplink queue is
   non-empty".  It holds whenever no context is between the two halves of an
   update, except after a push that fell between the bridge task reading the
   queue's length and setting the level. *)
ReadyTells ==
  /\ uplink_q # <<>> /\ "gpio" \notin raced
  /\ \A c \in Contexts : todo[c] = <<>>
  => data_ready

(* The sticky bit tells the Pi whether the mirror is in ESTOP once every
   context has published what it saw, except where a context changed the
   mirror while another had yet to publish. *)
FlagTells ==
  /\ "mirror" \notin raced /\ last_pub # FAULT
  /\ \A c \in Contexts : ~Publishing(c)
  => flag = (state = ESTOP)

(* Through the route queue, the uplink queue and the two slots, the records
   of one origin reach the Pi in order and none of them twice. *)
UplinkInOrder ==
  \A j, k \in DOMAIN pi :
    j < k /\ pi[j].origin = pi[k].origin => pi[j].n < pi[k].n

(* A refused record stays on the books: until the Pi has been told, the
   one-shot bit is pending or on its way in a frame. *)
OverflowKept ==
  untold /\ noise = 0 =>
    overflow \/ \E k \in DOMAIN armed : armed[k].over

(* Nothing gets stuck: after the last input, queues and slots run empty. A
   record that came while the slots were armed with older frames reaches the
   Pi, whichever task its push interrupted. *)
Drains ==
  <>[](/\ route_q = <<>> /\ uplink_q = <<>> /\ downlink_q = <<>>
       /\ \A k \in DOMAIN armed : armed[k] = Empty)

(* What the hub signals to the Pi, by the DATA_READY line and by the sticky bit of
   the header, is true but for the races that ReadyTells and FlagTells name. *)
SignalsTell == ReadyTells /\ FlagTells

(* From the buses to the Pi: queues and slots keep their types and bounds, records
   keep their order, and a record refused is told. *)
UplinkKept == TypeOK /\ UplinkInOrder /\ OverflowKept
=============================================================================
