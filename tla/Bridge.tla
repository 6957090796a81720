------------------------------- MODULE Bridge -------------------------------
(***************************************************************************)
(* The transport thread of suit_canspi_bridge (Node 8) with the services   *)
(* and subscriptions that feed it: src/main.cpp, heartbeat.cpp and         *)
(* estop_service.cpp.                                                      *)
(*                                                                         *)
(* The transport thread runs one cycle per millisecond: it gathers what is *)
(* queued, decides on a heartbeat, requeues what does not fit in one SPI   *)
(* frame, and exchanges the frame.  ROS callbacks run on another thread    *)
(* and get between any two of these steps.  Time is counted in cycles.     *)
(*                                                                         *)
(* A record is its kind and a number: the beat's sequence number, or the   *)
(* number of the service call an ESTOP or CLEAR_ESTOP comes from.  Command,*)
(* XRCE and audio records are all of kind "other".                         *)
(***************************************************************************)
EXTENDS Integers, Sequences, FiniteSets

CONSTANTS
  SPI_MAX_RECORDS,   (* records per SPI frame, 31                           *)
  ESTOP_REPEAT,      (* ESTOP records per engage, 3                         *)
  HEALTHY,           (* cycles a good frame keeps the transport healthy, 100*)
  PERIOD,            (* cycles between two beats, 10                        *)
  SEQ,               (* range of the beat's sequence number, 2^16           *)
  Bursts,            (* sizes of what xrce and audio hand over in a cycle   *)
  Inbound,           (* outcomes of an exchange                             *)
  MAX_OPS,           (* bound: service calls                                *)
  MAX_QUEUE          (* bound: no command is added beyond it                *)

ASSUME BridgeAssumption ==
  /\ SPI_MAX_RECORDS \in Nat \ {0} /\ ESTOP_REPEAT \in Nat \ {0}
  /\ HEALTHY \in Nat \ {0} /\ PERIOD \in Nat \ {0} /\ SEQ \in Nat \ {0}
  /\ Bursts \subseteq Nat /\ 0 \in Bursts
  /\ MAX_OPS \in Nat /\ MAX_QUEUE \in Nat
  /\ Inbound \subseteq {"fail", "error", "idle", "ok", "estop", "clear"}

VARIABLES
  outbound,     (* OutboundQueue                                            *)
  latched,      (* EstopService::latched_                                   *)
  external,     (* external_estop_latched                                   *)
  call,         (* where the service handler is: "none", "engage", "clear"  *)
  ops,          (* service calls begun                                      *)
  pc,           (* next step of the transport thread                        *)
  batch,        (* its local batch                                          *)
  since_good,   (* cycles since last_good_frame, up to HEALTHY              *)
  since_emit,   (* cycles since last_emit_, up to PERIOD                    *)
  seq,          (* HeartbeatEmitter::seq_                                   *)
  ros_ok,       (* rclcpp::ok() and keep_running                            *)
  next_beat,    (* observer: one past the last beat handed to the transport *)
  handed,       (* observer: ESTOP records handed over, by service call     *)
  displaced     (* observer: a cycle gathered more than a frame holds       *)

thread  == <<pc, batch, since_good, since_emit, seq>>
service == <<latched, call, ops>>
seers   == <<next_beat, handed, displaced>>
vars == <<outbound, external, thread, service, ros_ok, seers>>

Record(kind, n) == [kind |-> kind, n |-> n]
Other == Record("other", 0)
Copies(r, n) == [i \in 1 .. n |-> r]
Beat == [kind : {"beat"}, n : Nat]
Word == [kind : {"estop", "clear"}, n : Nat]    (* from a service call *)

(* How many of the first n records of a queue, or of all of it, are in R *)
Upto(q, n, R) == Cardinality({i \in 1 .. n : q[i] \in R})
Count(q, R) == Upto(q, Len(q), R)
Smaller(a, b) == IF a < b THEN a ELSE b

Init ==
  /\ outbound = <<>>
  /\ latched = FALSE
  /\ external = FALSE
  /\ call = "none"
  /\ ops = 0
  /\ pc = "gather"
  /\ batch = <<>>
  /\ since_good = HEALTHY        (* start "stale" *)
  /\ since_emit = PERIOD         (* have_last_emit_ is false *)
  /\ seq = 0
  /\ ros_ok = TRUE
  /\ next_beat = 0
  /\ handed = [n \in 1 .. MAX_OPS |-> 0]
  /\ displaced = FALSE

-----------------------------------------------------------------------------
(* EstopService::handle, engage: the latch is set before the records are
   queued. *)
EngageLatch ==
  /\ call = "none" /\ ops < MAX_OPS /\ ros_ok
  /\ ops' = ops + 1
  /\ latched' = TRUE
  /\ call' = "engage"
  /\ UNCHANGED <<outbound, external, thread, ros_ok, seers>>

EngageEmit ==
  /\ call = "engage"
  /\ outbound' = outbound \o Copies(Record("estop", ops), ESTOP_REPEAT)
  /\ call' = "none"
  /\ UNCHANGED <<external, thread, latched, ops, ros_ok, seers>>

(* EstopService::handle, disengage: the record is queued before the latch is
   cleared.  external_estop_latched is not touched. *)
ClearEmit_front ==   (* mutant: the clear jumps the queue *)
  /\ call = "none" /\ ops < MAX_OPS /\ ros_ok
  /\ ops' = ops + 1
  /\ outbound' = <<Record("clear", ops + 1)>> \o outbound
  /\ call' = "clear"
  /\ UNCHANGED <<latched, external, thread, ros_ok, seers>>

ClearEmit ==
  /\ call = "none" /\ ops < MAX_OPS /\ ros_ok
  /\ ops' = ops + 1
  /\ outbound' = Append(outbound, Record("clear", ops + 1))
  /\ call' = "clear"
  /\ UNCHANGED <<latched, external, thread, ros_ok, seers>>

ClearUnlatch ==
  /\ call = "clear"
  /\ latched' = FALSE
  /\ call' = "none"
  /\ UNCHANGED <<outbound, ops, external, thread, ros_ok, seers>>

(* The joint and flap subscriptions queue their records. *)
Command ==
  /\ Len(outbound) < MAX_QUEUE /\ ros_ok
  /\ outbound' = Append(outbound, Other)
  /\ UNCHANGED <<external, thread, service, ros_ok, seers>>

Shutdown ==
  /\ ros_ok
  /\ ros_ok' = FALSE
  /\ UNCHANGED <<outbound, external, thread, service, seers>>

-----------------------------------------------------------------------------
(* Step 1 of a cycle: XRCE and audio first, as much as they have and whatever waits
   in the queue, then the queue. *)
drain(q) == SubSeq(q, 1, Smaller(Len(q), SPI_MAX_RECORDS))
Rest(q)  == SubSeq(q, SPI_MAX_RECORDS + 1, Len(q))

Gather(burst) ==
  /\ pc = "gather" /\ ros_ok
  /\ batch' = Copies(Other, burst) \o drain(outbound)
  /\ outbound' = Rest(outbound)
  /\ pc' = "gate"
  /\ displaced' = (displaced \/ Len(batch') > SPI_MAX_RECORDS)
  /\ UNCHANGED <<external, since_good, since_emit, seq,
                 service, ros_ok, next_beat, handed>>

(* heartbeat_gate_open and HeartbeatEmitter::tick.  A shut gate touches
   neither the number nor the time of the last beat. *)
transport_healthy == since_good < HEALTHY
heartbeat_gate_open(estop) == transport_healthy /\ ~estop /\ ros_ok

tick_restart(estop) ==   (* mutant: last_emit_ is set on every call *)
  /\ since_emit' = 0
  /\ IF heartbeat_gate_open(estop) /\ since_emit >= PERIOD
     THEN /\ batch' = Append(batch, Record("beat", seq))
          /\ seq' = (seq + 1) % SEQ
     ELSE UNCHANGED <<batch, seq>>

tick(estop) ==
  IF heartbeat_gate_open(estop) /\ since_emit >= PERIOD
  THEN /\ batch' = Append(batch, Record("beat", seq))
       /\ seq' = (seq + 1) % SEQ
       /\ since_emit' = 0
  ELSE UNCHANGED <<batch, seq, since_emit>>

Gate ==
  /\ pc = "gate"
  /\ tick(latched \/ external)
  /\ pc' = "frame"
  /\ UNCHANGED <<outbound, external, since_good, service, ros_ok, seers>>

(* Step 2: what does not fit goes to the back of the queue. *)
Frame    == drain(batch)
Overflow == Rest(batch)

Requeue_beat ==   (* mutant: only a beat is put back *)
  outbound' = outbound \o SelectSeq(Overflow, LAMBDA r : r.kind = "beat")

Requeue == outbound' = outbound \o Overflow

(* Step 3: the exchange.  An idle or well-formed answer proves the link; the
   last SAFETY record in it decides the external latch. *)
Exchange(result) ==
  /\ pc = "frame"
  /\ Requeue
  /\ since_good' = IF result \in {"fail", "error"}
                   THEN Smaller(since_good + 1, HEALTHY) ELSE 1
  /\ since_emit' = Smaller(since_emit + 1, PERIOD)
  /\ external' = CASE result = "estop" -> TRUE
                   [] result = "clear" -> FALSE
                   [] OTHER -> external
  /\ next_beat' = (next_beat + Count(Frame, Beat)) % SEQ
  /\ handed' = [n \in 1 .. MAX_OPS |->
                  handed[n] + Count(Frame, {Record("estop", n)})]
  /\ batch' = <<>>
  /\ pc' = "gather"
  /\ UNCHANGED <<seq, service, ros_ok, displaced>>

Transport == (\E n \in Bursts : Gather(n)) \/ Gate \/ (\E r \in Inbound : Exchange(r))
Callbacks == EngageLatch \/ EngageEmit \/ ClearEmit \/ ClearUnlatch \/ Command
             \/ Shutdown
Next == Transport \/ Callbacks

Spec == Init /\ [][Next]_vars

(* The transport thread runs at real-time priority and a service call, once
   begun, is finished. *)
FairSpec == Spec /\ WF_vars(Transport) /\ WF_vars(EngageEmit)
                 /\ WF_vars(ClearUnlatch)

-----------------------------------------------------------------------------
Kinds == {"beat", "estop", "clear", "other"}

(* The frame handed to the SPI driver never exceeds its 31 records, and every
   variable keeps its type. *)
TypeOK ==
  /\ \A q \in {outbound, batch} : \A i \in DOMAIN q : q[i].kind \in Kinds
  /\ Len(Frame) <= SPI_MAX_RECORDS
  /\ latched \in BOOLEAN /\ external \in BOOLEAN /\ ros_ok \in BOOLEAN
  /\ call \in {"none", "engage", "clear"}
  /\ pc \in {"gather", "gate", "frame"}
  /\ ops \in 0 .. MAX_OPS
  /\ since_good \in 0 .. HEALTHY /\ since_emit \in 0 .. PERIOD
  /\ seq \in 0 .. SEQ - 1 /\ next_beat \in 0 .. SEQ - 1
  /\ handed \in [1 .. MAX_OPS -> 0 .. ESTOP_REPEAT]
  /\ displaced \in BOOLEAN

(* The records under way, in the order in which they will be handed to the
   transport if nothing more arrives. *)
InTransit ==
  IF pc = "gather" THEN outbound ELSE Frame \o (outbound \o Overflow)

(* The beats of a queue have the numbers from b on, in this order *)
Numbered(q, b) ==
  \A i \in 1 .. Len(q) : q[i] \in Beat => q[i].n = (b + Upto(q, i - 1, Beat)) % SEQ

(* Beats are handed over in the order of their numbers, none twice and none
   left out, although a beat that does not fit waits behind everything queued
   meanwhile; as long as XRCE and audio leave room for what was drained. *)
BeatsInOrder ==
  ~displaced => /\ Numbered(InTransit, next_beat)
                /\ seq = (next_beat + Count(InTransit, Beat)) % SEQ

(* Every ESTOP record of an engage is in the queue, in the frame being built
   or already handed over: overflow neither drops nor duplicates one. *)
EstopsAccounted ==
  \A n \in 1 .. MAX_OPS :
    LET e == {Record("estop", n)}
        total == Count(outbound, e) + Count(batch, e) + handed[n]
    IN  total \in {0, ESTOP_REPEAT}

(* The records of service calls in a queue are in the order of the calls *)
Fifo(q) ==
  \A i, k \in 1 .. Len(q) : i < k /\ q[i] \in Word /\ q[k] \in Word => q[i].n <= q[k].n

(* main.cpp calls the queue a FIFO: of two service calls, the records of the
   earlier one are handed over before those of the later one, so nodes see
   the operator's last word last. *)
QueueIsFifo == Fifo(InTransit)

(* The records of service calls stay in order as long as no cycle gathers more
   than a frame holds; a beat that overflows alone does not disturb them. *)
SafetyInOrder == ~displaced => QueueIsFifo

BeatsGoOn == []<><<next_beat' # next_beat>>_vars

(* A cycle begins with nothing left over from the one before *)
CaughtUp == pc = "gather" /\ outbound = <<>>

(* Heartbeats come back: with both latches cleared for good and a healthy
   transport, beats keep going out, through overflow and failed exchanges, if the
   thread catches up with its queue again and again.  That it does is not the
   code's doing: XRCE and audio go ahead of the queue, and when they fill every
   frame a beat that was put back is put back for good. *)
BeatsResume ==
  /\ <>[](~latched /\ ~external /\ transport_healthy /\ ros_ok)
  /\ []<>CaughtUp
  => BeatsGoOn

(* The transport thread's queue and frame are sound: their types and bounds, and
   the order of beats and of the records of service calls. *)
RecordsKept == TypeOK /\ BeatsInOrder /\ SafetyInOrder
=============================================================================
