-------------------------------- MODULE Xrce --------------------------------
(***************************************************************************)
(* The micro-ROS plane of one edge node: the byte stream between the agent's *)
(* pseudo-terminal on Node 8 and the client on the node, in both directions, *)
(* and the client's session.  xrce_demux.cpp and its place in the cycle of   *)
(* main.cpp's transport thread; ps_uros_transport_can.c; ps_uros_task.c.     *)
(*                                                                           *)
(* A byte is its number in its stream.  A record carries up to CHUNK bytes;  *)
(* a command, an audio record or a beat, which only takes up room, carries   *)
(* none.  The hub and the buses between the two ends lose records and keep   *)
(* their order.  "down" is from the agent to the client, "up" the other way. *)
(***************************************************************************)
EXTENDS Integers, Sequences, SequencesExt

CONSTANTS
  SPI_MAX_RECORDS,  (* records per SPI frame, 31                             *)
  Bursts,           (* sizes of what audio and the heartbeat add to a cycle  *)
  CHUNK,            (* bytes of a CAN payload, 8                             *)
  READ,             (* bytes read from a terminal in a cycle, 256            *)
  RING,             (* CONFIG_PS_UROS_RX_RING, 2048                          *)
  TERMINAL,         (* bytes a terminal nobody reads takes                   *)
  PING,             (* spins between two pings, 200                          *)
  BYTES,            (* bound: bytes of a stream                              *)
  MAX_AIR           (* bound: records on their way, or queued before a burst *)

VARIABLES
  master,           (* master_fd_ is open                                    *)
  agent,            (* the agent is running                                  *)
  written, polled,  (* bytes the agent has written, and poll_outbound read   *)
  stage,            (* the transport thread: "gather", "frame" or "write"    *)
  load,             (* its batch                                             *)
  queue,            (* OutboundQueue                                         *)
  down,             (* records on their way to the node                      *)
  ring,             (* the stream buffer t.rx                                *)
  sending,          (* what is left of the buffer ps_uros_write was given    *)
  produced,         (* bytes the client has given to ps_uros_write           *)
  up,               (* records on their way to Node 8                        *)
  inbound,          (* what is left of the record write_inbound was given    *)
  terminal,         (* bytes the agent has yet to read                       *)
  link,             (* link_state_t: "waiting" or "connected"                *)
  connected,        (* s_connected                                           *)
  live,             (* the objects of the session that are initialised       *)
  since_ping,       (* since_ping_ms, in spins                               *)
  got,            (* observer: last byte ps_uros_read handed out           *)
  received,         (* observer: last byte xrce_rx stored                    *)
  opened,           (* observer: received when ps_uros_open last reset t.rx  *)
  taken,            (* observer: last byte the agent has read                *)
  jumbled           (* observer: a record of the stream was requeued         *)

pipe    == <<written, polled, load, queue, down, jumbled>>
client  == <<ring, got, received, opened>>
uplink  == <<sending, produced, up>>
session == <<link, connected, live, since_ping>>
xrce == <<master, agent, stage, pipe, client, uplink, inbound, terminal, taken, session>>

Least(a, b) == IF a < b THEN a ELSE b
Bytes(from, n) == [i \in 1 .. n |-> from + i]
Slice(bytes, i) == SubSeq(bytes, CHUNK * (i - 1) + 1, Least(CHUNK * i, Len(bytes)))
Slices(bytes) == [i \in 1 .. (Len(bytes) + CHUNK - 1) \div CHUNK |-> Slice(bytes, i)]
Fillers(n) == [i \in 1 .. n |-> <<>>]
First(records) == SubSeq(records, 1, Least(Len(records), SPI_MAX_RECORDS))
Beyond(records) == SubSeq(records, SPI_MAX_RECORDS + 1, Len(records))
Stream(records) == SelectSeq(records, LAMBDA r : r # <<>>)

(* main.cpp opens the terminals; one that cannot be opened stays shut. *)
XrceInit ==
  /\ master \in BOOLEAN /\ agent = TRUE
  /\ written = 0 /\ polled = 0
  /\ stage = "gather" /\ load = <<>> /\ queue = <<>>
  /\ down = <<>> /\ ring = <<>>
  /\ sending = <<>> /\ produced = 0 /\ up = <<>>
  /\ inbound = <<>> /\ terminal = <<>>
  /\ link = "waiting" /\ connected = FALSE /\ live = {} /\ since_ping = 0
  /\ got = 0 /\ received = 0 /\ opened = 0 /\ taken = 0 /\ jumbled = FALSE

-----------------------------------------------------------------------------
(* The agent at the terminal's other end.  It may die, and be started again. *)
AgentWrites(n) ==
  /\ agent /\ master /\ written + n <= BYTES
  /\ written' = written + n
  /\ UNCHANGED <<master, agent, stage, polled, load, queue, down, jumbled, client,
                 uplink, inbound, terminal, taken, session>>

AgentReads ==
  /\ agent /\ terminal # <<>>
  /\ taken' = Last(terminal)
  /\ terminal' = <<>>
  /\ UNCHANGED <<master, agent, stage, pipe, client, uplink, inbound, session>>

AgentTurns ==
  /\ agent' = ~agent
  /\ UNCHANGED <<master, stage, pipe, client, uplink, inbound, terminal, taken, session>>

-----------------------------------------------------------------------------
(* A subscription queues a command. *)
XrceCommand ==
  /\ Len(queue) < SPI_MAX_RECORDS
  /\ queue' = Append(queue, <<>>)
  /\ UNCHANGED <<master, agent, stage, written, polled, load, down, jumbled, client,
                 uplink, inbound, terminal, taken, session>>

(* poll_outbound reads what is there, up to READ bytes, and slices it; audio and
   the queue follow. *)
poll_outbound == Bytes(polled, IF master THEN Least(written - polled, READ) ELSE 0)

Batched(burst) == Slices(poll_outbound) \o Fillers(burst) \o First(queue)

XrceGather(burst) ==
  /\ stage = "gather"
  /\ burst > 0 => Len(queue) < MAX_AIR
  /\ load' = Batched(burst)
  /\ polled' = polled + Len(poll_outbound)
  /\ queue' = Beyond(queue)
  /\ stage' = "frame"
  /\ UNCHANGED <<master, agent, written, down, jumbled, client, uplink, inbound,
                 terminal, taken, session>>

(* The frame leaves and the rest is requeued.  A failed exchange loses the frame;
   a good one may bring a record of the node's stream. *)
Exchanged(records) ==
  /\ queue' = queue \o Beyond(load)
  /\ jumbled' = (jumbled \/ Stream(Beyond(load)) # <<>>)
  /\ down' = down \o records
  /\ load' = <<>>

XrceExchange(ok) ==
  /\ stage = "frame" /\ Len(down) <= MAX_AIR
  /\ Exchanged(IF ok THEN Stream(First(load)) ELSE <<>>)
  /\ \/ /\ ok /\ up # <<>>
        /\ inbound' = Head(up)
        /\ up' = Tail(up)
        /\ stage' = "write"
     \/ stage' = "gather" /\ UNCHANGED <<inbound, up>>
  /\ UNCHANGED <<master, agent, written, polled, client, sending, produced, terminal,
                 taken, session>>

(* write_inbound: the thread stays in ::write while the terminal is full, goes on
   with what a short write left, and gives the record up where there is no
   terminal. *)
Room == TERMINAL - Len(terminal)

Wrote_again(n) == inbound' = inbound   (* mutant: a short write starts over *)
Wrote(n) == inbound' = SubSeq(inbound, n + 1, Len(inbound))

write_inbound ==
  /\ stage = "write" /\ master /\ Room > 0
  /\ LET n == Least(Room, Len(inbound))
     IN  /\ terminal' = terminal \o SubSeq(inbound, 1, n)
         /\ Wrote(n)
  /\ stage' = IF inbound' = <<>> THEN "gather" ELSE "write"
  /\ UNCHANGED <<master, agent, pipe, client, uplink, taken, session>>

write_fails ==
  /\ stage = "write" /\ ~master
  /\ inbound' = <<>>
  /\ stage' = "gather"
  /\ UNCHANGED <<master, agent, pipe, client, uplink, terminal, taken, session>>

-----------------------------------------------------------------------------
(* The hub and the buses lose a record. *)
DownLost ==
  /\ down # <<>>
  /\ down' = Tail(down)
  /\ UNCHANGED <<master, agent, stage, written, polled, load, queue, jumbled, client,
                 uplink, inbound, terminal, taken, session>>

UpLost ==
  /\ up # <<>>
  /\ up' = Tail(up)
  /\ UNCHANGED <<master, agent, stage, pipe, client, sending, produced, inbound,
                 terminal, taken, session>>

(* xrce_rx stores as much of the payload as fits. *)
Stored(bytes) == SubSeq(bytes, 1, Least(Len(bytes), RING - Len(ring)))

xrce_rx ==
  /\ down # <<>>
  /\ down' = Tail(down)
  /\ ring' = ring \o Stored(Head(down))
  /\ received' = IF Stored(Head(down)) = <<>> THEN received ELSE Last(Stored(Head(down)))
  /\ UNCHANGED <<master, agent, stage, written, polled, load, queue, jumbled, got,
                 opened, uplink, inbound, terminal, taken, session>>

ps_uros_read(n) ==
  /\ n <= Len(ring) /\ sending = <<>>
  /\ got' = ring[n]
  /\ ring' = SubSeq(ring, n + 1, Len(ring))
  /\ UNCHANGED <<master, agent, stage, pipe, received, opened, uplink, inbound,
                 terminal, taken, session>>

(* ps_uros_write slices its buffer; the first slice that the bus does not take
   ends the call. *)
WriteBegins(n) ==
  /\ sending = <<>> /\ produced + n <= BYTES
  /\ sending' = Bytes(produced, n)
  /\ produced' = produced + n
  /\ UNCHANGED <<master, agent, stage, pipe, client, up, inbound, terminal, taken,
                 session>>

WriteSlice ==
  /\ sending # <<>> /\ Len(up) < MAX_AIR
  /\ up' = Append(up, Slice(sending, 1))
  /\ sending' = SubSeq(sending, CHUNK + 1, Len(sending))
  /\ UNCHANGED <<master, agent, stage, pipe, client, produced, inbound, terminal,
                 taken, session>>

WriteStops ==
  /\ sending # <<>>
  /\ sending' = <<>>
  /\ UNCHANGED <<master, agent, stage, pipe, client, produced, up, inbound, terminal,
                 taken, session>>

-----------------------------------------------------------------------------
(* session_task.  ps_uros_open, which every ping without a session and every
   rclc_support_init call, throws away what the buffer holds. *)
ps_uros_open == ring' = <<>> /\ opened' = received

set_connected(isUp) == connected' = isUp

Objects == <<"support", "node", "executor">>

(* Waiting: no answer, or one, after which the objects are made in turn; where one
   cannot be made only the support is finalised. *)
PingUnanswered ==
  /\ link = "waiting" /\ sending = <<>>
  /\ ps_uros_open
  /\ UNCHANGED <<master, agent, stage, pipe, got, received, uplink, inbound,
                 terminal, taken, session>>

SessionFails(made) ==
  /\ link = "waiting" /\ sending = <<>>
  /\ ps_uros_open
  /\ live' = (live \cup {Objects[i] : i \in 1 .. made}) \ {"support"}
  /\ UNCHANGED <<master, agent, stage, pipe, got, received, uplink, inbound,
                 terminal, taken, link, connected, since_ping>>

SessionBegins ==
  /\ link = "waiting" /\ sending = <<>>
  /\ ps_uros_open
  /\ live' = Range(Objects)
  /\ set_connected(TRUE)
  /\ since_ping' = 0
  /\ link' = "connected"
  /\ UNCHANGED <<master, agent, stage, pipe, got, received, uplink, inbound,
                 terminal, taken>>

(* Connected: spin, and ping now and then; an unanswered ping ends the session. *)
Spin ==
  /\ link = "connected" /\ sending = <<>>
  /\ since_ping' = (since_ping + 1) % PING
  /\ UNCHANGED <<master, agent, stage, pipe, client, uplink, inbound, terminal,
                 taken, link, connected, live>>

TornDown == live' = live \ Range(Objects)

SessionEnds ==
  /\ link = "connected" /\ sending = <<>>
  /\ since_ping + 1 = PING
  /\ since_ping' = 0
  /\ set_connected(FALSE)
  /\ TornDown
  /\ link' = "waiting"
  /\ UNCHANGED <<master, agent, stage, pipe, client, uplink, inbound, terminal, taken>>

-----------------------------------------------------------------------------
Thread == \/ \E n \in Bursts : XrceGather(n)
          \/ \E ok \in BOOLEAN : XrceExchange(ok)
          \/ write_inbound \/ write_fails
Agent == AgentReads \/ AgentTurns \/ \E n \in 1 .. READ : AgentWrites(n)
Bus == DownLost \/ UpLost \/ xrce_rx
Client == \/ \E n \in 1 .. RING : ps_uros_read(n)
          \/ \E n \in 1 .. CHUNK + 1 : WriteBegins(n)
          \/ WriteSlice \/ WriteStops
Session == \/ PingUnanswered \/ SessionBegins \/ Spin \/ SessionEnds
           \/ \E made \in 0 .. 2 : SessionFails(made)
XrceNext == Thread \/ Agent \/ Bus \/ Client \/ Session \/ XrceCommand

-----------------------------------------------------------------------------
Increasing(bytes) == \A i, j \in DOMAIN bytes : i < j => bytes[i] < bytes[j]

(* ps_uros_transport_can.c relies on the stream coming in order, with no numbers of
   its own: the agent reads the client's bytes in order, none twice, and the client
   the agent's, unless a cycle read more of the terminal than a frame holds and had
   to requeue the rest behind what the next cycle reads. *)
StreamsInOrder ==
  /\ Increasing(<<taken>> \o terminal \o inbound \o FlattenSeq(up) \o sending)
  /\ ~jumbled =>
       Increasing(<<got>> \o ring \o FlattenSeq(down) \o FlattenSeq(First(load))
                  \o FlattenSeq(queue))

(* ps_uros_task.c: "a half-alive session is worse than no session".  A session that
   is up has all its objects; one that is not leaves no support and no executor
   behind, and the buffer holds nothing from before it was last opened. *)
SessionsWhole ==
  /\ connected = (link = "connected")
  /\ link = "connected" => live = Range(Objects)
  /\ link = "waiting" => live \subseteq {"node"}
  /\ ~jumbled => \A i \in DOMAIN ring : ring[i] > opened

(* The transport thread, which also carries the heartbeat, is never held up for good
   by a terminal while the agent runs. *)
NotHeldUp == <>[]agent => []<>(stage = "gather")
=============================================================================
