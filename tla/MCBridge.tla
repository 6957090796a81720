------------------------------ MODULE MCBridge ------------------------------
(***************************************************************************)
(* Node 8 for TLC: the bridge's transport thread and services (Bridge), the   *)
(* counter its clears carry across restarts (EstopCounter), the black box     *)
(* beside it (BlackBox), the micro-ROS streams it carries (Xrce) and the      *)
(* messages it makes of telemetry (Synth).  A clear of Bridge has whatever    *)
(* counter the file gives, the black box hears of an e-stop from a topic it   *)
(* samples, and Bridge has the records of Xrce as a burst of any size; what   *)
(* one part is about does not depend on the others, so each run is a run of   *)
(* one of them.  The two directions of Xrce share only the transport thread;  *)
(* a run has one of them in use.                                             *)
(***************************************************************************)
EXTENDS Bridge, EstopCounter, BlackBox

CONSTANTS MAX_BACKLOG,  (* bound: records in the queue, whoever adds them *)
          XRCE_RECORDS, CHUNK, READ, RING, TERMINAL, PING, BYTES, MAX_AIR,
          Limbs, GROUPS, FLAPS, MAX_TICKS, MAX_MISSED

VARIABLES part,
          master, agent, written, polled, stage, load, queue, down, ring, sending,
          produced, up, inbound, terminal, link, connected, live, since_ping, got,
          received, opened, taken, jumbled,
          ticks, tally, unsent, cells_group, wire, accums, cell_v, newest, missed

Stream == INSTANCE Xrce WITH SPI_MAX_RECORDS <- XRCE_RECORDS, Bursts <- {0, 1}
Telemetry == INSTANCE Synth

streams == <<master, agent, written, polled, stage, load, queue, down, ring, sending,
             produced, up, inbound, terminal, link, connected, live, since_ping, got,
             received, opened, taken, jumbled>>
messages == <<ticks, tally, unsent, cells_group, wire, accums, cell_v, newest, missed>>
allVars == <<part, vars, counter, box, streams, messages>>

InStream == part \in {"to client", "to agent"}

MCInit ==
  /\ part \in {"transport", "counter", "black box", "to client", "to agent", "telemetry"}
  /\ Init /\ CounterInit /\ BoxInit /\ Stream!XrceInit /\ Telemetry!SynthInit
  /\ InStream \/ master

MCNext ==
  \/ /\ part = "transport" /\ Next /\ Len(outbound') <= MAX_BACKLOG
     /\ UNCHANGED <<part, counter, box, streams, messages>>
  \/ /\ part = "counter" /\ CounterNext
     /\ UNCHANGED <<part, vars, box, streams, messages>>
  \/ /\ part = "black box" /\ BoxNext
     /\ UNCHANGED <<part, vars, counter, streams, messages>>
  \/ /\ part = "to client" /\ Stream!XrceNext /\ UNCHANGED produced
     /\ UNCHANGED <<part, vars, counter, box, messages>>
  \/ /\ part = "to agent" /\ Stream!XrceNext /\ UNCHANGED written
     /\ UNCHANGED <<part, vars, counter, box, messages>>
  \/ /\ part = "telemetry" /\ Telemetry!SynthNext
     /\ UNCHANGED <<part, vars, counter, box, streams>>

(* The transport thread runs at real-time priority, a service call, once begun, is
   finished, an agent that runs reads its terminal, and the buses move on. *)
MCSpec ==
  /\ MCInit /\ [][MCNext]_allVars
  /\ WF_vars(part = "transport" /\ Transport)
  /\ WF_vars(part = "transport" /\ EngageEmit)
  /\ WF_vars(part = "transport" /\ ClearUnlatch)
  /\ WF_streams(InStream /\ Stream!Thread)
  /\ WF_streams(InStream /\ (Stream!AgentReads \/ Stream!Bus))

(* The micro-ROS streams keep their order and sessions are whole or gone (Xrce). *)
XrceKept == Stream!StreamsInOrder /\ Stream!SessionsWhole

(* A message holds the last part received of each kind, from the right node, and
   mixes samples no further than losses make it (Synth). *)
MessagesTell == Telemetry!MessagesTell

(* The transport thread goes on: its beats come back (Bridge), and no terminal holds
   it up for good while the agent runs (Xrce). *)
ThreadGoesOn == BeatsResume /\ Stream!NotHeldUp
=============================================================================
